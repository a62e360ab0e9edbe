----------------------------- MODULE ChatProofs -----------------------------
(***************************************************************************)
(* Proofs that the reviewer of Chat sees every draft first and refuses     *)
(* each task the same number of drafts, and that the record of a request   *)
(* is whole, for any number of requests, retries, rounds, steps and tools. *)
(***************************************************************************)
EXTENDS Chat, SequenceTheorems, TLAPS

At     == {"idle", "history", "streaming", "answered", "error", "left"}
Nodes  == Agents \cup {"supervisor", "reviewer", "END"}
Calls  == {"ready", "reading", "asking", "marking"}
Lasts  == Agents \cup {"none", "supervisor", "passed", "given up"}
Events == {"tool_call", "approval_request", "answer", "error"}

Request == [at : At, saving : BOOLEAN, node : Nodes, call : Calls, last : Lasts,
            retry : Nat, rounds : Nat, steps : Nat, events : Seq(Events),
            refused : Nat, tools : Nat]

\* Where the graph may be with what the reviewer has said so far: within a task, retry
\* counts the refusals of that task; the supervisor finds it reset.
Reviewing(q, node) ==
    /\ node \in Reviewed \cup {"reviewer"} => q.refused = q.retry /\ q.retry <= MaxRetries
    /\ node = "reviewer" => q.last \in Reviewed
    /\ node \in {"supervisor", "ops_agent"} => q.retry = 0
    /\ node = "supervisor" =>
           /\ q.last \notin Reviewed
           /\ q.last = "given up" => q.refused = MaxRetries + 1
           /\ q.last = "passed" => q.refused <= MaxRetries

\* Before the user's message is saved nothing has run.
Fresh(q) == q.at \in {"idle", "history"} => q.node = "END" /\ q.last = "none" /\ q.retry = 0

\* A row is saved of an event that is there.
Saves(q) == q.saving => q.events # <<>>

RequestOK(q) == Reviewing(q, q.node) /\ Fresh(q) /\ Saves(q)

ReviewInv ==
    /\ req \in [Requests -> Request]
    /\ \A r \in Requests : RequestOK(req[r])

\* What the sets of the fields hold, so that they need not be expanded.
LEMMA Members ==
    /\ "idle" \in At /\ "history" \in At /\ "streaming" \in At
    /\ "answered" \in At /\ "error" \in At /\ "left" \in At
    /\ "ready" \in Calls /\ "reading" \in Calls /\ "asking" \in Calls /\ "marking" \in Calls
    /\ "END" \in Nodes /\ "supervisor" \in Nodes /\ "reviewer" \in Nodes
    /\ Agents \subseteq Nodes /\ Agents \subseteq Lasts
    /\ "none" \in Lasts /\ "supervisor" \in Lasts
    /\ "passed" \in Lasts /\ "given up" \in Lasts
    /\ "tool_call" \in Events /\ "approval_request" \in Events
    /\ "answer" \in Events /\ "error" \in Events
  BY DEF At, Calls, Nodes, Lasts, Events

LEMMA BlankOK == Blank \in Request /\ RequestOK(Blank)
  <1>1. Blank \in Request
    <2>1. <<>> \in Seq(Events)
      OBVIOUS
    <2> QED
      BY <2>1, Members DEF Blank, Request
  <1>2. RequestOK(Blank)
    BY ChatAssumption DEF Blank, RequestOK, Reviewing, Fresh, Saves, Reviewed
  <1> QED
    BY <1>1, <1>2

\* A stream that is over is in order again.
LEMMA OverOK ==
    ASSUME NEW q \in Request, NEW how \in {"answered", "error", "left"}
    PROVE  Over(q, how) \in Request /\ RequestOK(Over(q, how))
  <1>1. Blank \in Request
    BY BlankOK
  <1>2. Over(q, how) \in Request
    BY <1>1, Members DEF Over, Request
  <1>3. Over(q, how).node = "END" /\ Over(q, how).at = how /\ Over(q, how).saving = FALSE
    BY <1>1 DEF Over, Request, Blank
  <1> QED
    BY <1>2, <1>3 DEF RequestOK, Reviewing, Fresh, Saves, Reviewed

\* Raising leads out of the graph.
LEMMA RaisedOK ==
    ASSUME NEW q \in Request, Fresh(q)
    PROVE  Raised(q) \in Request /\ RequestOK(Raised(q))
  <1>1. Append(q.events, "error") \in Seq(Events) /\ Append(q.events, "error") # <<>>
    <2>1. q.events \in Seq(Events) /\ "error" \in Events
      BY Members DEF Request
    <2> QED
      BY <2>1, AppendProperties
  <1>2. /\ Raised(q) \in Request
        /\ Raised(q).events = Append(q.events, "error")
        /\ Raised(q).node = "END"
        /\ Raised(q).at = q.at /\ Raised(q).last = q.last /\ Raised(q).retry = q.retry
    BY <1>1, Members DEF Raised, Put, Request
  <1> QED
    BY <1>1, <1>2 DEF RequestOK, Reviewing, Fresh, Saves, Reviewed

\* An edge may be taken when the request is in order for the node that it leads to.
LEMMA GotoOK ==
    ASSUME NEW q \in Request, NEW node \in Nodes \cup {"FINISH"}, node # "END",
           q.at \notin {"idle", "history"}, Reviewing(q, node), Saves(q)
    PROVE  Goto(q, node) \in Request /\ RequestOK(Goto(q, node))
  <1>1. CASE node = "FINISH"
    <2>1. Append(q.events, "answer") \in Seq(Events) /\ Append(q.events, "answer") # <<>>
      <3>1. q.events \in Seq(Events) /\ "answer" \in Events
        BY Members DEF Request
      <3> QED
        BY <3>1, AppendProperties
    <2>2. /\ Goto(q, node) \in Request
          /\ Goto(q, node).events = Append(q.events, "answer")
          /\ Goto(q, node).node = "END"
          /\ Goto(q, node).at = q.at
      BY <1>1, <2>1, Members DEF Goto, Put, Request
    <2> QED
      BY <2>1, <2>2 DEF RequestOK, Reviewing, Fresh, Saves, Reviewed
  <1>2. CASE node # "FINISH" /\ q.steps = MaxSteps
    <2>1. Fresh(q)
      BY DEF Fresh
    <2> QED
      BY <1>2, <2>1, RaisedOK DEF Goto
  <1>3. CASE node # "FINISH" /\ q.steps # MaxSteps
    <2> DEFINE next == [q EXCEPT !.node = node, !.call = "ready", !.rounds = 0,
                                 !.steps = q.steps + 1]
    <2>1. node \in Nodes /\ q.steps + 1 \in Nat
      BY <1>3 DEF Request
    <2>2. /\ next \in Request
          /\ next.node = node
          /\ next.at = q.at /\ next.last = q.last
          /\ next.retry = q.retry /\ next.refused = q.refused
          /\ next.saving = q.saving /\ next.events = q.events
      BY <2>1, Members DEF Request
    <2>3. RequestOK(next)
      BY <2>2 DEF RequestOK, Reviewing, Fresh, Saves
    <2>4. Goto(q, node) = next
      BY <1>3 DEF Goto
    <2> QED
      BY <2>2, <2>3, <2>4
  <1> QED
    BY <1>1, <1>2, <1>3

\* A worker's draft goes to the reviewer, the one of ops_agent to the supervisor.
LEMMA DraftOK ==
    ASSUME NEW q \in Request, RequestOK(q), q.node \in Agents
    PROVE  Draft(q) \in Request /\ RequestOK(Draft(q))
  <1> DEFINE answered == [q EXCEPT !.last = q.node]
  <1>1. /\ answered \in Request
        /\ answered.last = q.node /\ answered.at = q.at
        /\ answered.retry = q.retry /\ answered.refused = q.refused
        /\ answered.saving = q.saving /\ answered.events = q.events
    BY Members DEF Request
  <1>2. q.at \notin {"idle", "history"}
    BY DEF RequestOK, Fresh, Agents, Reviewed
  <1>3. Reviewing(answered, Target(q.node)) /\ Saves(answered)
    BY <1>1 DEF RequestOK, Reviewing, Saves, Target, Agents, Reviewed
  <1>4. Target(q.node) \in Nodes \cup {"FINISH"} /\ Target(q.node) # "END"
    BY DEF Target, Nodes
  <1>5. Goto(answered, Target(q.node)) \in Request /\ RequestOK(Goto(answered, Target(q.node)))
    BY <1>1, <1>2, <1>3, <1>4, GotoOK
  <1> QED
    BY <1>5 DEF Draft

\* The reviewer's verdict leads to the supervisor, or back to the worker.
LEMMA VerdictOK ==
    ASSUME NEW q \in Request, RequestOK(q), q.node = "reviewer", NEW passed \in BOOLEAN
    PROVE  Verdict(q, passed) \in Request /\ RequestOK(Verdict(q, passed))
  <1> USE ChatAssumption
  <1>1. /\ q.at \notin {"idle", "history"}
        /\ q.last \in Reviewed /\ q.refused = q.retry /\ q.retry <= MaxRetries
        /\ q.retry \in Nat /\ q.refused \in Nat /\ MaxRetries \in Nat
        /\ Saves(q)
    BY DEF RequestOK, Reviewing, Fresh, Request
  <1>2. CASE passed
    <2> DEFINE p == [q EXCEPT !.retry = 0, !.last = "passed"]
    <2>1. /\ p \in Request
          /\ p.at = q.at /\ p.last = "passed" /\ p.retry = 0 /\ p.refused = q.refused
          /\ p.saving = q.saving /\ p.events = q.events
      BY Members DEF Request
    <2>2. Reviewing(p, "supervisor") /\ Saves(p)
      BY <1>1, <2>1 DEF Reviewing, Saves, Reviewed
    <2>3. Goto(p, "supervisor") \in Request /\ RequestOK(Goto(p, "supervisor"))
      BY <1>1, <2>1, <2>2, GotoOK DEF Nodes
    <2> QED
      BY <1>2, <2>3 DEF Verdict
  <1>3. CASE ~passed /\ q.retry + 1 > MaxRetries
    <2> DEFINE p == [q EXCEPT !.retry = 0, !.refused = q.refused + 1, !.last = "given up"]
    <2>1. /\ p \in Request
          /\ p.at = q.at /\ p.last = "given up" /\ p.retry = 0 /\ p.refused = q.refused + 1
          /\ p.saving = q.saving /\ p.events = q.events
      <3>1. q.refused + 1 \in Nat
        BY <1>1
      <3> QED
        BY <3>1, Members DEF Request
    <2>2. Reviewing(p, "supervisor") /\ Saves(p)
      BY <1>1, <1>3, <2>1 DEF Reviewing, Saves, Reviewed
    <2>3. Goto(p, "supervisor") \in Request /\ RequestOK(Goto(p, "supervisor"))
      BY <1>1, <2>1, <2>2, GotoOK DEF Nodes
    <2> QED
      BY <1>3, <2>3 DEF Verdict, Refused
  <1>4. CASE ~passed /\ ~(q.retry + 1 > MaxRetries)
    <2> DEFINE p == [q EXCEPT !.retry = q.retry + 1, !.refused = q.refused + 1]
    <2>1. /\ p \in Request
          /\ p.at = q.at /\ p.last = q.last
          /\ p.retry = q.retry + 1 /\ p.refused = q.refused + 1
          /\ p.saving = q.saving /\ p.events = q.events
      <3>1. q.refused + 1 \in Nat /\ q.retry + 1 \in Nat
        BY <1>1
      <3> QED
        BY <3>1 DEF Request
    <2>4. q.last \in Agents /\ q.last \notin {"END", "supervisor", "reviewer", "ops_agent"}
      BY <1>1 DEF Reviewed, Agents
    <2>5. q.retry + 1 <= MaxRetries /\ q.refused + 1 = q.retry + 1
      BY <1>1, <1>4
    <2>2. Reviewing(p, q.last) /\ Saves(p) /\ q.last \in Nodes /\ q.last # "END"
      BY <1>1, <2>1, <2>4, <2>5, Members DEF Reviewing, Saves
    <2>3. Goto(p, q.last) \in Request /\ RequestOK(Goto(p, q.last))
      BY <1>1, <2>1, <2>2, GotoOK
    <2> QED
      BY <1>4, <2>3 DEF Verdict, Refused
  <1> QED
    BY <1>2, <1>3, <1>4

\* Only the request that takes a step changes.
LEMMA SetOK ==
    ASSUME ReviewInv, NEW r \in Requests, NEW q \in Request, RequestOK(q), Set(r, q)
    PROVE  ReviewInv'
  BY DEF ReviewInv, Set

\* A step within a call of the session, or one that only moves events, leaves the
\* reviewer's account alone.
LEMMA SameReview ==
    ASSUME NEW q \in Request, RequestOK(q), NEW p \in Request,
           p.at = q.at, p.node = q.node, p.last = q.last, p.retry = q.retry,
           p.refused = q.refused, Saves(p)
    PROVE  RequestOK(p)
  BY DEF RequestOK, Reviewing, Fresh

LEMMA UsesOK ==
    ASSUME ReviewInv, NEW r \in Requests, NEW before \in Calls, NEW during \in Calls,
           Uses(r, before, during)
    PROVE  ReviewInv'
  <1> DEFINE q == req[r]
  <1>1. q \in Request /\ RequestOK(q) /\ q.at \notin {"idle", "history"}
    BY DEF ReviewInv, RequestOK, Fresh, Uses
  <1>2. CASE Set(r, [q EXCEPT !.call = during])
    <2>1. [q EXCEPT !.call = during] \in Request
      BY <1>1 DEF Request
    <2>2. RequestOK([q EXCEPT !.call = during])
      BY <1>1, <2>1, SameReview DEF Request, RequestOK, Saves
    <2> QED
      BY <1>2, <2>1, <2>2, SetOK
  <1>3. CASE Set(r, Raised(q))
    <2>1. Raised(q) \in Request /\ RequestOK(Raised(q))
      BY <1>1, RaisedOK DEF RequestOK
    <2> QED
      BY <1>3, <2>1, SetOK
  <1> QED
    BY <1>2, <1>3 DEF Uses

\* A worker starts a task with nothing refused.
LEMMA DelegatedOK ==
    ASSUME NEW p, p.refused = 0, p.retry = 0, NEW node, node \notin {"reviewer", "supervisor"}
    PROVE  Reviewing(p, node)
  <1>1. MaxRetries \in Nat
    BY ChatAssumption
  <1>2. p.refused = p.retry /\ p.retry <= MaxRetries
    BY <1>1
  <1> QED
    BY <1>2 DEF Reviewing

LEMMA GraphOK ==
    ASSUME ReviewInv, NEW r \in Requests, GraphStep(r)
    PROVE  ReviewInv'
  <1> DEFINE q == req[r]
  <1>1. q \in Request /\ RequestOK(q)
    BY DEF ReviewInv
  <1>2. q.node # "END" => q.at \notin {"idle", "history"}
    BY <1>1 DEF RequestOK, Fresh
  <1>3. CASE Candidates(r)
    BY <1>3, UsesOK, Members DEF Candidates
  <1>10. CASE Answered(r)
    BY <1>10, UsesOK, Members DEF Answered
  <1>4. CASE Asked(r)
    <2>1. [q EXCEPT !.call = "asking"] \in Request
      BY <1>1, Members DEF Request
    <2>2. RequestOK([q EXCEPT !.call = "asking"])
      BY <1>1, <2>1, SameReview DEF Request, RequestOK, Saves
    <2> QED
      BY <1>4, <2>1, <2>2, SetOK DEF Asked
  <1>5. CASE Supervise(r)
    <2>1. PICK next \in Agents \cup {"FINISH"} :
              Set(r, Goto([q EXCEPT !.last = "supervisor",
                                    !.refused = IF next = "FINISH" THEN @ ELSE 0], next))
      BY <1>5 DEF Supervise
    <2> DEFINE p == [q EXCEPT !.last = "supervisor",
                              !.refused = IF next = "FINISH" THEN q.refused ELSE 0]
    <2>2. q.node = "supervisor" /\ q.retry = 0 /\ q.at \notin {"idle", "history"}
      BY <1>1, <1>2, <1>5 DEF Supervise, RequestOK, Reviewing
    <2>3. /\ p \in Request /\ p.at = q.at /\ p.retry = 0
          /\ p.saving = q.saving /\ p.events = q.events
          /\ next # "FINISH" => p.refused = 0
      BY <1>1, <2>2, Members DEF Request
    <2>4. Reviewing(p, next) /\ Saves(p)
      <3>1. Saves(p)
        BY <1>1, <2>3 DEF RequestOK, Saves
      <3>2. MaxRetries \in Nat /\ next \notin {"reviewer", "supervisor"}
        BY ChatAssumption DEF Agents, Reviewed
      <3>3. CASE next = "FINISH"
        BY <3>1, <3>3 DEF Reviewing, Reviewed
      <3>4. CASE next # "FINISH"
        <4>1. p.refused = 0 /\ p.retry = 0
          BY <2>3, <3>4
        <4> QED
          BY <3>1, <3>2, <4>1, DelegatedOK
      <3> QED
        BY <3>3, <3>4
    <2>5. next \in Nodes \cup {"FINISH"} /\ next # "END"
      BY DEF Nodes, Agents, Reviewed
    <2>6. Goto(p, next) \in Request /\ RequestOK(Goto(p, next))
      BY <2>2, <2>3, <2>4, <2>5, GotoOK
    <2> QED
      BY <2>1, <2>6, SetOK
  <1>6. CASE Answers(r)
    <2>1. Draft(q) \in Request /\ RequestOK(Draft(q))
      BY <1>1, <1>6, DraftOK DEF Answers
    <2> QED
      BY <1>6, <2>1, SetOK DEF Answers
  <1>7. CASE CallsTools(r)
    <2>1. PICK n \in 0..(MaxTools - q.tools) : \E ran \in [1..n -> ToolEvents(q.node)] :
              LET then == [q EXCEPT !.events = @ \o ran, !.tools = @ + n,
                                    !.rounds = IF @ < MaxRounds THEN @ + 1 ELSE @,
                                    !.call = "ready"]
              IN  Set(r, IF NoMoreRounds(then) THEN Draft(then) ELSE then)
      BY <1>7 DEF CallsTools
    <2>2. PICK ran \in [1..n -> ToolEvents(q.node)] :
              LET then == [q EXCEPT !.events = @ \o ran, !.tools = @ + n,
                                    !.rounds = IF @ < MaxRounds THEN @ + 1 ELSE @,
                                    !.call = "ready"]
              IN  Set(r, IF NoMoreRounds(then) THEN Draft(then) ELSE then)
      BY <2>1
    <2> DEFINE rounds == IF q.rounds < MaxRounds THEN q.rounds + 1 ELSE q.rounds
               then == [q EXCEPT !.events = q.events \o ran, !.tools = q.tools + n,
                                 !.rounds = rounds, !.call = "ready"]
    <2>3. n \in Nat /\ q.tools + n \in Nat /\ rounds \in Nat
      BY <1>1, ChatAssumption DEF Request
    <2>11. Set(r, IF NoMoreRounds(then) THEN Draft(then) ELSE then)
      BY <2>2
    <2>4. ran \in Seq(Events)
      <3>1. ran \in Seq(ToolEvents(q.node))
        BY <2>3
      <3>2. ToolEvents(q.node) \subseteq Events
        BY Members DEF ToolEvents
      <3> QED
        BY <3>1, <3>2
    <2>5. /\ q.events \o ran \in Seq(Events)
          /\ q.events # <<>> => q.events \o ran # <<>>
      <3>1. q.events \in Seq(Events)
        BY <1>1 DEF Request
      <3> QED
        BY <2>4, <3>1
    <2>6. /\ then \in Request
          /\ then.at = q.at /\ then.node = q.node /\ then.last = q.last
          /\ then.retry = q.retry /\ then.refused = q.refused
          /\ then.saving = q.saving /\ then.events = q.events \o ran
      <3> HIDE DEF rounds
      <3> QED
        BY <1>1, <2>3, <2>5, Members DEF Request
    <2>12. Saves(then)
      BY <1>1, <2>5, <2>6 DEF RequestOK, Saves
    <2>7. RequestOK(then) /\ then.node \in Agents
      BY <1>1, <1>7, <2>6, <2>12, SameReview DEF CallsTools
    <2>8. Draft(then) \in Request /\ RequestOK(Draft(then))
      BY <2>6, <2>7, DraftOK
    <2>9. CASE NoMoreRounds(then)
      BY <2>11, <2>8, <2>9, SetOK
    <2>10. CASE ~NoMoreRounds(then)
      BY <2>11, <2>6, <2>7, <2>10, SetOK
    <2> QED
      BY <2>9, <2>10
  <1>8. CASE Review(r)
    <2>1. PICK passed \in BOOLEAN : Set(r, Verdict(q, passed))
      BY <1>8 DEF Review
    <2>2. Verdict(q, passed) \in Request /\ RequestOK(Verdict(q, passed))
      BY <1>1, <1>8, VerdictOK DEF Review
    <2> QED
      BY <2>1, <2>2, SetOK
  <1>9. CASE ModelFails(r)
    <2>1. Raised(q) \in Request /\ RequestOK(Raised(q))
      BY <1>1, RaisedOK DEF RequestOK
    <2> QED
      BY <1>9, <2>1, SetOK DEF ModelFails
  <1> QED
    BY <1>3, <1>4, <1>5, <1>6, <1>7, <1>8, <1>9, <1>10 DEF GraphStep

LEMMA StreamOK ==
    ASSUME ReviewInv, NEW r \in Requests, Begin(r) \/ StreamStep(r) \/ Leave(r)
    PROVE  ReviewInv'
  <1> DEFINE q == req[r]
  <1>1. q \in Request /\ RequestOK(q)
    BY DEF ReviewInv
  <1>2. ASSUME NEW how \in {"answered", "error", "left"}, Set(r, Over(q, how))
        PROVE  ReviewInv'
    <2>1. Over(q, how) \in Request /\ RequestOK(Over(q, how))
      BY <1>1, OverOK
    <2> QED
      BY <1>2, <2>1, SetOK
  <1>3. CASE Begin(r)
    <2> DEFINE p == [q EXCEPT !.at = "history"]
    <2>1. /\ p \in Request /\ p.at = "history" /\ p.node = q.node
          /\ p.last = q.last /\ p.retry = q.retry /\ p.refused = q.refused
          /\ p.saving = q.saving /\ p.events = q.events
      BY <1>1, Members DEF Request
    <2>2. RequestOK(p)
      BY <1>1, <1>3, <2>1 DEF RequestOK, Reviewing, Fresh, Saves, Begin
    <2> QED
      BY <1>3, <2>1, <2>2, SetOK DEF Begin
  <1>4. CASE SaveUser(r)
    <2> DEFINE p == [q EXCEPT !.at = "streaming", !.node = "supervisor", !.steps = 1]
    <2>1. /\ p \in Request /\ p.at = "streaming" /\ p.node = "supervisor"
          /\ p.last = q.last /\ p.retry = q.retry
          /\ p.saving = q.saving /\ p.events = q.events
      BY <1>1, Members DEF Request
    <2>2. q.last = "none" /\ q.retry = 0
      BY <1>1, <1>4 DEF SaveUser, RequestOK, Fresh
    <2>3. RequestOK(p)
      BY <1>1, <2>1, <2>2 DEF RequestOK, Reviewing, Fresh, Saves, Reviewed
    <2> QED
      BY <1>2, <1>4, <2>1, <2>3, SetOK DEF SaveUser
  <1>5. CASE SaveBegins(r)
    <2> DEFINE p == [q EXCEPT !.saving = TRUE]
    <2>1. /\ p \in Request /\ p.at = q.at /\ p.node = q.node
          /\ p.last = q.last /\ p.retry = q.retry /\ p.refused = q.refused
          /\ p.events = q.events
      BY <1>1 DEF Request
    <2>2. RequestOK(p)
      BY <1>1, <1>5, <2>1, SameReview DEF SaveBegins, Saves
    <2> QED
      BY <1>2, <1>5, <2>1, <2>2, SetOK DEF SaveBegins
  <1>6. CASE SaveEnds(r)
    <2> DEFINE p == [q EXCEPT !.saving = FALSE, !.events = Tail(q.events)]
    <2>1. q.events # <<>> => Tail(q.events) \in Seq(Events)
      <3>1. q.events \in Seq(Events)
        BY <1>1 DEF Request
      <3> QED
        BY <3>1
    <2>2. q.events # <<>>
      BY <1>1, <1>6 DEF SaveEnds, RequestOK, Saves
    <2>3. /\ p \in Request /\ p.at = q.at /\ p.node = q.node /\ p.saving = FALSE
          /\ p.last = q.last /\ p.retry = q.retry /\ p.refused = q.refused
      BY <1>1, <2>1, <2>2 DEF Request
    <2>4. RequestOK(p)
      BY <1>1, <2>3, SameReview DEF Saves
    <2> QED
      BY <1>2, <1>6, <2>3, <2>4, SetOK DEF SaveEnds
  <1>7. CASE StreamFails(r)
    BY <1>2, <1>7 DEF StreamFails
  <1>8. CASE Leave(r)
    BY <1>2, <1>8 DEF Leave
  <1> QED
    BY <1>3, <1>4, <1>5, <1>6, <1>7, <1>8 DEF StreamStep

\* The reviewer's account holds whatever the requests do.
THEOREM ReviewInvCorrect == Spec => []ReviewInv
  <1>1. Init => ReviewInv
    BY BlankOK DEF Init, ReviewInv
  <1>2. ReviewInv /\ [Next]_vars => ReviewInv'
    <2> SUFFICES ASSUME ReviewInv, [Next]_vars
                 PROVE  ReviewInv'
      OBVIOUS
    <2>1. ASSUME NEW r \in Requests, Begin(r) \/ GraphStep(r) \/ StreamStep(r) \/ Leave(r)
          PROVE  ReviewInv'
      BY <2>1, GraphOK, StreamOK
    <2>2. CASE Create \/ Delete \/ UNCHANGED vars
      <3>1. req' = req
        BY <2>2 DEF Create, Delete, vars
      <3> QED
        BY <3>1 DEF ReviewInv
    <2> QED
      BY <2>1, <2>2 DEF Next
  <1> QED
    BY <1>1, <1>2, PTL DEF Spec

\* The supervisor sees no draft of the agents that report about the portfolio and the
\* market before the reviewer passed it or refused MaxRetries + 1 drafts of the task.
THEOREM ReviewedFirstCorrect == Spec => []ReviewedFirst
  <1>1. ReviewInv => ReviewedFirst
    BY DEF ReviewInv, RequestOK, Reviewing, ReviewedFirst
  <1> QED
    BY <1>1, ReviewInvCorrect, PTL
-----------------------------------------------------------------------------
(* What is on record of a request *)

Roles == {"user", "tool", "assistant"}

\* The role of the k-th row of a request in which so many tools ran, when it has one.
RoleAt(k, tools) == IF k = 1 THEN "user" ELSE IF k <= tools + 1 THEN "tool" ELSE "assistant"

Beginning(rows, tools) ==
    /\ rows \in Seq(Roles) /\ Len(rows) <= tools + 2
    /\ \A k \in 1..Len(rows) : rows[k] = RoleAt(k, tools)

\* The graph has come to its end, and its last event says how.
Lasting == {"answer", "error"}
Closing(q) == IF q.node = "END" THEN 1 ELSE 0
EventsOK(q) ==
    /\ Closing(q) <= Len(q.events)
    /\ \A k \in 1..Len(q.events) :
           q.events[k] \in Lasting <=> k = Len(q.events) /\ q.node = "END"

\* Only a request that streams has events, and none of them is lost or made up.
Moves(q) ==
    /\ IF q.at = "streaming" THEN EventsOK(q)
       ELSE q.node = "END" /\ q.events = <<>> /\ ~q.saving
    /\ q.node = "END" => q.call = "ready"
    /\ q.at \in {"idle", "history"} => q.tools = 0
    /\ q.saving => Head(q.events) # "error"

\* What the stream has recorded and what it has still to take are all that there is.
Recorded(q, rows) ==
    /\ Beginning(rows, q.tools)
    /\ q.at \in {"idle", "history"} => rows = <<>>
    /\ q.at = "streaming" =>
           /\ Len(rows) >= 1
           /\ Len(rows) + Len(q.events) = Closing(q) + q.tools + 1
    /\ q.at = "answered" => Len(rows) = q.tools + 2

RecordInv ==
    /\ log \in [Requests -> Seq(Roles)]
    /\ chat \in {"none", "open", "deleted"}
    /\ \A r \in Requests : Moves(req[r])
    /\ chat = "none" => \A r \in Requests : req[r].at = "idle"
    /\ chat = "open" => \A r \in Requests : Recorded(req[r], log[r])
    /\ chat # "open" => \A r \in Requests : log[r] = <<>>

\* A step of the graph takes q to p: it adds events, one for each tool that ran and one
\* when the graph ends, and leaves those that are there.
Onward(q, p) ==
    /\ p.at = q.at /\ p.saving = q.saving
    /\ Len(p.events) >= Len(q.events)
    /\ \A k \in 1..Len(q.events) : p.events[k] = q.events[k]
    /\ Len(p.events) + q.tools = Len(q.events) + p.tools + Closing(p)
    /\ p.tools >= q.tools
    /\ EventsOK(p)
    /\ p.node = "END" => p.call = "ready"

LEMMA CountsAre ==
    ASSUME NEW q \in Request
    PROVE  Len(q.events) \in Nat /\ q.tools \in Nat
  BY DEF Request

\* What Onward says depends on these fields only.
LEMMA OnwardFrom ==
    ASSUME NEW q \in Request, NEW q2 \in Request, NEW p \in Request,
           q2.at = q.at, q2.saving = q.saving, q2.events = q.events, q2.tools = q.tools,
           Onward(q2, p)
    PROVE  Onward(q, p)
  BY DEF Onward

LEMMA OnwardTrans ==
    ASSUME NEW q \in Request, NEW q2 \in Request, NEW p \in Request,
           q2.node # "END", Onward(q, q2), Onward(q2, p)
    PROVE  Onward(q, p)
  <1>1. /\ Len(q.events) \in Nat /\ Len(q2.events) \in Nat /\ Len(p.events) \in Nat
        /\ q.tools \in Nat /\ q2.tools \in Nat /\ p.tools \in Nat
        /\ Closing(p) \in Nat /\ Closing(q2) = 0
    <2>1. Closing(p) \in Nat /\ Closing(q2) = 0
      BY DEF Closing
    <2> QED
      BY <2>1, CountsAre
  <1>2. \A k \in 1..Len(q.events) : p.events[k] = q.events[k]
    <2> TAKE k \in 1..Len(q.events)
    <2>1. k \in 1..Len(q2.events) /\ q2.events[k] = q.events[k]
      BY <1>1 DEF Onward
    <2> QED
      BY <2>1 DEF Onward
  <1>3. /\ Len(p.events) >= Len(q.events) /\ p.tools >= q.tools
        /\ Len(p.events) + q.tools = Len(q.events) + p.tools + Closing(p)
    <2>1. /\ Len(q2.events) >= Len(q.events) /\ q2.tools >= q.tools
          /\ Len(q2.events) + q.tools = Len(q.events) + q2.tools + 0
      BY <1>1 DEF Onward
    <2>2. /\ Len(p.events) >= Len(q2.events) /\ p.tools >= q2.tools
          /\ Len(p.events) + q2.tools = Len(q2.events) + p.tools + Closing(p)
      BY DEF Onward
    <2> QED
      <3> DEFINE l == Len(q.events)  l2 == Len(q2.events)  l3 == Len(p.events)
                 t == q.tools  t2 == q2.tools  t3 == p.tools  c == Closing(p)
      <3>1. /\ l \in Nat /\ l2 \in Nat /\ l3 \in Nat /\ t \in Nat /\ t2 \in Nat /\ t3 \in Nat
            /\ c \in Nat
        BY <1>1
      <3>2. /\ l2 >= l /\ t2 >= t /\ l2 + t = l + t2 + 0
            /\ l3 >= l2 /\ t3 >= t2 /\ l3 + t2 = l2 + t3 + c
        BY <2>1, <2>2
      <3> HIDE DEF l, l2, l3, t, t2, t3, c
      <3>3. l3 >= l /\ t3 >= t /\ l3 + t = l + t3 + c
        BY <3>1, <3>2
      <3> QED
        BY <3>3 DEF l, l3, t, t3, c
  <1>4. /\ p.at = q.at /\ p.saving = q.saving /\ EventsOK(p)
        /\ p.node = "END" => p.call = "ready"
    BY DEF Onward
  <1> QED
    BY ONLY <1>2, <1>3, <1>4 DEF Onward

\* The graph ends with one more event.
LEMMA EndOnward ==
    ASSUME NEW q \in Request, q.node # "END", EventsOK(q), NEW event \in Lasting,
           NEW p \in Request, p.at = q.at, p.saving = q.saving, p.tools = q.tools,
           p.node = "END", p.call = "ready", p.events = Append(q.events, event)
    PROVE  Onward(q, p)
  <1>1. q.events \in Seq(Events) /\ event \in Events /\ q.tools \in Nat
    BY Members DEF Request, Lasting
  <1>2. /\ Len(p.events) = Len(q.events) + 1
        /\ \A k \in 1..Len(q.events) : p.events[k] = q.events[k]
        /\ p.events[Len(q.events) + 1] = event
    BY <1>1, AppendProperties
  <1>3. Len(q.events) \in Nat
    BY <1>1
  <1>4. EventsOK(p)
    <2>1. Closing(p) <= Len(p.events)
      BY <1>2, <1>3 DEF Closing
    <2>2. ASSUME NEW k \in 1..Len(p.events)
          PROVE  p.events[k] \in Lasting <=> k = Len(p.events) /\ p.node = "END"
      <3>1. CASE k \in 1..Len(q.events)
        BY <1>2, <1>3, <3>1 DEF EventsOK
      <3>2. CASE k = Len(q.events) + 1
        BY <1>2, <1>3, <3>2
      <3> QED
        BY <1>2, <1>3, <3>1, <3>2
    <2> QED
      BY <2>1, <2>2 DEF EventsOK
  <1>5. /\ Len(p.events) >= Len(q.events) /\ p.tools >= q.tools
        /\ Len(p.events) + q.tools = Len(q.events) + p.tools + Closing(p)
    BY <1>1, <1>2, <1>3 DEF Closing
  <1> QED
    BY <1>2, <1>4, <1>5 DEF Onward

LEMMA RaisedOnward ==
    ASSUME NEW q \in Request, q.node # "END", EventsOK(q)
    PROVE  Raised(q) \in Request /\ Onward(q, Raised(q))
  <1>1. Append(q.events, "error") \in Seq(Events)
    <2>1. q.events \in Seq(Events) /\ "error" \in Events
      BY Members DEF Request
    <2> QED
      BY <2>1, AppendProperties
  <1>2. Raised(q) \in Request
    BY <1>1, Members DEF Raised, Put, Request
  <1>3. /\ Raised(q).events = Append(q.events, "error")
        /\ Raised(q).node = "END" /\ Raised(q).call = "ready"
        /\ Raised(q).at = q.at /\ Raised(q).saving = q.saving /\ Raised(q).tools = q.tools
    BY <1>1 DEF Raised, Put, Request
  <1>4. "error" \in Lasting
    BY DEF Lasting
  <1> QED
    BY <1>2, <1>3, <1>4, EndOnward

\* A step within the graph adds nothing.
LEMMA SameOnward ==
    ASSUME NEW q \in Request, q.node # "END", EventsOK(q), NEW p \in Request,
           p.at = q.at, p.saving = q.saving, p.tools = q.tools, p.events = q.events,
           p.node # "END"
    PROVE  Onward(q, p)
  <1>1. Closing(p) = 0 /\ Closing(q) = 0 /\ Len(q.events) \in Nat /\ q.tools \in Nat
    BY DEF Closing, Request
  <1>2. EventsOK(p)
    BY <1>1 DEF EventsOK
  <1> QED
    BY <1>1, <1>2 DEF Onward

LEMMA GotoOnward ==
    ASSUME NEW q \in Request, q.node # "END", EventsOK(q),
           NEW node \in Nodes \cup {"FINISH"}, node # "END"
    PROVE  Goto(q, node) \in Request /\ Onward(q, Goto(q, node))
  <1>1. CASE node = "FINISH"
    <2>1. Append(q.events, "answer") \in Seq(Events)
      <3>1. q.events \in Seq(Events) /\ "answer" \in Events
        BY Members DEF Request
      <3> QED
        BY <3>1, AppendProperties
    <2>2. Goto(q, node) \in Request
      BY <1>1, <2>1, Members DEF Goto, Put, Request
    <2>3. /\ Goto(q, node).events = Append(q.events, "answer")
          /\ Goto(q, node).node = "END" /\ Goto(q, node).call = "ready"
          /\ Goto(q, node).at = q.at
          /\ Goto(q, node).saving = q.saving /\ Goto(q, node).tools = q.tools
      BY <1>1, <2>1 DEF Goto, Put, Request
    <2>4. "answer" \in Lasting
      BY DEF Lasting
    <2> QED
      BY <2>2, <2>3, <2>4, EndOnward
  <1>2. CASE node # "FINISH" /\ q.steps = MaxSteps
    BY <1>2, RaisedOnward DEF Goto
  <1>3. CASE node # "FINISH" /\ q.steps # MaxSteps
    <2> DEFINE next == [q EXCEPT !.node = node, !.call = "ready", !.rounds = 0,
                                 !.steps = q.steps + 1]
    <2>1. node \in Nodes /\ q.steps + 1 \in Nat
      BY <1>3 DEF Request
    <2>2. /\ next \in Request
          /\ next.node = node /\ next.at = q.at
          /\ next.saving = q.saving /\ next.events = q.events /\ next.tools = q.tools
      BY <2>1, Members DEF Request
    <2>3. Onward(q, next)
      BY <2>2, SameOnward
    <2>4. Goto(q, node) = next
      BY <1>3 DEF Goto
    <2> QED
      BY <2>2, <2>3, <2>4
  <1> QED
    BY <1>1, <1>2, <1>3

\* The graph goes on from a request in which only the review was brought up to date.
LEMMA ThenGoto ==
    ASSUME NEW q \in Request, q.node # "END", EventsOK(q),
           NEW p \in Request, p.at = q.at, p.saving = q.saving, p.tools = q.tools,
           p.events = q.events, p.node = q.node,
           NEW node \in Nodes \cup {"FINISH"}, node # "END"
    PROVE  Goto(p, node) \in Request /\ Onward(q, Goto(p, node))
  <1>1. EventsOK(p)
    BY DEF EventsOK, Closing
  <1>2. Goto(p, node) \in Request /\ Onward(p, Goto(p, node))
    BY <1>1, GotoOnward
  <1> QED
    BY <1>2, OnwardFrom

LEMMA DraftOnward ==
    ASSUME NEW q \in Request, EventsOK(q), q.node \in Agents
    PROVE  Draft(q) \in Request /\ Onward(q, Draft(q))
  <1> DEFINE p == [q EXCEPT !.last = q.node]
  <1>1. /\ p \in Request
        /\ p.at = q.at /\ p.saving = q.saving /\ p.tools = q.tools
        /\ p.events = q.events /\ p.node = q.node
    BY Members DEF Request
  <1>2. /\ Target(q.node) \in Nodes \cup {"FINISH"} /\ Target(q.node) # "END"
        /\ q.node # "END"
    BY DEF Target, Nodes, Agents, Reviewed
  <1>3. Goto(p, Target(q.node)) \in Request /\ Onward(q, Goto(p, Target(q.node)))
    BY <1>1, <1>2, ThenGoto
  <1> QED
    BY <1>3 DEF Draft

LEMMA VerdictOnward ==
    ASSUME NEW q \in Request, EventsOK(q), RequestOK(q), q.node = "reviewer",
           NEW passed \in BOOLEAN
    PROVE  Verdict(q, passed) \in Request /\ Onward(q, Verdict(q, passed))
  <1>1. /\ q.last \in Nodes \cup {"FINISH"} /\ q.last # "END"
        /\ q.retry + 1 \in Nat /\ q.refused + 1 \in Nat
    <2>1. q.last \in Reviewed
      BY DEF RequestOK, Reviewing
    <2> QED
      BY <2>1 DEF Reviewed, Nodes, Agents, Request
  <1>2. /\ "supervisor" \in Nodes \cup {"FINISH"}
        /\ "passed" \in Lasts /\ "given up" \in Lasts
    BY Members
  <1>3. CASE passed
    <2> DEFINE p == [q EXCEPT !.retry = 0, !.last = "passed"]
    <2>1. /\ p \in Request
          /\ p.at = q.at /\ p.saving = q.saving /\ p.tools = q.tools
          /\ p.events = q.events /\ p.node = q.node
      BY <1>2 DEF Request
    <2>2. Goto(p, "supervisor") \in Request /\ Onward(q, Goto(p, "supervisor"))
      BY <1>2, <2>1, ThenGoto
    <2> QED
      BY <1>3, <2>2 DEF Verdict
  <1>4. CASE ~passed /\ q.retry + 1 > MaxRetries
    <2> DEFINE p == [q EXCEPT !.retry = 0, !.refused = q.refused + 1, !.last = "given up"]
    <2>1. /\ p \in Request
          /\ p.at = q.at /\ p.saving = q.saving /\ p.tools = q.tools
          /\ p.events = q.events /\ p.node = q.node
      BY <1>1, <1>2 DEF Request
    <2>2. Goto(p, "supervisor") \in Request /\ Onward(q, Goto(p, "supervisor"))
      BY <1>2, <2>1, ThenGoto
    <2> QED
      BY <1>4, <2>2 DEF Verdict, Refused
  <1>5. CASE ~passed /\ ~(q.retry + 1 > MaxRetries)
    <2> DEFINE p == [q EXCEPT !.retry = q.retry + 1, !.refused = q.refused + 1]
    <2>1. /\ p \in Request
          /\ p.at = q.at /\ p.saving = q.saving /\ p.tools = q.tools
          /\ p.events = q.events /\ p.node = q.node
      BY <1>1 DEF Request
    <2>2. Goto(p, q.last) \in Request /\ Onward(q, Goto(p, q.last))
      BY <1>1, <2>1, ThenGoto
    <2> QED
      BY <1>5, <2>2 DEF Verdict, Refused
  <1> QED
    BY <1>3, <1>4, <1>5

\* A step of the graph is one of a request that streams, and it moves onward.
LEMMA GraphOnward ==
    ASSUME ReviewInv, NEW r \in Requests, Moves(req[r]), GraphStep(r)
    PROVE  /\ req[r].at = "streaming" /\ req[r].node # "END"
           /\ UNCHANGED <<log, chat>>
           /\ \E p \in Request : Set(r, p) /\ Onward(req[r], p)
  <1> DEFINE q == req[r]
  <1>1. q \in Request /\ RequestOK(q)
    BY DEF ReviewInv
  <1>2. /\ q.node # "END"
        /\ UNCHANGED <<log, chat>>
    <2>1. CASE Candidates(r) \/ Answered(r)
      BY <2>1 DEF Candidates, Answered, Uses
    <2>2. CASE Asked(r) \/ ModelFails(r)
      BY <2>2 DEF Asked, ModelFails, Moves
    <2>3. CASE Supervise(r) \/ Review(r)
      BY <2>3 DEF Supervise, Review
    <2>4. CASE Answers(r) \/ CallsTools(r)
      BY <2>4 DEF Answers, CallsTools, Agents, Reviewed
    <2> QED
      BY <2>1, <2>2, <2>3, <2>4 DEF GraphStep
  <1>3. q.at = "streaming" /\ EventsOK(q)
    BY <1>2 DEF Moves
  <1>4. ASSUME NEW call \in Calls
        PROVE  [q EXCEPT !.call = call] \in Request /\ Onward(q, [q EXCEPT !.call = call])
    <2> DEFINE p == [q EXCEPT !.call = call]
    <2>1. /\ p \in Request /\ p.at = q.at /\ p.saving = q.saving /\ p.tools = q.tools
          /\ p.events = q.events /\ p.node = q.node
      BY <1>1 DEF Request
    <2> QED
      BY <1>1, <1>2, <1>3, <2>1, SameOnward
  <1>5. Raised(q) \in Request /\ Onward(q, Raised(q))
    BY <1>1, <1>2, <1>3, RaisedOnward
  <1>6. CASE Candidates(r) \/ Answered(r)
    <2>1. PICK call \in Calls : Set(r, [q EXCEPT !.call = call]) \/ Set(r, Raised(q))
      BY <1>6, Members DEF Candidates, Answered, Uses
    <2>2. CASE Set(r, [q EXCEPT !.call = call])
      BY <1>2, <1>3, <1>4, <2>2
    <2>3. CASE Set(r, Raised(q))
      BY <1>2, <1>3, <1>5, <2>3
    <2> QED
      BY <2>1, <2>2, <2>3
  <1>7. CASE Asked(r)
    BY <1>2, <1>3, <1>4, <1>7, Members DEF Asked
  <1>8. CASE ModelFails(r)
    BY <1>2, <1>3, <1>5, <1>8 DEF ModelFails
  <1>9. CASE Supervise(r)
    <2>1. PICK next \in Agents \cup {"FINISH"} :
              Set(r, Goto([q EXCEPT !.last = "supervisor",
                                    !.refused = IF next = "FINISH" THEN @ ELSE 0], next))
      BY <1>9 DEF Supervise
    <2> DEFINE p == [q EXCEPT !.last = "supervisor",
                              !.refused = IF next = "FINISH" THEN q.refused ELSE 0]
    <2>2. /\ p \in Request /\ p.at = q.at /\ p.saving = q.saving /\ p.tools = q.tools
          /\ p.events = q.events /\ p.node = q.node
      BY <1>1, Members DEF Request
    <2>3. next \in Nodes \cup {"FINISH"} /\ next # "END"
      BY DEF Nodes, Agents, Reviewed
    <2>4. Goto(p, next) \in Request /\ Onward(q, Goto(p, next))
      BY <1>1, <1>2, <1>3, <2>2, <2>3, ThenGoto
    <2> QED
      BY <1>2, <1>3, <2>1, <2>4
  <1>10. CASE Answers(r)
    <2>1. Draft(q) \in Request /\ Onward(q, Draft(q))
      BY <1>1, <1>3, <1>10, DraftOnward DEF Answers
    <2> QED
      BY <1>2, <1>3, <1>10, <2>1 DEF Answers
  <1>11. CASE Review(r)
    <2>1. PICK passed \in BOOLEAN : Set(r, Verdict(q, passed))
      BY <1>11 DEF Review
    <2>2. Verdict(q, passed) \in Request /\ Onward(q, Verdict(q, passed))
      BY <1>1, <1>3, <1>11, VerdictOnward DEF Review
    <2> QED
      BY <1>2, <1>3, <2>1, <2>2
  <1>12. CASE CallsTools(r)
    <2>1. PICK n \in 0..(MaxTools - q.tools) : \E ran \in [1..n -> ToolEvents(q.node)] :
              LET then == [q EXCEPT !.events = @ \o ran, !.tools = @ + n,
                                    !.rounds = IF @ < MaxRounds THEN @ + 1 ELSE @,
                                    !.call = "ready"]
              IN  Set(r, IF NoMoreRounds(then) THEN Draft(then) ELSE then)
      BY <1>12 DEF CallsTools
    <2>2. PICK ran \in [1..n -> ToolEvents(q.node)] :
              LET then == [q EXCEPT !.events = @ \o ran, !.tools = @ + n,
                                    !.rounds = IF @ < MaxRounds THEN @ + 1 ELSE @,
                                    !.call = "ready"]
              IN  Set(r, IF NoMoreRounds(then) THEN Draft(then) ELSE then)
      BY <2>1
    <2> DEFINE rounds == IF q.rounds < MaxRounds THEN q.rounds + 1 ELSE q.rounds
               then == [q EXCEPT !.events = q.events \o ran, !.tools = q.tools + n,
                                 !.rounds = rounds, !.call = "ready"]
    <2>3. n \in Nat /\ q.tools \in Nat /\ q.tools + n \in Nat /\ rounds \in Nat
      BY <1>1, ChatAssumption DEF Request
    <2>4. Set(r, IF NoMoreRounds(then) THEN Draft(then) ELSE then)
      BY <2>2
    <2>5. /\ ran \in Seq(Events) /\ Len(ran) = n
          /\ \A k \in 1..n : ran[k] \in Events \ Lasting
      <3>1. ran \in Seq(ToolEvents(q.node)) /\ Len(ran) = n
        BY <2>3
      <3>2. ToolEvents(q.node) \subseteq Events \ Lasting
        BY DEF ToolEvents, Events, Lasting
      <3> QED
        BY <3>1, <3>2
    <2>6. /\ q.events \in Seq(Events) /\ q.events \o ran \in Seq(Events)
          /\ Len(q.events \o ran) = Len(q.events) + n
          /\ \A k \in 1..(Len(q.events) + n) : (q.events \o ran)[k] =
                 IF k <= Len(q.events) THEN q.events[k] ELSE ran[k - Len(q.events)]
      <3>1. q.events \in Seq(Events)
        BY <1>1 DEF Request
      <3> QED
        BY <2>5, <3>1, ConcatProperties
    <2>7. /\ then \in Request
          /\ then.at = q.at /\ then.node = q.node /\ then.tools = q.tools + n
          /\ then.saving = q.saving /\ then.events = q.events \o ran
      <3> HIDE DEF rounds
      <3> QED
        BY <1>1, <2>3, <2>6, Members DEF Request
    <2>8. EventsOK(then)
      <3>1. ASSUME NEW k \in 1..Len(then.events)
            PROVE  then.events[k] \notin Lasting
        <4>1. Len(q.events) \in Nat
          BY <2>6
        <4>2. CASE k <= Len(q.events)
          <5>1. k \in 1..Len(q.events) /\ then.events[k] = q.events[k]
            BY <2>3, <2>6, <2>7, <4>1, <4>2
          <5> QED
            BY <1>2, <1>3, <5>1 DEF EventsOK
        <4>3. CASE k > Len(q.events)
          <5>1. /\ k - Len(q.events) \in 1..n
                /\ then.events[k] = ran[k - Len(q.events)]
            <6>1. k \in 1..(Len(q.events) + n)
              BY <2>6, <2>7
            <6>2. k - Len(q.events) \in 1..n
              BY <2>3, <4>1, <4>3, <6>1
            <6> QED
              BY <2>6, <2>7, <4>1, <4>3, <6>1, <6>2
          <5> QED
            BY <2>5, <5>1
        <4> QED
          BY <4>1, <4>2, <4>3
      <3>2. Closing(then) <= Len(then.events)
        BY <1>2, <2>3, <2>6, <2>7 DEF Closing
      <3> QED
        BY <1>2, <2>7, <3>1, <3>2 DEF EventsOK
    <2>9. Onward(q, then)
      <3> HIDE DEF then, q
      <3>1. Len(q.events) \in Nat /\ Len(then.events) = Len(q.events) + n
        BY <2>6, <2>7
      <3>2. Closing(then) = 0
        BY <1>2, <2>7 DEF Closing
      <3>3. \A k \in 1..Len(q.events) : then.events[k] = q.events[k]
        BY <2>3, <2>6, <2>7, <3>1
      <3>4. /\ Len(then.events) + q.tools = Len(q.events) + then.tools + Closing(then)
            /\ Len(then.events) >= Len(q.events) /\ then.tools >= q.tools
        BY <2>3, <2>7, <3>1, <3>2
      <3> QED
        BY <1>2, <2>7, <2>8, <3>3, <3>4 DEF Onward
    <2>10. CASE NoMoreRounds(then)
      <3>1. then.node \in Agents
        BY <1>12, <2>7 DEF CallsTools
      <3>2. Draft(then) \in Request /\ Onward(then, Draft(then))
        BY <2>7, <2>8, <3>1, DraftOnward
      <3>3. Onward(q, Draft(then))
        <4> HIDE DEF then
        <4> QED
          BY <1>1, <1>2, <2>7, <2>9, <3>2, OnwardTrans
      <3> QED
        BY <1>2, <1>3, <2>4, <2>10, <3>2, <3>3
    <2>11. CASE ~NoMoreRounds(then)
      BY <1>2, <1>3, <2>4, <2>7, <2>9, <2>11
    <2> QED
      BY <2>10, <2>11
  <1> QED
    BY <1>6, <1>7, <1>8, <1>9, <1>10, <1>11, <1>12 DEF GraphStep

\* Moving onward keeps the account of what is on record.
LEMMA OnwardOK ==
    ASSUME NEW q \in Request, RequestOK(q), Moves(q), q.at = "streaming", q.node # "END",
           NEW p \in Request, Onward(q, p)
    PROVE  /\ Moves(p)
           /\ \A rows \in Seq(Roles) : Recorded(q, rows) => Recorded(p, rows)
  <1>1. /\ q.events \in Seq(Events) /\ p.events \in Seq(Events)
        /\ q.tools \in Nat /\ p.tools \in Nat
        /\ Len(q.events) \in Nat /\ Len(p.events) \in Nat
        /\ Closing(q) = 0 /\ Closing(p) \in Nat
    BY DEF Request, Closing
  <1>2. /\ p.at = "streaming" /\ p.saving = q.saving /\ EventsOK(p)
        /\ p.node = "END" => p.call = "ready"
    BY DEF Onward
  <1>3. p.saving => Head(p.events) # "error"
    <2> SUFFICES ASSUME p.saving
                 PROVE  Head(p.events) # "error"
      OBVIOUS
    <2>1. q.events # <<>> /\ Head(q.events) # "error"
      BY <1>2 DEF RequestOK, Saves, Moves
    <2>2. 1 \in 1..Len(q.events) /\ Head(q.events) = q.events[1]
      BY <1>1, <2>1
    <2>3. p.events[1] = q.events[1] /\ Len(p.events) >= 1
      BY <1>1, <2>2 DEF Onward
    <2> QED
      BY <1>1, <2>1, <2>2, <2>3
  <1>4. ASSUME NEW rows \in Seq(Roles), Recorded(q, rows)
        PROVE  Recorded(p, rows)
    <2>1. /\ Len(rows) \in Nat /\ Len(rows) >= 1
          /\ Len(rows) + Len(q.events) = q.tools + 1
          /\ \A k \in 1..Len(rows) : rows[k] = RoleAt(k, q.tools)
      BY <1>1, <1>4 DEF Recorded, Beginning
    <2>2. p.tools >= q.tools /\ Len(p.events) + q.tools = Len(q.events) + p.tools + Closing(p)
      BY DEF Onward
    <2>3. Len(rows) <= q.tools + 1
      BY <1>1, <2>1
    <2>4. Beginning(rows, p.tools)
      <3>1. Len(rows) <= p.tools + 2
        BY <1>1, <2>1, <2>2, <2>3
      <3>2. ASSUME NEW k \in 1..Len(rows)
            PROVE  rows[k] = RoleAt(k, p.tools)
        <4>1. k <= q.tools + 1 /\ k <= p.tools + 1
          BY <1>1, <2>1, <2>2, <2>3
        <4> QED
          BY <2>1, <4>1 DEF RoleAt
      <3> QED
        BY <3>1, <3>2 DEF Beginning
    <2>5. Len(rows) + Len(p.events) = Closing(p) + p.tools + 1
      <3> DEFINE l == Len(rows)  e == Len(q.events)  e2 == Len(p.events)
                 t == q.tools  t2 == p.tools  c == Closing(p)
      <3>1. l \in Nat /\ e \in Nat /\ e2 \in Nat /\ t \in Nat /\ t2 \in Nat /\ c \in Nat
        BY <1>1, <2>1
      <3>2. l + e = t + 1 /\ e2 + t = e + t2 + c
        BY <2>1, <2>2
      <3> HIDE DEF l, e, e2, t, t2, c
      <3>3. l + e2 = c + t2 + 1
        BY <3>1, <3>2
      <3> QED
        BY <3>3 DEF l, e2, c, t2
    <2> QED
      BY <1>2, <2>1, <2>4, <2>5 DEF Recorded
  <1> QED
    BY <1>2, <1>3, <1>4 DEF Moves

\* The row of an event continues what is on record.
LEMMA RowFits ==
    ASSUME NEW q \in Request, EventsOK(q), q.at = "streaming", q.events # <<>>,
           Head(q.events) # "error", NEW rows \in Seq(Roles), Recorded(q, rows),
           NEW more, more = rows \o RowsOf(Head(q.events))
    PROVE  /\ more \in Seq(Roles) /\ Len(more) = Len(rows) + 1
           /\ Beginning(more, q.tools)
           /\ Head(q.events) = "answer" => Len(more) = q.tools + 2
  <1> DEFINE event == Head(q.events)  row == IF event = "answer" THEN "assistant" ELSE "tool"
  <1>1. /\ q.events \in Seq(Events) /\ q.tools \in Nat
        /\ Len(q.events) \in Nat /\ Len(q.events) >= 1 /\ event = q.events[1]
        /\ Len(rows) \in Nat /\ Closing(q) \in {0, 1}
    BY DEF Request, Closing
  <1>2. /\ RowsOf(event) = <<row>> /\ row \in Roles
    BY DEF RowsOf, Roles
  <1>3. /\ more \in Seq(Roles) /\ Len(more) = Len(rows) + 1
        /\ \A k \in 1..Len(rows) : more[k] = rows[k]
        /\ more[Len(rows) + 1] = row
    <2>1. more = rows \o <<row>>
      BY <1>2
    <2> HIDE DEF row, event
    <2>2. more = Append(rows, row)
      BY <1>2, <2>1, AppendIsConcat
    <2>3. /\ Append(rows, row) \in Seq(Roles) /\ Len(Append(rows, row)) = Len(rows) + 1
          /\ \A k \in 1..Len(rows) : Append(rows, row)[k] = rows[k]
          /\ Append(rows, row)[Len(rows) + 1] = row
      BY <1>2, AppendProperties
    <2> QED
      BY ONLY <2>2, <2>3
  <1>4. /\ Len(rows) >= 1 /\ Len(rows) + Len(q.events) = Closing(q) + q.tools + 1
        /\ \A k \in 1..Len(rows) : rows[k] = RoleAt(k, q.tools)
    BY DEF Recorded, Beginning
  <1>5. event \in Lasting <=> 1 = Len(q.events) /\ q.node = "END"
    <2>1. 1 \in 1..Len(q.events)
      BY <1>1
    <2>2. q.events[1] \in Lasting <=> 1 = Len(q.events) /\ q.node = "END"
      BY <2>1 DEF EventsOK
    <2> QED
      BY <1>1, <2>2
  <1>8. \A l, e, t, c \in Nat : l + e = c + t + 1 =>
            /\ e = 1 /\ c = 1 => l = t + 1
            /\ e >= 1 /\ c = 0 => l <= t
            /\ e >= 1 /\ e # 1 /\ c = 1 => l <= t
    OBVIOUS
  <1>9. ASSUME Len(rows) + 1 <= q.tools + 2, row = RoleAt(Len(rows) + 1, q.tools)
        PROVE  Beginning(more, q.tools)
    <2> HIDE DEF row, event
    <2>1. Len(more) <= q.tools + 2
      BY <1>3, <1>9
    <2>2. ASSUME NEW k \in 1..Len(more)
          PROVE  more[k] = RoleAt(k, q.tools)
      <3>1. CASE k = Len(rows) + 1
        BY <1>3, <1>9, <3>1
      <3>2. CASE k \in 1..Len(rows)
        BY <1>3, <1>4, <3>2
      <3>3. k = Len(rows) + 1 \/ k \in 1..Len(rows)
        BY <1>1, <1>3
      <3> QED
        BY <3>1, <3>2, <3>3
    <2> QED
      BY <1>3, <2>1, <2>2 DEF Beginning
  <1>6. CASE event = "answer"
    <2>1. Len(q.events) = 1 /\ Closing(q) = 1 /\ Len(rows) = q.tools + 1
      <3>1. Len(q.events) = 1 /\ Closing(q) = 1
        BY <1>5, <1>6 DEF Closing, Lasting
      <3> QED
        BY <1>1, <1>4, <1>8, <3>1
    <2>2. row = RoleAt(Len(rows) + 1, q.tools)
      BY <1>1, <1>6, <2>1 DEF RoleAt
    <2> HIDE DEF row, event
    <2>3. Beginning(more, q.tools)
      BY <1>1, <1>9, <2>1, <2>2
    <2> QED
      BY <1>1, <1>3, <2>1, <2>3
  <1>7. CASE event # "answer"
    <2>1. event \notin Lasting
      BY <1>7 DEF Lasting
    <2>2. Len(rows) <= q.tools
      <3>1. CASE q.node = "END"
        <4>1. Len(q.events) # 1 /\ Closing(q) = 1
          BY <1>5, <2>1, <3>1 DEF Closing
        <4> QED
          BY <1>1, <1>4, <1>8, <4>1
      <3>2. CASE q.node # "END"
        <4>1. Closing(q) = 0
          BY <3>2 DEF Closing
        <4> QED
          BY <1>1, <1>4, <1>8, <4>1
      <3> QED
        BY <3>1, <3>2
    <2>3. row = RoleAt(Len(rows) + 1, q.tools)
      BY <1>1, <1>4, <1>7, <2>2 DEF RoleAt
    <2> HIDE DEF row, event
    <2>4. Beginning(more, q.tools)
      <3>1. Len(rows) + 1 <= q.tools + 2
        BY <1>1, <2>2
      <3> QED
        BY <1>9, <2>3, <3>1
    <2> QED
      BY <1>3, <1>7, <2>4 DEF event
  <1> QED
    BY <1>6, <1>7

\* Taking an event that is not the last leaves the others in order.
LEMMA EventTaken ==
    ASSUME NEW q \in Request, EventsOK(q), q.events # <<>>, Head(q.events) \notin Lasting,
           NEW p \in Request, p.node = q.node, p.events = Tail(q.events)
    PROVE  EventsOK(p) /\ Len(p.events) + 1 = Len(q.events)
  <1>1. /\ q.events \in Seq(Events) /\ Len(q.events) \in Nat /\ Len(q.events) >= 1
        /\ Head(q.events) = q.events[1]
        /\ Len(p.events) = Len(q.events) - 1
        /\ \A k \in 1..Len(p.events) : p.events[k] = q.events[k + 1]
    BY DEF Request
  <1>2. q.node = "END" => Len(q.events) # 1
    BY <1>1 DEF EventsOK
  <1>3. Closing(p) <= Len(p.events)
    <2>1. \A l \in Nat : l >= 1 /\ l # 1 => 1 <= l - 1
      OBVIOUS
    <2>2. \A l \in Nat : l >= 1 => 0 <= l - 1
      OBVIOUS
    <2>3. CASE q.node = "END"
      BY <1>1, <1>2, <2>1, <2>3 DEF Closing
    <2>4. CASE q.node # "END"
      BY <1>1, <2>2, <2>4 DEF Closing
    <2> QED
      BY <2>3, <2>4
  <1>4. ASSUME NEW k \in 1..Len(p.events)
        PROVE  p.events[k] \in Lasting <=> k = Len(p.events) /\ p.node = "END"
    <2>1. k + 1 \in 1..Len(q.events) /\ p.events[k] = q.events[k + 1]
      BY <1>1
    <2>2. q.events[k + 1] \in Lasting <=> k + 1 = Len(q.events) /\ q.node = "END"
      BY <2>1 DEF EventsOK
    <2> QED
      BY <1>1, <2>1, <2>2
  <1> QED
    BY <1>1, <1>3, <1>4 DEF EventsOK

\* Only the request that takes a step changes, and its rows.
LEMMA RecordSet ==
    ASSUME ReviewInv, RecordInv, NEW r \in Requests, NEW p \in Request, Moves(p), Set(r, p),
           NEW rows \in Seq(Roles), log' = [log EXCEPT ![r] = rows], chat' = chat,
           chat = "none" => p.at = "idle",
           chat = "open" => Recorded(p, rows), chat # "open" => rows = <<>>
    PROVE  RecordInv'
  <1>1. /\ req' \in [Requests -> Request] /\ req'[r] = p
        /\ \A s \in Requests \ {r} : req'[s] = req[s]
    BY DEF ReviewInv, Set
  <1>2. /\ log' \in [Requests -> Seq(Roles)] /\ log'[r] = rows
        /\ \A s \in Requests \ {r} : log'[s] = log[s]
    BY DEF RecordInv
  <1>3. ASSUME NEW s \in Requests
        PROVE  /\ Moves(req'[s])
               /\ chat = "none" => req'[s].at = "idle"
               /\ chat = "open" => Recorded(req'[s], log'[s])
               /\ chat # "open" => log'[s] = <<>>
    <2>1. CASE s = r
      BY <1>1, <1>2, <2>1
    <2>2. CASE s # r
      BY <1>1, <1>2, <2>2 DEF RecordInv
    <2> QED
      BY <2>1, <2>2
  <1> QED
    BY <1>2, <1>3 DEF RecordInv

LEMMA SameRecord ==
    ASSUME ReviewInv, RecordInv, NEW r \in Requests, NEW p \in Request, Moves(p), Set(r, p),
           log' = log, chat' = chat, chat = "none" => p.at = "idle",
           chat = "open" => Recorded(p, log[r])
    PROVE  RecordInv'
  <1>1. log[r] \in Seq(Roles) /\ log' = [log EXCEPT ![r] = log[r]]
    BY DEF RecordInv
  <1>2. chat # "open" => log[r] = <<>>
    BY DEF RecordInv
  <1> QED
    BY <1>1, <1>2, RecordSet

\* A stream that is over leaves on record what it had recorded.
LEMMA OverMoves ==
    ASSUME NEW q \in Request, NEW how \in {"answered", "error", "left"}
    PROVE  /\ Over(q, how) \in Request /\ Moves(Over(q, how))
           /\ Over(q, how).tools = q.tools /\ Over(q, how).at = how
  <1>1. Over(q, how) \in Request
    BY OverOK
  <1>2. /\ Over(q, how).node = "END" /\ Over(q, how).at = how /\ Over(q, how).saving = FALSE
        /\ Over(q, how).events = <<>> /\ Over(q, how).tools = q.tools
        /\ Over(q, how).call = "ready"
    BY BlankOK DEF Over, Request, Blank
  <1> QED
    BY <1>1, <1>2 DEF Moves

\* The stream ends, perhaps with one more row.
LEMMA OverRecords ==
    ASSUME ReviewInv, RecordInv, NEW r \in Requests, req[r].at # "idle",
           NEW how \in {"answered", "error", "left"}, Set(r, Over(req[r], how)),
           chat' = chat,
           NEW rows \in Seq(Roles), log' = [log EXCEPT ![r] = rows],
           chat = "open" => Beginning(rows, req[r].tools),
           chat # "open" => rows = <<>>,
           how = "answered" => Len(rows) = req[r].tools + 2
    PROVE  RecordInv'
  <1>1. req[r] \in Request
    BY DEF ReviewInv
  <1> DEFINE p == Over(req[r], how)
  <1>2. p \in Request /\ Moves(p) /\ p.tools = req[r].tools /\ p.at = how
    BY <1>1, OverMoves
  <1>3. chat # "none"
    BY DEF RecordInv
  <1>4. chat = "open" => Recorded(p, rows)
    BY <1>2 DEF Recorded
  <1> QED
    BY <1>2, <1>3, <1>4, RecordSet

LEMMA StopRecords ==
    ASSUME ReviewInv, RecordInv, NEW r \in Requests, req[r].at # "idle",
           NEW how \in {"error", "left"}, Set(r, Over(req[r], how)), chat' = chat, log' = log
    PROVE  RecordInv'
  <1>1. log[r] \in Seq(Roles) /\ log' = [log EXCEPT ![r] = log[r]]
    BY DEF RecordInv
  <1>2. /\ chat = "open" => Beginning(log[r], req[r].tools)
        /\ chat # "open" => log[r] = <<>>
    BY DEF RecordInv, Recorded
  <1> QED
    BY <1>1, <1>2, OverRecords

LEMMA StreamRecords ==
    ASSUME ReviewInv, RecordInv, NEW r \in Requests, Begin(r) \/ StreamStep(r) \/ Leave(r)
    PROVE  RecordInv'
  <1> DEFINE q == req[r]
  <1>1. q \in Request /\ RequestOK(q) /\ Moves(q)
    BY DEF ReviewInv, RecordInv
  <1>2. /\ log[r] \in Seq(Roles) /\ chat \in {"none", "open", "deleted"}
        /\ chat = "none" => q.at = "idle"
        /\ chat = "open" => Recorded(q, log[r])
        /\ chat # "open" => log[r] = <<>>
    BY DEF RecordInv
  <1>3. q.events \in Seq(Events) /\ q.tools \in Nat
    BY <1>1 DEF Request
  <1>4. CASE Begin(r)
    <2> DEFINE p == [q EXCEPT !.at = "history"]
    <2>1. /\ p \in Request /\ p.at = "history" /\ p.node = q.node /\ p.call = q.call
          /\ p.tools = q.tools /\ p.saving = q.saving /\ p.events = q.events
      BY <1>1, Members DEF Request
    <2>2. q.at = "idle" /\ chat = "open" /\ Set(r, p) /\ log' = log /\ chat' = chat
      BY <1>4 DEF Begin
    <2>3. Moves(p)
      BY <1>1, <2>1, <2>2 DEF Moves
    <2>4. Recorded(p, log[r])
      BY <1>2, <2>1, <2>2 DEF Recorded
    <2> QED
      BY <2>1, <2>2, <2>3, <2>4, SameRecord
  <1>5. CASE SaveUser(r) /\ chat = "deleted"
    BY <1>5, StopRecords DEF SaveUser
  <1>6. CASE SaveUser(r) /\ chat # "deleted"
    <2> DEFINE p == [q EXCEPT !.at = "streaming", !.node = "supervisor", !.steps = 1]
    <2>1. /\ p \in Request /\ p.at = "streaming" /\ p.node = "supervisor"
          /\ p.tools = q.tools /\ p.saving = q.saving /\ p.events = q.events
      BY <1>1, Members DEF Request
    <2>2. /\ q.at = "history" /\ Set(r, p) /\ chat' = chat
          /\ log' = [log EXCEPT ![r] = log[r] \o <<"user">>]
      BY <1>6 DEF SaveUser, Record
    <2>3. q.tools = 0 /\ q.events = <<>> /\ q.saving = FALSE
      BY <1>1, <2>2 DEF Moves, Request
    <2>4. EventsOK(p) /\ Closing(p) = 0 /\ Len(p.events) = 0
      BY <2>1, <2>3 DEF EventsOK, Closing
    <2>5. Moves(p)
      BY <2>1, <2>3, <2>4 DEF Moves
    <2>10. chat = "open"
      BY <1>2, <1>6, <2>2
    <2> DEFINE rows == log[r] \o <<"user">>
    <2>6. rows = <<"user">>
      <3>1. log[r] = <<>>
        BY <1>2, <2>2, <2>10 DEF Recorded
      <3> QED
        BY <3>1
    <2>7. rows \in Seq(Roles) /\ Len(rows) = 1 /\ rows[1] = "user"
      <3>1. /\ <<"user">> \in Seq({"user"}) /\ Len(<<"user">>) = 1
            /\ <<"user">>[1] = "user" /\ <<"user">> \in Seq(Roles)
        BY DEF Roles
      <3> HIDE DEF rows
      <3> QED
        BY <2>6, <3>1
    <2> HIDE DEF p, rows
    <2>8. Beginning(rows, p.tools)
      BY <2>1, <2>3, <2>7 DEF Beginning, RoleAt
    <2>9. Recorded(p, rows)
      BY <2>1, <2>3, <2>4, <2>7, <2>8 DEF Recorded
    <2>11. log' = [log EXCEPT ![r] = rows]
      BY <2>2 DEF rows
    <2> QED
      BY <2>1, <2>2, <2>5, <2>7, <2>9, <2>10, <2>11, RecordSet
  <1>7. CASE SaveBegins(r)
    <2>1. CASE Set(r, Over(q, "error"))
      <3>1. q.at # "idle" /\ log' = log /\ chat' = chat
        BY <1>1, <1>7 DEF SaveBegins, Moves
      <3> QED
        BY <2>1, <3>1, StopRecords
    <2>2. CASE Set(r, [q EXCEPT !.saving = TRUE])
      <3> DEFINE p == [q EXCEPT !.saving = TRUE]
      <3>1. /\ p \in Request /\ p.at = q.at /\ p.node = q.node /\ p.call = q.call
            /\ p.tools = q.tools /\ p.events = q.events
        BY <1>1 DEF Request
      <3>2. /\ q.at = "streaming" /\ Head(q.events) # "error"
            /\ log' = log /\ chat' = chat
        BY <1>1, <1>7 DEF SaveBegins, Moves
      <3>3. Closing(p) = Closing(q) /\ (EventsOK(q) => EventsOK(p))
        BY <3>1 DEF Closing, EventsOK
      <3>4. Moves(p)
        BY <1>1, <3>1, <3>2, <3>3 DEF Moves
      <3>5. chat = "open" => Recorded(p, log[r])
        BY <1>2, <3>1, <3>2, <3>3 DEF Recorded
      <3>6. chat # "none"
        BY <1>2, <3>2
      <3> QED
        BY <2>2, <3>1, <3>2, <3>4, <3>5, <3>6, SameRecord
    <2> QED
      BY <1>7, <2>1, <2>2 DEF SaveBegins
  <1>8. ASSUME q.saving
        PROVE  /\ q.at = "streaming" /\ EventsOK(q) /\ q.events # <<>>
               /\ Head(q.events) # "error" /\ chat # "none"
    BY <1>1, <1>2, <1>8 DEF RequestOK, Saves, Moves
  <1>9. CASE SaveEnds(r) /\ chat = "deleted"
    <2>1. q.at # "idle" /\ Set(r, Over(q, "error")) /\ log' = log /\ chat' = chat
      BY <1>8, <1>9 DEF SaveEnds
    <2> QED
      BY <2>1, StopRecords
  <1> DEFINE rows == log[r] \o RowsOf(Head(q.events))
  <1>10. ASSUME q.saving, chat = "open"
         PROVE  /\ rows \in Seq(Roles) /\ Len(rows) = Len(log[r]) + 1
                /\ Beginning(rows, q.tools)
                /\ Head(q.events) = "answer" => Len(rows) = q.tools + 2
    BY <1>1, <1>2, <1>8, <1>10, RowFits
  <1>11. CASE SaveEnds(r) /\ chat # "deleted"
    <2>1. /\ q.saving /\ chat = "open" /\ chat' = chat
          /\ log' = [log EXCEPT ![r] = rows]
      BY <1>2, <1>8, <1>11 DEF SaveEnds, Record
    <2>2. CASE Head(q.events) = "answer"
      <3>1. Set(r, Over(q, "answered"))
        BY <1>11, <2>2 DEF SaveEnds
      <3> HIDE DEF rows
      <3> QED
        BY <1>8, <1>10, <2>1, <2>2, <3>1, OverRecords
    <2>3. CASE Head(q.events) # "answer"
      <3> DEFINE p == [q EXCEPT !.saving = FALSE, !.events = Tail(q.events)]
      <3>1. Tail(q.events) \in Seq(Events)
        BY <1>3, <1>8, <2>1
      <3>2. /\ p \in Request /\ p.at = q.at /\ p.node = q.node /\ p.call = q.call
            /\ p.tools = q.tools /\ p.saving = FALSE /\ p.events = Tail(q.events)
        BY <1>1, <3>1 DEF Request
      <3>3. Set(r, p)
        BY <1>11, <2>3 DEF SaveEnds
      <3>4. EventsOK(p) /\ Len(p.events) + 1 = Len(q.events)
        BY <1>1, <1>8, <2>1, <2>3, <3>2, EventTaken DEF Lasting
      <3>5. Moves(p)
        BY <1>1, <1>8, <2>1, <3>2, <3>4 DEF Moves
      <3> HIDE DEF rows, p
      <3>6. Recorded(p, rows)
        <4>1. /\ Len(log[r]) \in Nat /\ Len(p.events) \in Nat /\ Closing(q) \in Nat
              /\ Closing(p) = Closing(q) /\ q.tools \in Nat
          BY <1>2, <1>3, <3>2 DEF Request, Closing
        <4>2. Len(log[r]) >= 1 /\ Len(log[r]) + Len(q.events) = Closing(q) + q.tools + 1
          BY <1>2, <1>8, <2>1 DEF Recorded
        <4>3. Len(rows) >= 1 /\ Len(rows) + Len(p.events) = Closing(p) + p.tools + 1
          <5>1. Len(rows) = Len(log[r]) + 1 /\ p.tools = q.tools
            BY <1>10, <2>1, <3>2
          <5> DEFINE l == Len(log[r])  e == Len(p.events)  c == Closing(p)  t == q.tools
                     e0 == Len(q.events)
          <5>2. l \in Nat /\ e \in Nat /\ c \in Nat /\ t \in Nat
            BY <4>1
          <5>3. l >= 1 /\ l + e0 = c + t + 1 /\ e + 1 = e0
            BY <3>4, <4>1, <4>2
          <5> HIDE DEF l, e, c, t, e0
          <5>4. l + 1 >= 1 /\ (l + 1) + e = c + t + 1
            BY <5>2, <5>3
          <5> QED
            BY <5>1, <5>4 DEF l, e, c, t
        <4> QED
          BY <1>8, <1>10, <2>1, <3>2, <4>3 DEF Recorded
      <3> QED
        BY <1>10, <2>1, <3>2, <3>3, <3>5, <3>6, RecordSet
    <2> QED
      BY <2>2, <2>3
  <1>12. CASE StreamFails(r)
    <2>1. q.at # "idle" /\ Set(r, Over(q, "error")) /\ log' = log /\ chat' = chat
      BY <1>1, <1>12 DEF StreamFails, Moves
    <2> QED
      BY <2>1, StopRecords
  <1>13. CASE Leave(r)
    <2>1. /\ q.at # "idle" /\ Set(r, Over(q, "left")) /\ chat' = chat
          /\ \/ log' = log
             \/ q.saving /\ chat = "open" /\ log' = [log EXCEPT ![r] = rows]
      BY <1>13 DEF Leave, Record
    <2>2. CASE log' = log
      BY <2>1, <2>2, StopRecords
    <2>3. CASE q.saving /\ chat = "open" /\ log' = [log EXCEPT ![r] = rows]
      <3> HIDE DEF rows
      <3> QED
        BY <1>10, <2>1, <2>3, OverRecords
    <2> QED
      BY <2>1, <2>2, <2>3
  <1> QED
    BY <1>4, <1>5, <1>6, <1>7, <1>9, <1>11, <1>12, <1>13 DEF StreamStep

\* The account of the record holds whatever the requests do.
THEOREM RecordInvCorrect == Spec => []RecordInv
  <1>1. Init => RecordInv
    <2> SUFFICES ASSUME Init
                 PROVE  RecordInv
      OBVIOUS
    <2>1. /\ log \in [Requests -> Seq(Roles)] /\ chat = "none"
          /\ \A r \in Requests : req[r] = Blank /\ log[r] = <<>>
      BY DEF Init
    <2>2. /\ Blank.at = "idle" /\ Blank.node = "END" /\ Blank.call = "ready"
          /\ Blank.events = <<>> /\ Blank.saving = FALSE /\ Blank.tools = 0
      BY DEF Blank
    <2>3. Moves(Blank)
      BY <2>2 DEF Moves
    <2> QED
      BY <2>1, <2>2, <2>3 DEF RecordInv
  <1>2. ReviewInv /\ RecordInv /\ [Next]_vars => RecordInv'
    <2> SUFFICES ASSUME ReviewInv, RecordInv, [Next]_vars
                 PROVE  RecordInv'
      OBVIOUS
    <2>1. ASSUME NEW r \in Requests, GraphStep(r)
          PROVE  RecordInv'
      <3>1. req[r] \in Request /\ RequestOK(req[r]) /\ Moves(req[r])
        BY DEF ReviewInv, RecordInv
      <3>2. /\ req[r].at = "streaming" /\ req[r].node # "END"
            /\ log' = log /\ chat' = chat
        BY <2>1, <3>1, GraphOnward
      <3>3. PICK p \in Request : Set(r, p) /\ Onward(req[r], p)
        BY <2>1, <3>1, GraphOnward
      <3>4. log[r] \in Seq(Roles) /\ (chat = "open" => Recorded(req[r], log[r])) /\ chat # "none"
        BY <3>2 DEF RecordInv
      <3>5. Moves(p) /\ (chat = "open" => Recorded(p, log[r]))
        BY <3>1, <3>2, <3>3, <3>4, OnwardOK
      <3> QED
        BY <3>2, <3>3, <3>4, <3>5, SameRecord
    <2>2. ASSUME NEW r \in Requests, Begin(r) \/ StreamStep(r) \/ Leave(r)
          PROVE  RecordInv'
      BY <2>2, StreamRecords
    <2>3. CASE Create
      <3>1. /\ chat = "none" /\ chat' = "open" /\ log' = log /\ req' = req
        BY <2>3 DEF Create
      <3>2. ASSUME NEW r \in Requests
            PROVE  Moves(req[r]) /\ req[r].at = "idle" /\ log[r] = <<>> /\ req[r].tools \in Nat
        BY <3>1 DEF RecordInv, ReviewInv, Request
      <3>3. ASSUME NEW r \in Requests
            PROVE  Recorded(req[r], <<>>)
        BY <3>2 DEF Recorded, Beginning
      <3> QED
        BY <3>1, <3>2, <3>3 DEF RecordInv
    <2>4. CASE Delete
      <3>1. /\ chat' = "deleted" /\ log' = [r \in Requests |-> <<>>] /\ req' = req
        BY <2>4 DEF Delete
      <3>2. log' \in [Requests -> Seq(Roles)] /\ \A r \in Requests : log'[r] = <<>>
        BY <3>1
      <3> QED
        BY <3>1, <3>2 DEF RecordInv
    <2>5. CASE UNCHANGED vars
      BY <2>5 DEF vars, RecordInv, Moves, Recorded, EventsOK, Closing
    <2> QED
      BY <2>1, <2>2, <2>3, <2>4, <2>5 DEF Next
  <1> QED
    BY <1>1, <1>2, ReviewInvCorrect, PTL DEF Spec

\* A beginning of what there is to record, in the model's own words.
LEMMA BeginningIsPrefix ==
    ASSUME ReviewInv, NEW r \in Requests, NEW rows, Beginning(rows, req[r].tools)
    PROVE  /\ IsPrefix(rows, Whole(r))
           /\ Len(rows) = req[r].tools + 2 => rows = Whole(r)
  <1> DEFINE t == req[r].tools
             whole == Whole(r)
  <1>1. t \in Nat
    BY DEF ReviewInv, Request
  <1>2. /\ whole \in Seq(Roles) /\ Len(whole) = t + 2
        /\ \A k \in 1..(t + 2) : whole[k] = RoleAt(k, t)
    <2> DEFINE tools == [k \in 1..t |-> "tool"]  front == <<"user">> \o tools
    <2>1. tools \in Seq(Roles) /\ Len(tools) = t /\ \A k \in 1..t : tools[k] = "tool"
      BY <1>1 DEF Roles
    <2>2. <<"user">> \in Seq(Roles) /\ <<"assistant">> \in Seq(Roles)
      BY DEF Roles
    <2> HIDE DEF tools
    <2>3. /\ front \in Seq(Roles) /\ Len(front) = t + 1
          /\ front[1] = "user" /\ \A k \in 2..(t + 1) : front[k] = "tool"
      BY <1>1, <2>1, <2>2
    <2>4. whole = front \o <<"assistant">>
      BY DEF Whole, tools
    <2> HIDE DEF front, whole
    <2>5. /\ whole \in Seq(Roles) /\ Len(whole) = t + 2
          /\ \A k \in 1..(t + 1) : whole[k] = front[k]
          /\ whole[t + 2] = "assistant"
      <3>1. "assistant" \in Roles
        BY DEF Roles
      <3>2. whole = Append(front, "assistant")
        BY <2>3, <2>4, <3>1, AppendIsConcat
      <3>3. /\ whole \in Seq(Roles) /\ Len(whole) = Len(front) + 1
            /\ \A k \in 1..Len(front) : whole[k] = front[k]
            /\ whole[Len(front) + 1] = "assistant"
        BY <2>3, <3>1, <3>2, AppendProperties
      <3> QED
        BY <1>1, <2>3, <3>3
    <2>6. ASSUME NEW k \in 1..(t + 2)
          PROVE  whole[k] = RoleAt(k, t)
      <3>1. CASE k = 1
        BY <1>1, <2>3, <2>5, <3>1 DEF RoleAt
      <3>2. CASE k \in 2..(t + 1)
        BY <1>1, <2>3, <2>5, <3>2 DEF RoleAt
      <3>3. CASE k = t + 2
        BY <1>1, <2>5, <3>3 DEF RoleAt
      <3> QED
        BY <1>1, <3>1, <3>2, <3>3
    <2> QED
      BY <2>5, <2>6
  <1> HIDE DEF t, whole
  <1>3. /\ rows \in Seq(Roles) /\ Len(rows) \in Nat /\ Len(rows) <= t + 2
        /\ \A k \in 1..Len(rows) : rows[k] = whole[k]
    BY <1>1, <1>2 DEF Beginning, t
  <1>4. SubSeq(rows, 1, Len(rows)) = SubSeq(whole, 1, Len(rows))
    <2> DEFINE n == Len(rows)
    <2>1. n \in Nat /\ n <= Len(rows) /\ n <= Len(whole)
      BY <1>1, <1>2, <1>3
    <2>2. /\ SubSeq(rows, 1, n) \in Seq(Roles) /\ Len(SubSeq(rows, 1, n)) = n
          /\ \A k \in 1..n : SubSeq(rows, 1, n)[k] = rows[k]
      BY <1>3, <2>1
    <2>3. /\ SubSeq(whole, 1, n) \in Seq(Roles) /\ Len(SubSeq(whole, 1, n)) = n
          /\ \A k \in 1..n : SubSeq(whole, 1, n)[k] = whole[k]
      BY <1>2, <2>1
    <2> QED
      BY <1>3, <2>2, <2>3, SeqEqual
  <1>5. IsPrefix(rows, whole)
    BY <1>1, <1>2, <1>3, <1>4 DEF IsPrefix
  <1>6. Len(rows) = t + 2 => rows = whole
    BY <1>2, <1>3, SeqEqual
  <1> QED
    BY <1>5, <1>6 DEF t, whole

\* What is on record of a request is a beginning of its message, its tools' results and
\* its answer, all of them when it was answered, and nothing of a deleted session.
THEOREM RecordIsWholeCorrect == Spec => []RecordIsWhole
  <1>1. ReviewInv /\ RecordInv => RecordIsWhole
    <2> SUFFICES ASSUME ReviewInv, RecordInv
                 PROVE  RecordIsWhole
      OBVIOUS
    <2>1. chat # "open" => \A r \in Requests : log[r] = <<>>
      BY DEF RecordInv
    <2>2. ASSUME NEW r \in Requests
          PROVE  /\ IsPrefix(log[r], Whole(r))
                 /\ req[r].at = "answered" /\ chat = "open" => log[r] = Whole(r)
      <3>1. req[r].tools \in Nat
        BY DEF ReviewInv, Request
      <3>2. Beginning(log[r], req[r].tools)
        <4>1. CASE chat = "open"
          BY <4>1 DEF RecordInv, Recorded, ReviewInv
        <4>2. CASE chat # "open"
          <5>1. log[r] = <<>>
            BY <2>1, <4>2
          <5>2. <<>> \in Seq(Roles) /\ Len(<<>>) = 0
            OBVIOUS
          <5> QED
            BY <3>1, <5>1, <5>2 DEF Beginning
        <4> QED
          BY <4>1, <4>2
      <3>3. req[r].at = "answered" /\ chat = "open" => Len(log[r]) = req[r].tools + 2
        BY DEF RecordInv, Recorded
      <3> QED
        BY <3>2, <3>3, BeginningIsPrefix
    <2> QED
      BY <2>1, <2>2 DEF RecordIsWhole
  <1> QED
    BY <1>1, ReviewInvCorrect, RecordInvCorrect, PTL
=============================================================================

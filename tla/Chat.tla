-------------------------------- MODULE Chat --------------------------------
(***************************************************************************)
(* One chat session: the messages on record, and requests that run the     *)
(* graph of agents (services/chat/orchestrator.py) and stream its events   *)
(* to a client (api/routes/chat.py).                                       *)
(*                                                                         *)
(* A request is two tasks that share one database session.  The graph asks *)
(* the models through the provider router, which reads and writes the      *)
(* providers' status; what it does comes out as events, and the stream     *)
(* records them and passes them on while the graph is already a step       *)
(* further.  A SQLAlchemy session does not take two calls at a time.       *)
(***************************************************************************)
EXTENDS Naturals, Sequences, SequencesExt

CONSTANTS
    Requests,    \* messages that users send to the session
    MaxRetries,  \* MAX_RETRIES: drafts sent back before the reviewer gives up
    MaxRounds,   \* MAX_TOOL_CALL_ROUNDS
    MaxSteps,    \* the recursion limit of LangGraph, 25 when none is given
    MaxTools     \* bound: tools that run in one request

ASSUME ChatAssumption ==
    {MaxRetries, MaxRounds, MaxSteps, MaxTools} \subseteq Nat \ {0}

VARIABLES
    log,   \* the session's rows of ai_chat_messages by request, oldest first: their roles
    chat,  \* the session: "none" yet, "open" or "deleted"
    req    \* the requests

vars == <<log, chat, req>>

Reviewed == {"rag_agent", "quant_agent"}
Agents == Reviewed \cup {"ops_agent"}
Target(agent) == IF agent \in Reviewed THEN "reviewer" ELSE "supervisor"

\* A request: at, how far the stream is; saving, whether it is in a call of the
\* database session; node, the graph's node; call, where this is in asking a model;
\* last, who wrote the last AI message, and for the reviewer what it says; retry,
\* the retry_count of the graph's state; rounds and steps, the rounds of the worker
\* and the steps of the graph; events, what the graph did and the stream has not
\* taken.  For the properties, refused counts the drafts that the reviewer refused
\* since the supervisor delegated and tools the tools that ran.
Blank == [at |-> "idle", saving |-> FALSE, node |-> "END", call |-> "ready",
          last |-> "none", retry |-> 0, rounds |-> 0, steps |-> 0,
          events |-> <<>>, refused |-> 0, tools |-> 0]

Init ==
    /\ log = [r \in Requests |-> <<>>]
    /\ chat = "none"
    /\ req = [r \in Requests |-> Blank]

\* A stream that is over leaves nothing running: the graph's task is cancelled.
Over(q, how) == [Blank EXCEPT !.at = how, !.tools = q.tools]

Set(r, q) == req' = [req EXCEPT ![r] = q]

-----------------------------------------------------------------------------
(* The graph *)

Put(q, event) == [q EXCEPT !.events = Append(@, event)]

\* An exception leaves the graph and reaches the stream behind the events before it.
Raised(q) == Put([q EXCEPT !.node = "END", !.call = "ready"], "error")

\* The edges of the graph.
Goto(q, node) ==
    IF node = "FINISH" THEN Put([q EXCEPT !.node = "END", !.call = "ready"], "answer")
    ELSE IF q.steps = MaxSteps THEN Raised(q)
    ELSE [q EXCEPT !.node = node, !.call = "ready", !.rounds = 0, !.steps = @ + 1]

\* AIProviderRouter.execute: the candidates are read, a model is asked, the success
\* is written.  Read and write use the session, perhaps while the stream is in it.
InSession(q) == q.call \in {"reading", "marking"}
Uses(r, before, during) ==
    /\ req[r].node # "END"
    /\ req[r].call = before
    /\ \/ Set(r, [req[r] EXCEPT !.call = during])
       \/ req[r].saving /\ Set(r, Raised(req[r]))
    /\ UNCHANGED <<log, chat>>
Candidates(r) == Uses(r, "ready", "reading")
Answered(r) == Uses(r, "asking", "marking")
Asked(r) ==
    /\ req[r].call = "reading"
    /\ Set(r, [req[r] EXCEPT !.call = "asking"])
    /\ UNCHANGED <<log, chat>>

\* No provider answers, or none in the form that was asked for.
ModelFails(r) ==
    /\ req[r].call = "asking"
    /\ Set(r, Raised(req[r]))
    /\ UNCHANGED <<log, chat>>

\* The supervisor finishes with an answer or delegates.
Supervise(r) ==
    LET q == req[r] IN
    /\ q.node = "supervisor" /\ q.call = "marking"
    /\ \E next \in Agents \cup {"FINISH"} :
           Set(r, Goto([q EXCEPT !.last = "supervisor",
                                 !.refused = IF next = "FINISH" THEN @ ELSE 0], next))
    /\ UNCHANGED <<log, chat>>

\* The worker answers.
Draft(q) == Goto([q EXCEPT !.last = q.node], Target(q.node))
Answers(r) ==
    /\ req[r].node \in Agents /\ req[r].call = "marking"
    /\ Set(r, Draft(req[r]))
    /\ UNCHANGED <<log, chat>>

\* The worker calls tools.  Those that it may use and that do not raise come out as
\* events; a refused or failed one only goes into the conversation.  After the last
\* round the worker says that it got nowhere.
ToolEvents(node) == {"tool_call"} \cup (IF node = "ops_agent" THEN {"approval_request"} ELSE {})
RoundsForEver(q) == FALSE
NoMoreRounds(q) == q.rounds = MaxRounds
CallsTools(r) ==
    LET q == req[r] IN
    /\ q.node \in Agents /\ q.call = "marking"
    /\ \E n \in 0..(MaxTools - q.tools) : \E ran \in [1..n -> ToolEvents(q.node)] :
           LET then == [q EXCEPT !.events = @ \o ran, !.tools = @ + n,
                                 !.rounds = IF @ < MaxRounds THEN @ + 1 ELSE @,
                                 !.call = "ready"]
           IN  Set(r, IF NoMoreRounds(then) THEN Draft(then) ELSE then)
    /\ UNCHANGED <<log, chat>>

\* The reviewer passes the last AI message, or sends the worker that wrote it back to
\* work, and gives up when that was done too often.
Refused(q) ==
    LET retry == q.retry + 1 IN
    IF retry > MaxRetries
    THEN Goto([q EXCEPT !.retry = 0, !.refused = @ + 1, !.last = "given up"], "supervisor")
    ELSE Goto([q EXCEPT !.retry = retry, !.refused = @ + 1], q.last)
RetriesKept(q, passed) ==
    IF passed THEN Goto([q EXCEPT !.last = "passed"], "supervisor") ELSE Refused(q)
Verdict(q, passed) ==
    IF passed THEN Goto([q EXCEPT !.retry = 0, !.last = "passed"], "supervisor") ELSE Refused(q)
Review(r) ==
    /\ req[r].node = "reviewer" /\ req[r].call = "marking"
    /\ \E passed \in BOOLEAN : Set(r, Verdict(req[r], passed))
    /\ UNCHANGED <<log, chat>>

GraphStep(r) ==
    \/ Candidates(r) \/ Asked(r) \/ Answered(r) \/ ModelFails(r)
    \/ Supervise(r) \/ Answers(r) \/ CallsTools(r) \/ Review(r)

-----------------------------------------------------------------------------
(* The stream *)

\* The session exists when the request comes in; the latest messages are read.
Begin(r) ==
    /\ req[r].at = "idle" /\ chat = "open"
    /\ Set(r, [req[r] EXCEPT !.at = "history"])
    /\ UNCHANGED <<log, chat>>

Record(r, rows) == log' = [log EXCEPT ![r] = @ \o rows]

\* The user's message is saved, and the graph starts.
SaveUser(r) ==
    /\ req[r].at = "history"
    /\ IF chat = "deleted" THEN Set(r, Over(req[r], "error")) /\ log' = log
       ELSE /\ Record(r, <<"user">>)
            /\ Set(r, [req[r] EXCEPT !.at = "streaming", !.node = "supervisor", !.steps = 1])
    /\ UNCHANGED chat

\* The next event is a tool's result or the end of the graph: it is saved.  The
\* session may be in use by the graph's next question.
SaveBegins(r) ==
    LET q == req[r] IN
    /\ ~q.saving /\ q.events # <<>> /\ Head(q.events) # "error"
    /\ \/ Set(r, [q EXCEPT !.saving = TRUE])
       \/ InSession(q) /\ Set(r, Over(q, "error"))
    /\ UNCHANGED <<log, chat>>

\* What is recorded of an event, an approval request being a tool's result as well.
RowsWithoutProposals(event) ==
    IF event = "answer" THEN <<"assistant">>
    ELSE IF event = "approval_request" THEN <<>> ELSE <<"tool">>
RowsOf(event) == IF event = "answer" THEN <<"assistant">> ELSE <<"tool">>

\* The row is committed and the event sent; the answer ends the stream.
SaveEnds(r) ==
    LET q == req[r] IN
    /\ q.saving
    /\ IF chat = "deleted" THEN Set(r, Over(q, "error")) /\ log' = log
       ELSE /\ Record(r, RowsOf(Head(q.events)))
            /\ Set(r, IF Head(q.events) = "answer" THEN Over(q, "answered")
                      ELSE [q EXCEPT !.saving = FALSE, !.events = Tail(@)])
    /\ UNCHANGED chat

\* The graph raised: the client gets an error event, and nothing is saved of it.
StreamFails(r) ==
    /\ req[r].events # <<>> /\ Head(req[r].events) = "error"
    /\ Set(r, Over(req[r], "error"))
    /\ UNCHANGED <<log, chat>>

StreamStep(r) == SaveUser(r) \/ SaveBegins(r) \/ SaveEnds(r) \/ StreamFails(r)

\* The client goes away, perhaps while a row is being committed.
Leave(r) ==
    LET q == req[r] IN
    /\ q.at \in {"history", "streaming"}
    /\ Set(r, Over(q, "left"))
    /\ \/ log' = log
       \/ q.saving /\ chat = "open" /\ Record(r, RowsOf(Head(q.events)))
    /\ UNCHANGED chat

Create == chat = "none" /\ chat' = "open" /\ UNCHANGED <<log, req>>

\* The session is deleted, and its messages with it.
Delete ==
    /\ chat = "open"
    /\ chat' = "deleted"
    /\ log' = [r \in Requests |-> <<>>]
    /\ UNCHANGED req

Next ==
    \/ \E r \in Requests : Begin(r) \/ GraphStep(r) \/ StreamStep(r) \/ Leave(r)
    \/ Create \/ Delete

Spec == Init /\ [][Next]_vars

\* The tasks of the graph and of the stream are scheduled, and the database is assumed to
\* answer; a model that is asked need not, as nothing gives it a deadline.
Goes(r) == req[r].call # "asking" /\ GraphStep(r)
FairSpec ==
    /\ Spec
    /\ \A r \in Requests : WF_vars(Goes(r)) /\ WF_vars(StreamStep(r))

-----------------------------------------------------------------------------
(* Properties *)

\* What is on record of a request: the user's message, the results of its tools in
\* their order and the answer, or a beginning of these; all of them when the client
\* got an answer, and one answer at the most.  Nothing is on record of a session that
\* was deleted, whatever was still running.
Whole(r) == <<"user">> \o [k \in 1..req[r].tools |-> "tool"] \o <<"assistant">>
RecordIsWhole ==
    /\ chat # "open" => \A r \in Requests : log[r] = <<>>
    /\ \A r \in Requests :
           /\ IsPrefix(log[r], Whole(r))
           /\ req[r].at = "answered" /\ chat = "open" => log[r] = Whole(r)

\* The supervisor sees no draft of the agents that report about the portfolio and the
\* market before the reviewer has passed it or has refused MaxRetries + 1 drafts of the
\* same task: neither more, nor fewer because of what happened to an earlier task.
ReviewedFirst ==
    \A r \in Requests : req[r].node = "supervisor" =>
        /\ req[r].last \notin Reviewed
        /\ req[r].last = "given up" => req[r].refused = MaxRetries + 1
        /\ req[r].last = "passed" => req[r].refused <= MaxRetries

\* A request ends: with an answer, with an error or because the client left, unless a model
\* never answers.  The agents may send each other round and call tools, but not for ever.
StreamEnds ==
    \A r \in Requests :
        \/ req[r].at = "history" ~> req[r].at \in {"answered", "error", "left"}
        \/ <>[](req[r].call = "asking")
=============================================================================

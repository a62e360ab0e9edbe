-------------------------- MODULE BotControlProofs --------------------------
(***************************************************************************)
(* Proofs about BotControl, for any clients and any number of updates,     *)
(* failures and restarts: its type invariant, that a command is carried    *)
(* out once but for restarts, and that status writes keep the profile.     *)
(***************************************************************************)
EXTENDS BotControl, TLAPS

Stages == {"idle", "switch", "read", "write", "reply"}
Doings == {"none", "beat", "report", "start", "stop", "setrisk", "edit"}
Task   == [at : Stages, does : Doings, copy : Doc, active : BOOLEAN]

\* The sessions: whoever is in one does something.
SessionsOK ==
    /\ active \in BOOLEAN
    /\ doc \in Doc
    /\ task \in [Actors -> Task]
    /\ \A a \in Actors : task[a].at \in {"switch", "read", "write"} => task[a].does # "none"

\* The updates: a batch is of updates that follow each other, none of them before the
\* offset; what the offset is past has been taken up once more than there were restarts
\* at the most, and what lies ahead not even that often.
OffsetsOK ==
    /\ sent \in Seq(Commands) /\ Len(sent) <= MaxUpdates
    /\ confirmed \in Nat /\ confirmed <= Len(sent)
    /\ offset \in Nat /\ offset <= Len(sent) + 1

TakenOK ==
    /\ crashes \in Nat
    /\ taken \in [Ids -> Nat]
    /\ \A i \in Ids : taken[i] <= crashes + 1 /\ (i >= offset => taken[i] <= crashes)

BatchOK ==
    /\ batch \in Seq(Nat)
    /\ \A k \in 1..Len(batch) : batch[k] = batch[1] + k - 1 /\ batch[k] <= Len(sent)
    /\ batch # <<>> => batch[1] >= offset /\ batch[1] >= 1

UpdatesOK == OffsetsOK /\ TakenOK /\ BatchOK

ControlInv == SessionsOK /\ UpdatesOK

LEMMA Types ==
    /\ "idle" \in Stages /\ "switch" \in Stages /\ "read" \in Stages
    /\ "write" \in Stages /\ "reply" \in Stages
    /\ Doings \ {"none"} = {"beat", "report", "start", "stop", "setrisk", "edit"}
    /\ Fresh \in Doc /\ Idle \in Task /\ Idle.at = "idle"
  BY DEF Stages, Doings, Task, Fresh, Doc, Profile, Actions, Idle

LEMMA BegunOK ==
    ASSUME NEW what \in Doings \ {"none"}
    PROVE  Begun(what) \in Task /\ Begun(what).does # "none"
  BY Types DEF Begun, Task, Idle

-----------------------------------------------------------------------------
(* The sessions *)

\* One actor's task changes, and nothing of the row.
LEMMA TaskChanges ==
    ASSUME SessionsOK, NEW a \in Actors, NEW t \in Task,
           t.at \in {"switch", "read", "write"} => t.does # "none",
           task' = [task EXCEPT ![a] = t], active' \in BOOLEAN, doc' \in Doc
    PROVE  SessionsOK'
  BY DEF SessionsOK

\* What is written of the document, and what it keeps of the one that was read.
LEMMA WrittenOK ==
    ASSUME SessionsOK, NEW a \in Actors, task[a].at = "write", NEW d \in Written(a)
    PROVE  d \in Doc /\ (task[a].does \notin Edits => d.profile = task[a].copy.profile)
  <1> DEFINE old == task[a].copy
             what == task[a].does
  <1>1. old \in Doc /\ what \in Doings \ {"none"}
    BY DEF SessionsOK, Task
  <1>2. ASSUME NEW action \in Actions
        PROVE  Merged(old, action) \in Doc /\ Merged(old, action).profile = old.profile
    BY <1>1 DEF Merged, Doc
  <1>3. CASE what \in {"beat", "report", "start", "stop"}
    <2>1. \E action \in Actions : d = Merged(old, action)
      BY <1>3 DEF Written, Actions
    <2> QED
      BY <1>2, <2>1
  <1>4. CASE what \in Edits
    <2>1. PICK p \in Profile : d = [old EXCEPT !.profile = p]
      BY <1>4 DEF Written, Edits
    <2>2. d \in Doc
      BY <1>1, <2>1 DEF Doc
    <2> QED
      BY <1>4, <2>2
  <1> QED
    BY <1>1, <1>3, <1>4, Types DEF Edits

LEMMA SessionOK ==
    ASSUME SessionsOK, NEW a \in Actors, Session(a)
    PROVE  SessionsOK'
  <1>1. task[a] \in Task
    BY DEF SessionsOK
  <1>2. CASE Switch(a)
    <2> DEFINE t == [task[a] EXCEPT !.at = "read"]
    <2>1. t \in Task /\ t.does = task[a].does
      BY <1>1, Types DEF Task
    <2>2. t.does # "none" /\ task' = [task EXCEPT ![a] = t]
      BY <1>2, <2>1 DEF Switch, At, SessionsOK
    <2>3. active' \in BOOLEAN /\ doc' \in Doc
      BY <1>2 DEF Switch, SessionsOK, Does
    <2> QED
      BY <2>1, <2>2, <2>3, TaskChanges
  <1>3. CASE Read(a)
    <2>1. Kept(task[a].does) \in Doc
      BY DEF Kept, SessionsOK, Doc, Profile, Actions
    <2>2. ((a = "engine") => Seen(a)) \in BOOLEAN
      OBVIOUS
    <2> DEFINE t == [task[a] EXCEPT !.at = "write", !.copy = Kept(task[a].does),
                                    !.active = (a = "engine") => Seen(a)]
    <2>3. t \in Task /\ t.does = task[a].does
      BY <1>1, <2>1, <2>2, Types DEF Task
    <2>4. t.does # "none" /\ task' = [task EXCEPT ![a] = t]
      BY <1>3, <2>3 DEF Read, At, SessionsOK
    <2> QED
      BY <1>3, <2>3, <2>4, TaskChanges DEF Read, SessionsOK
  <1>4. CASE Write(a)
    <2> DEFINE t == IF a = "telegram" THEN [Idle EXCEPT !.at = "reply"] ELSE Idle
    <2>1. t \in Task /\ t.at \in {"idle", "reply"}
      BY Types DEF Task
    <2>2. doc' \in Doc
      BY <1>4, WrittenOK DEF Write, At
    <2> QED
      BY <1>4, <2>1, <2>2, TaskChanges DEF Write, SessionsOK
  <1> QED
    BY <1>2, <1>3, <1>4 DEF Session

\* Every other step begins a session, ends one or leaves them all alone.
LEMMA BeginsOrEnds ==
    ASSUME SessionsOK, NEW a \in Actors, UNCHANGED <<active, doc>>,
           \/ task' = [task EXCEPT ![a] = Idle]
           \/ \E what \in Doings \ {"none"} : task' = [task EXCEPT ![a] = Begun(what)]
    PROVE  SessionsOK'
  <1>1. CASE task' = [task EXCEPT ![a] = Idle]
    BY <1>1, Types, TaskChanges DEF SessionsOK
  <1>2. CASE \E what \in Doings \ {"none"} : task' = [task EXCEPT ![a] = Begun(what)]
    <2>1. PICK what \in Doings \ {"none"} : task' = [task EXCEPT ![a] = Begun(what)]
      BY <1>2
    <2> QED
      BY <2>1, BegunOK, TaskChanges DEF SessionsOK
  <1> QED
    BY <1>1, <1>2

LEMMA AllSessions ==
    ASSUME SessionsOK, UpdatesOK, [Next]_vars
    PROVE  SessionsOK'
  <1>1. "engine" \in Actors /\ "telegram" \in Actors /\ Clients \subseteq Actors
    BY DEF Actors
  <1>2. CASE Beat
    BY <1>1, <1>2, Types, BeginsOrEnds DEF Beat
  <1>3. CASE EngineFails
    <2>1. AfterFault(task["engine"].does) \in {Begun("report"), Idle}
      BY DEF AfterFault
    <2> QED
      BY <1>1, <1>3, <2>1, Types, BeginsOrEnds DEF EngineFails
  <1>4. ASSUME NEW c \in Clients, Request(c)
        PROVE  SessionsOK'
    BY <1>1, <1>4, ControlAssumption, Types, BeginsOrEnds DEF Request
  <1>5. ASSUME NEW c \in Clients, RequestFails(c)
        PROVE  SessionsOK'
    BY <1>1, <1>5, BeginsOrEnds DEF RequestFails
  <1>6. CASE Take
    <2>1. PICK i \in 1..Len(sent) : i = Head(batch)
      BY <1>6 DEF Take, UpdatesOK, OffsetsOK, TakenOK, BatchOK
    <2>2. sent[i] \in Commands
      BY DEF UpdatesOK, OffsetsOK, TakenOK, BatchOK
    <2>3. sent[i] \in Doings \ {"none"}
      BY <2>2, ControlAssumption, Types
    <2>4. task' = [task EXCEPT !["telegram"] = Begun(sent[i])] /\ UNCHANGED <<active, doc>>
      BY <1>6, <2>1 DEF Take
    <2> QED
      BY <1>1, <2>3, <2>4, BeginsOrEnds
  <1>7. CASE Reply
    BY <1>1, <1>7, BeginsOrEnds DEF Reply
  <1>8. CASE HandlingFails
    BY <1>1, <1>8, BeginsOrEnds DEF HandlingFails
  <1>9. CASE Crash
    BY <1>9, Types DEF Crash, SessionsOK
  <1>10. CASE Poll \/ Send \/ UNCHANGED vars
    BY <1>10 DEF Poll, Send, vars, SessionsOK
  <1>11. ASSUME NEW a \in Actors, Session(a)
         PROVE  SessionsOK'
    BY <1>11, SessionOK
  <1> QED
    BY <1>1, <1>2, <1>3, <1>4, <1>5, <1>6, <1>7, <1>8, <1>9, <1>10, <1>11
    DEF Next, EngineStep, TelegramStep, ClientStep

-----------------------------------------------------------------------------
(* The updates *)

\* Sessions and requests leave them alone.
LEMMA ElsewhereOK ==
    ASSUME UpdatesOK, UNCHANGED <<telegramVars, crashes>>
    PROVE  UpdatesOK'
  BY DEF UpdatesOK, OffsetsOK, TakenOK, BatchOK, telegramVars

LEMMA SendOK ==
    ASSUME UpdatesOK, Send
    PROVE  UpdatesOK'
  <1>1. PICK what \in Commands : sent' = Append(sent, what)
    BY DEF Send
  <1>2. sent' \in Seq(Commands) /\ Len(sent') = Len(sent) + 1 /\ Len(sent') <= MaxUpdates
    BY <1>1, ControlAssumption DEF Send, UpdatesOK, OffsetsOK, TakenOK, BatchOK
  <1> QED
    BY <1>2 DEF Send, UpdatesOK, OffsetsOK, TakenOK, BatchOK

LEMMA PollOK ==
    ASSUME UpdatesOK, Poll
    PROVE  UpdatesOK'
  <1> DEFINE last == IF offset = 0 THEN confirmed ELSE offset - 1
  <1>1. /\ last \in Nat /\ last < Len(sent) /\ last + 1 >= offset
        /\ confirmed' = last
        /\ batch' = [i \in 1..(Len(sent) - last) |-> last + i]
        /\ UNCHANGED <<sent, offset, taken, crashes>>
    BY DEF Poll, UpdatesOK, OffsetsOK, TakenOK, BatchOK
  <1>2. Len(sent) \in Nat /\ Len(sent) - last \in Nat
    BY <1>1 DEF UpdatesOK, OffsetsOK, TakenOK, BatchOK
  <1> HIDE DEF last
  <1>3. /\ batch' \in Seq(Nat) /\ Len(batch') = Len(sent) - last
        /\ \A k \in 1..Len(batch') : batch'[k] = last + k
    BY <1>1, <1>2
  <1>4. /\ \A k \in 1..Len(batch') : batch'[k] = batch'[1] + k - 1 /\ batch'[k] <= Len(sent)
        /\ batch'[1] >= offset /\ batch'[1] >= 1
    BY <1>1, <1>2, <1>3 DEF UpdatesOK, OffsetsOK, TakenOK, BatchOK
  <1> QED
    BY <1>1, <1>3, <1>4 DEF UpdatesOK, OffsetsOK, TakenOK, BatchOK

LEMMA TakeOK ==
    ASSUME UpdatesOK, Take
    PROVE  UpdatesOK'
  <1>10. PICK i \in Nat : i = Head(batch)
    BY DEF Take, UpdatesOK, OffsetsOK, TakenOK, BatchOK
  <1>1. /\ batch # <<>> /\ i = batch[1] /\ Len(batch) \in Nat /\ Len(batch) >= 1
        /\ offset' = i + 1
        /\ batch' = Tail(batch)
        /\ taken' = [taken EXCEPT ![i] = taken[i] + 1]
        /\ UNCHANGED <<sent, confirmed, crashes>>
    BY <1>10 DEF Take, UpdatesOK, OffsetsOK, TakenOK, BatchOK, OffsetAfter
  <1>2. i \in Nat /\ i >= 1 /\ i >= offset /\ i <= Len(sent) /\ Len(sent) \in Nat
    BY <1>1 DEF UpdatesOK, OffsetsOK, TakenOK, BatchOK
  <1>3. i \in Ids
    BY <1>2, ControlAssumption DEF Ids, UpdatesOK, OffsetsOK, TakenOK, BatchOK
  <1>4. taken' \in [Ids -> Nat]
    <2>1. taken \in [Ids -> Nat] /\ taken[i] + 1 \in Nat
      BY <1>3 DEF UpdatesOK, OffsetsOK, TakenOK, BatchOK
    <2> QED
      BY <1>1, <2>1
  <1>5. \A j \in Ids : taken'[j] <= crashes + 1 /\ (j >= offset' => taken'[j] <= crashes)
    <2> SUFFICES ASSUME NEW j \in Ids
                 PROVE  taken'[j] <= crashes + 1 /\ (j >= offset' => taken'[j] <= crashes)
      OBVIOUS
    <2>1. j \in Nat /\ taken[j] \in Nat /\ crashes \in Nat /\ offset \in Nat
      BY ControlAssumption DEF UpdatesOK, OffsetsOK, TakenOK, BatchOK, Ids
    <2>2. CASE j = i
      <3>1. taken[i] <= crashes /\ taken'[i] = taken[i] + 1
        BY <1>1, <1>2, <1>3 DEF UpdatesOK, OffsetsOK, TakenOK, BatchOK
      <3> QED
        BY <1>1, <1>2, <2>1, <2>2, <3>1
    <2>3. CASE j # i
      BY <1>1, <1>2, <1>3, <2>1, <2>3 DEF UpdatesOK, OffsetsOK, TakenOK, BatchOK
    <2> QED
      BY <2>2, <2>3
  <1>6. /\ batch' \in Seq(Nat) /\ Len(batch') = Len(batch) - 1
        /\ \A k \in 1..Len(batch') : batch'[k] = batch[k + 1]
    BY <1>1 DEF UpdatesOK, OffsetsOK, TakenOK, BatchOK
  <1>7. \A k \in 1..Len(batch') : batch'[k] = i + k /\ batch'[k] <= Len(sent)
    BY <1>1, <1>2, <1>6 DEF UpdatesOK, OffsetsOK, TakenOK, BatchOK
  <1>8. batch' # <<>> => 1 \in 1..Len(batch') /\ batch'[1] = i + 1
    BY <1>6, <1>7
  <1>9. /\ \A k \in 1..Len(batch') : batch'[k] = batch'[1] + k - 1 /\ batch'[k] <= Len(sent)
        /\ batch' # <<>> => batch'[1] >= offset' /\ batch'[1] >= 1
    <2>1. ASSUME NEW k \in 1..Len(batch')
          PROVE  batch'[k] = batch'[1] + k - 1 /\ batch'[k] <= Len(sent)
      <3>1. batch' # <<>> /\ k \in Nat
        BY <1>6
      <3> QED
        BY <1>2, <1>7, <1>8, <3>1
    <2> QED
      BY <1>1, <1>2, <1>8, <2>1
  <1>a. OffsetsOK'
    <2>1. sent' = sent /\ confirmed' = confirmed
      BY <1>1
    <2>2. offset' \in Nat /\ offset' <= Len(sent) + 1
      BY <1>1, <1>2
    <2> QED
      BY <2>1, <2>2 DEF UpdatesOK, OffsetsOK
  <1>b. TakenOK'
    <2>1. crashes' = crashes /\ crashes \in Nat
      BY <1>1 DEF UpdatesOK, TakenOK
    <2> QED
      BY <1>4, <1>5, <2>1 DEF TakenOK
  <1>c. BatchOK'
    <2>1. sent' = sent
      BY <1>1
    <2> QED
      BY <1>6, <1>9, <2>1 DEF BatchOK
  <1> QED
    BY <1>a, <1>b, <1>c DEF UpdatesOK

LEMMA EmptiedOK ==
    ASSUME UpdatesOK, HandlingFails \/ Crash
    PROVE  UpdatesOK'
  <1>1. CASE HandlingFails
    BY <1>1 DEF HandlingFails, OffsetKept, UpdatesOK, OffsetsOK, TakenOK, BatchOK
  <1>2. CASE Crash
    <2>1. \A i \in Ids : taken[i] <= crashes' + 1 /\ taken[i] <= crashes'
      BY <1>2 DEF Crash, UpdatesOK, OffsetsOK, TakenOK, BatchOK
    <2> QED
      BY <1>2, <2>1 DEF Crash, UpdatesOK, OffsetsOK, TakenOK, BatchOK
  <1> QED
    BY <1>1, <1>2

-----------------------------------------------------------------------------
(* The theorems *)

\* The sessions and the updates are in order whatever the actors do.
THEOREM ControlInvCorrect == Spec => []ControlInv
  <1>1. Init => ControlInv
    <2> SUFFICES ASSUME Init
                 PROVE  ControlInv
      OBVIOUS
    <2>1. SessionsOK
      BY Types DEF Init, SessionsOK
    <2>2. UpdatesOK
      BY ControlAssumption DEF Init, UpdatesOK, OffsetsOK, TakenOK, BatchOK
    <2> QED
      BY <2>1, <2>2 DEF ControlInv
  <1>2. ControlInv /\ [Next]_vars => ControlInv'
    <2> SUFFICES ASSUME SessionsOK, UpdatesOK, [Next]_vars
                 PROVE  ControlInv'
      BY DEF ControlInv
    <2>1. SessionsOK'
      BY AllSessions
    <2>2. CASE Send \/ Poll \/ Take \/ HandlingFails \/ Crash
      BY <2>1, <2>2, SendOK, PollOK, TakeOK, EmptiedOK DEF ControlInv
    <2>3. CASE ~(Send \/ Poll \/ Take \/ HandlingFails \/ Crash)
      <3>1. UNCHANGED <<telegramVars, crashes>>
        BY <2>3 DEF Next, EngineStep, TelegramStep, ClientStep, Session, Beat, EngineFails,
               Switch, Read, Write, Reply, Request, RequestFails, vars, telegramVars
      <3> QED
        BY <2>1, <3>1, ElsewhereOK DEF ControlInv
    <2> QED
      BY <2>2, <2>3
  <1> QED
    BY <1>1, <1>2, PTL DEF Spec

\* Every variable keeps its type, and a batch is of updates that follow each other.
THEOREM ControlTypeOKCorrect == Spec => []TypeOK
  <1>1. ControlInv => TypeOK
    BY DEF ControlInv, SessionsOK, UpdatesOK, OffsetsOK, TakenOK, BatchOK, TypeOK, Task
  <1> QED
    BY <1>1, ControlInvCorrect, PTL

\* A Telegram command is carried out once, and once more per restart at the most.
THEOREM CommandOnceCorrect == Spec => []CommandOnce
  <1>1. ControlInv => CommandOnce
    BY DEF ControlInv, UpdatesOK, OffsetsOK, TakenOK, BatchOK, CommandOnce
  <1> QED
    BY <1>1, ControlInvCorrect, PTL

\* The profile changes without an edit only by a write that had read it before an edit.
THEOREM ProfileKeptCorrect == Spec => ProfileKept
  <1> DEFINE Excused ==
        doc'.profile # doc.profile =>
            \E a \in Actors :
                /\ At(a, "write") /\ ~At(a, "write")'
                /\ \/ task[a].does \in Edits
                   \/ task[a].copy.profile # doc.profile
  <1>1. ControlInv /\ [Next]_vars => [Excused]_vars
    <2> SUFFICES ASSUME SessionsOK, [Next]_vars
                 PROVE  Excused
      BY DEF ControlInv
    <2>1. ASSUME NEW a \in Actors, Write(a)
          PROVE  Excused
      <3>1. /\ At(a, "write") /\ doc' \in Written(a)
            /\ task' = [task EXCEPT ![a] = IF a = "telegram" THEN [Idle EXCEPT !.at = "reply"]
                                                             ELSE Idle]
        BY <2>1 DEF Write
      <3>2. task[a].does \notin Edits => doc'.profile = task[a].copy.profile
        BY <3>1, WrittenOK DEF At
      <3>3. ~At(a, "write")'
        BY <3>1, Types DEF At, SessionsOK, Task
      <3> QED
        BY <3>1, <3>2, <3>3
    <2>2. CASE \A a \in Actors : ~Write(a)
      <3>1. doc' = doc
        BY <2>2 DEF Next, EngineStep, TelegramStep, ClientStep, Session, Beat, EngineFails,
               Switch, Read, Reply, Request, RequestFails, vars, Send, Poll, Take,
               HandlingFails, Crash, Actors
      <3> QED
        BY <3>1
    <2> QED
      BY <2>1, <2>2
  <1> QED
    BY <1>1, ControlInvCorrect, PTL DEF Spec, ProfileKept
=============================================================================

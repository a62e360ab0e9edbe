----------------------------- MODULE BotControl -----------------------------
(***************************************************************************)
(* Control of the bot: starting and stopping it, its runtime status and    *)
(* its profile (services/bot_service.py, services/trading/engine.py,       *)
(* services/telegram_bot.py, services/slack_bot.py, api/routes/status.py,  *)
(* api/routes/config.py).                                                  *)
(*                                                                         *)
(* The row bot_configs holds is_active and one JSON document with both the *)
(* profile that a user edits and the status that the engine writes every   *)
(* five seconds.  Each writer reads the document, changes its part of it   *)
(* and writes it all back.  Telegram hands out its updates again until a   *)
(* later poll confirms them, and the offset is kept in memory.             *)
(***************************************************************************)
EXTENDS Naturals, Sequences, FiniteSets

CONSTANTS
    Clients,      \* those who use the API or Slack, each one request at a time
    Requests,     \* what they ask for: "start", "stop", "edit"
    Commands,     \* what a Telegram chat may send: "start", "stop", "setrisk"
    MaxUpdates,   \* bound: updates sent
    MaxFaults     \* bound: sessions, requests or replies that fail, and restarts

ASSUME ControlAssumption ==
    /\ Requests \subseteq {"start", "stop", "edit"}
    /\ Commands \subseteq {"start", "stop", "setrisk"}
    /\ {MaxUpdates, MaxFaults} \subseteq Nat
    /\ {"engine", "telegram"} \cap Clients = {}

VARIABLES
    active,     \* bot_configs.is_active
    doc,        \* bot_configs.config_json
    task,       \* per actor, where it is and what it has read
    sent,       \* the commands of the updates sent, whose number is their id
    confirmed,  \* the last update that Telegram does not hand out again
    offset,     \* TelegramBotService._offset, 0 for None
    batch,      \* the ids of the updates it still has to handle
    taken,      \* history: per id, how often its handling began
    faults,     \* steps that failed
    crashes     \* restarts

vars == <<active, doc, task, sent, confirmed, offset, batch, taken, faults, crashes>>
telegramVars == <<sent, confirmed, offset, batch, taken>>

Actors  == Clients \cup {"engine", "telegram"}
Ids     == 1..MaxUpdates
Actions == {"none", "idle", "started", "waiting", "paused", "failed"}
Profile == {1, 2}
Doc     == [profile : Profile, action : Actions]
Fresh   == [profile |-> 1, action |-> "none"]

Idle == [at |-> "idle", does |-> "none", copy |-> Fresh, active |-> TRUE]

Init ==
    /\ active \in BOOLEAN
    /\ doc = Fresh
    /\ task = [a \in Actors |-> Idle]
    /\ sent = <<>>
    /\ confirmed = 0
    /\ offset = 0
    /\ batch = <<>>
    /\ taken = [i \in Ids |-> 0]
    /\ faults = 0
    /\ crashes = 0

At(a, stage) == task[a].at = stage
Does(a, what) == task[a].does = what

-----------------------------------------------------------------------------
(* A write of the document: one session reads it, then commits it *)

\* start_bot and stop_bot change is_active in a transaction of its own before.
Begun(what) ==
    [Idle EXCEPT !.at = IF what \in {"start", "stop"} THEN "switch" ELSE "read",
                 !.does = what]

Switch(a) ==
    /\ At(a, "switch")
    /\ active' = Does(a, "start")
    /\ task' = [task EXCEPT ![a].at = "read"]
    /\ UNCHANGED <<doc, faults, crashes, telegramVars>>

\* What the session reads of is_active: bool(bot_config.is_active).
SeenRow(a) == TRUE
Seen(a) == active

\* What of the document is written back as it was read: not the part that changes.
Edits == {"setrisk", "edit"}
Kept(what) == IF what \in Edits THEN [doc EXCEPT !.profile = 1] ELSE [doc EXCEPT !.action = "none"]

Read(a) ==
    /\ At(a, "read")
    /\ task' = [task EXCEPT ![a].at = "write", ![a].copy = Kept(task[a].does),
                             ![a].active = (a = "engine") => Seen(a)]
    /\ UNCHANGED <<active, doc, faults, crashes, telegramVars>>

\* merge_bot_runtime_status keeps the profile that was read.
StatusAlone(old, action) == [Fresh EXCEPT !.action = action]
Merged(old, action) == [old EXCEPT !.action = action]

\* The edits of the profile keep the status that was read.
Written(a) ==
    LET old == task[a].copy
        what == task[a].does
    IN  CASE what = "beat"   -> {Merged(old, IF task[a].active THEN "waiting" ELSE "paused")}
          [] what = "report" -> {Merged(old, "failed")}
          [] what = "start"  -> {Merged(old, "started")}
          [] what = "stop"   -> {Merged(old, "idle")}
          [] OTHER           -> {[old EXCEPT !.profile = p] : p \in Profile}

Write(a) ==
    /\ At(a, "write")
    /\ doc' \in Written(a)
    /\ task' = [task EXCEPT ![a] = IF a = "telegram" THEN [Idle EXCEPT !.at = "reply"]
                                                      ELSE Idle]
    /\ UNCHANGED <<active, faults, crashes, telegramVars>>

-----------------------------------------------------------------------------
(* The engine *)

\* run_loop, every five seconds.
Beat ==
    /\ At("engine", "idle")
    /\ task' = [task EXCEPT !["engine"] = Begun("beat")]
    /\ UNCHANGED <<active, doc, faults, crashes, telegramVars>>

\* A beat that fails is reported in a new session; a report that fails is left.
AfterFault(what) == IF what = "beat" THEN Begun("report") ELSE Idle

EngineFails ==
    /\ task["engine"].at \in {"read", "write"}
    /\ faults + crashes < MaxFaults
    /\ faults' = faults + 1
    /\ task' = [task EXCEPT !["engine"] = AfterFault(task["engine"].does)]
    /\ UNCHANGED <<active, doc, crashes, telegramVars>>

-----------------------------------------------------------------------------
(* The API and Slack *)

Request(c) ==
    /\ At(c, "idle")
    /\ \E what \in Requests :
          task' = [task EXCEPT ![c] = Begun(what)]
    /\ UNCHANGED <<active, doc, faults, crashes, telegramVars>>

\* The client gets an error, whatever was committed before.
RequestFails(c) ==
    /\ ~At(c, "idle")
    /\ faults + crashes < MaxFaults
    /\ faults' = faults + 1
    /\ task' = [task EXCEPT ![c] = Idle]
    /\ UNCHANGED <<active, doc, crashes, telegramVars>>

-----------------------------------------------------------------------------
(* The Telegram bot *)

Send ==
    /\ Len(sent) < MaxUpdates
    /\ \E what \in Commands : sent' = Append(sent, what)
    /\ UNCHANGED <<active, doc, task, confirmed, offset, batch, taken, faults, crashes>>

\* getUpdates confirms everything before the offset and hands out the rest.
Poll ==
    /\ At("telegram", "idle")
    /\ batch = <<>>
    /\ LET last == IF offset = 0 THEN confirmed ELSE offset - 1 IN
       /\ last < Len(sent)
       /\ confirmed' = last
       /\ batch' = [i \in 1..(Len(sent) - last) |-> last + i]
    /\ UNCHANGED <<active, doc, task, sent, offset, taken, faults, crashes>>

\* The offset moves on before the update is handled.
OffsetTwice(i) == i + 2
OffsetOfBatch(i) == i + Len(batch)
OffsetAfter(i) == i + 1

Take ==
    /\ At("telegram", "idle")
    /\ batch # <<>>
    /\ LET i == Head(batch) IN
       /\ offset' = OffsetAfter(i)
       /\ batch' = Tail(batch)
       /\ taken' = [taken EXCEPT ![i] = @ + 1]
       /\ task' = [task EXCEPT !["telegram"] = Begun(sent[i])]
    /\ UNCHANGED <<active, doc, sent, confirmed, faults, crashes>>

Reply ==
    /\ At("telegram", "reply")
    /\ task' = [task EXCEPT !["telegram"] = Idle]
    /\ UNCHANGED <<active, doc, faults, crashes, telegramVars>>

\* An exception ends the batch.  The loop polls again from the offset, which is past
\* the update that failed.
OffsetOfFailed == offset - 1
OffsetKept == offset

HandlingFails ==
    /\ ~At("telegram", "idle")
    /\ faults + crashes < MaxFaults
    /\ faults' = faults + 1
    /\ task' = [task EXCEPT !["telegram"] = Idle]
    /\ batch' = <<>>
    /\ offset' = OffsetKept
    /\ UNCHANGED <<active, doc, sent, confirmed, taken, crashes>>

-----------------------------------------------------------------------------

\* The process restarts: what is in memory is gone.
Crash ==
    /\ faults + crashes < MaxFaults
    /\ crashes' = crashes + 1
    /\ task' = [a \in Actors |-> Idle]
    /\ offset' = 0
    /\ batch' = <<>>
    /\ UNCHANGED <<active, doc, sent, confirmed, taken, faults>>

Session(a) == Switch(a) \/ Read(a) \/ Write(a)
EngineStep == Beat \/ Session("engine") \/ EngineFails
TelegramStep == Poll \/ Take \/ Session("telegram") \/ Reply \/ HandlingFails
ClientStep(c) == Session(c) \/ RequestFails(c)

Next ==
    \/ EngineStep \/ TelegramStep \/ Send \/ Crash
    \/ \E c \in Clients : Request(c) \/ ClientStep(c)

Spec == Init /\ [][Next]_vars

\* The loops of the engine and of the Telegram bot go on, and a request ends: Telegram's
\* client has a timeout, and the database, whose calls have none, is assumed to answer.
FairSpec ==
    /\ Spec
    /\ WF_vars(EngineStep)
    /\ WF_vars(TelegramStep)
    /\ \A c \in Clients : WF_vars(ClientStep(c))

-----------------------------------------------------------------------------
(* Properties *)

\* Every variable keeps its type, and a batch is of updates that follow each other.
TypeOK ==
    /\ active \in BOOLEAN
    /\ doc \in Doc
    /\ \A a \in Actors : task[a].copy \in Doc
    /\ sent \in Seq(Commands)
    /\ Len(sent) <= MaxUpdates
    /\ confirmed \in 0..Len(sent)
    /\ offset \in 0..(Len(sent) + 1)
    /\ \A k \in 1..Len(batch) : batch[k] = batch[1] + k - 1 /\ batch[k] <= Len(sent)
    /\ taken \in [Ids -> Nat]

\* The profile changes without an edit only when an edit was committed between the
\* reading and the writing of the document by someone else.
ProfileKept ==
    [][doc'.profile # doc.profile =>
         \E a \in Actors :
            /\ At(a, "write") /\ ~At(a, "write")'
            /\ \/ task[a].does \in Edits
               \/ task[a].copy.profile # doc.profile]_vars

\* A command is carried out once, but for one more time per restart: neither a
\* failing reply nor a failing neighbour repeats it.
CommandOnce == \A i \in Ids : taken[i] <= 1 + crashes

\* Every command sent is taken up, whatever becomes of those before it.
CommandsReach == \A i \in Ids : (Len(sent) >= i) ~> (taken[i] > 0)

\* When the bot stays on, or off, the status says so again and again, whoever writes
\* the document and whatever failed.
StatusFollows ==
    /\ <>[]active => []<>(doc.action = "waiting")
    /\ <>[]~active => []<>(doc.action = "paused")
=============================================================================

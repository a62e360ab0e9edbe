--------------------------- MODULE ProviderRouter ---------------------------
(***************************************************************************)
(* Which AI provider answers (services/ai/provider_router.py, its clients  *)
(* under services/ai/providers).                                           *)
(*                                                                         *)
(* A call resolves its candidates once and asks them in turn.  What became *)
(* of each is marked in one JSON document in the database, which every     *)
(* call reads, changes and writes back.  A rate limit blocks a provider    *)
(* until some time; time is what remains of it, so that a tick shortens    *)
(* every block, those in copies of the document included.                  *)
(***************************************************************************)
EXTENDS Naturals, Sequences, FiniteSets

CONSTANTS
    Calls,        \* who calls, each one call at a time
    Strict,       \* those that ask the provider they prefer only: BUY prechecks
    Preferred,    \* per call, the provider asked first, or "none"
    Priority,     \* the providers, in the order that is configured
    Keyed,        \* providers with an API key
    MaxBlock,     \* bound: the longest block, in ticks
    MaxFaults     \* bound: writes of the document that fail

Providers == {Priority[i] : i \in 1..Len(Priority)}

ASSUME RouterAssumption ==
    /\ Strict \subseteq Calls
    /\ Priority \in Seq(Providers)
    /\ \A i, j \in 1..Len(Priority) : i # j => Priority[i] # Priority[j]
    /\ Keyed \subseteq Providers
    /\ "none" \notin Providers
    /\ Preferred \in [Calls -> Providers \cup {"none"}]
    /\ \A c \in Strict : Preferred[c] \in Providers
    /\ MaxBlock \in Nat \ {0}
    /\ MaxFaults \in Nat

VARIABLES
    enabled,   \* the providers that the settings enable
    status,    \* ai_provider_status: per provider, its block and whether it failed last
    call,      \* per call, where it is and what it has
    faults     \* writes that failed

vars == <<enabled, status, call, faults>>

Blocks == 0..MaxBlock
Doc    == [Providers -> [blocked : Blocks, failed : BOOLEAN]]
Marks  == [kind : {"none", "ok", "limited", "error"}, block : Blocks]
NoDoc  == [p \in Providers |-> [blocked |-> 0, failed |-> FALSE]]
NoMark == [kind |-> "none", block |-> 0]

\* left is whom the call has still to ask, the provider it is asking included.
\* Two fields are history: skipped, the providers that were blocked when the call
\* began; tried, those that it has asked in vain.
Idle == [at |-> "idle", usable |-> {}, left |-> {}, mark |-> NoMark, doc |-> NoDoc,
         skipped |-> {}, tried |-> {}]

Init ==
    /\ enabled = Providers
    /\ status = NoDoc
    /\ call = [c \in Calls |-> Idle]
    /\ faults = 0

At(c, stage) == call[c].at = stage

-----------------------------------------------------------------------------
(* The candidates of a call *)

Wanted(c) == IF c \in Strict THEN {Preferred[c]} ELSE Providers

\* The order of the settings, behind the provider that is preferred.
Before(preferred, p, q) ==
    \/ p = preferred
    \/ /\ q # preferred
       /\ \E i, j \in 1..Len(Priority) : i < j /\ Priority[i] = p /\ Priority[j] = q
First(preferred, p, some) == p \in some /\ \A q \in some \ {p} : Before(preferred, p, q)

CandidatesBlockedOrNot(wanted) == wanted \cap enabled \cap Keyed
Candidates(wanted) == {p \in wanted \cap enabled \cap Keyed : status[p].blocked = 0}

FallsBack(c) == Candidates(Providers)
MayAsk(c) == Candidates(Wanted(c))

\* The settings are read, then the status.  A call without a candidate gives up.
Load(c) ==
    /\ At(c, "idle")
    /\ LET usable == Wanted(c) \cap enabled \cap Keyed IN
       call' = [call EXCEPT
            ![c].at = IF MayAsk(c) = {} THEN "unavailable" ELSE "ask",
            ![c].usable = usable,
            ![c].left = MayAsk(c),
            ![c].skipped = {p \in usable : status[p].blocked > 0}]
    /\ UNCHANGED <<enabled, status, faults>>

-----------------------------------------------------------------------------
(* Asking, and marking what became of it *)

\* resolve_provider_block_until: the delay that the answer names, midnight in
\* California, a day, or the default of five minutes.
BlockTimes == 1..MaxBlock

\* is_provider_rate_limit_error: refusals of the API are told apart from other errors,
\* and a Gemini that is overloaded counts as one.
Outcomes == {[kind |-> kind, block |-> 0] : kind \in {"ok", "error"}}
            \cup {[kind |-> "limited", block |-> n] : n \in BlockTimes}

Ask(c) ==
    /\ At(c, "ask")
    /\ \E mark \in Outcomes :
          call' = [call EXCEPT ![c].at = "read", ![c].mark = mark]
    /\ UNCHANGED <<enabled, status, faults>>

ReadStatus(c) ==
    /\ At(c, "read")
    /\ call' = [call EXCEPT ![c].at = "write", ![c].doc = status]
    /\ UNCHANGED <<enabled, status, faults>>

\* mark_success, mark_error and mark_rate_limited: one provider's part changes.
MarkedAlone(doc, p, mark) ==
    [NoDoc EXCEPT ![p] = [blocked |-> mark.block, failed |-> mark.kind # "ok"]]
Marked(doc, p, mark) ==
    CASE mark.kind = "ok"      -> [doc EXCEPT ![p] = [blocked |-> 0, failed |-> FALSE]]
      [] mark.kind = "error"   -> [doc EXCEPT ![p].failed = TRUE]
      [] mark.kind = "limited" -> [doc EXCEPT ![p] = [blocked |-> mark.block, failed |-> TRUE]]

\* Whatever went wrong with a provider, the next one is asked; an answer ends the call.
LimitedEnds(mark, rest) ==
    IF rest = {} \/ mark.kind = "limited" THEN "unavailable" ELSE "ask"
NextIsAsked(mark, rest) == IF rest = {} THEN "unavailable" ELSE "ask"

Asks(c, p) == First(Preferred[c], p, call[c].left)
WriteStatus(c) ==
    LET k == call[c] IN
    /\ At(c, "write")
    /\ \E p \in k.left :
         LET rest == k.left \ {p} IN
         /\ Asks(c, p)
         /\ status' = Marked(k.doc, p, k.mark)
         /\ call' = [call EXCEPT ![c] =
              IF k.mark.kind = "ok" THEN Idle
              ELSE [Idle EXCEPT !.at = NextIsAsked(k.mark, rest), !.usable = k.usable,
                                !.left = rest, !.skipped = k.skipped,
                                !.tried = k.tried \cup {p}]]
    /\ UNCHANGED <<enabled, faults>>

\* The exception goes to the caller, and an answer that was there is lost.
WriteFails(c) ==
    /\ At(c, "write")
    /\ faults < MaxFaults
    /\ faults' = faults + 1
    /\ call' = [call EXCEPT ![c] = Idle]
    /\ UNCHANGED <<enabled, status>>

\* The caller gets AIProviderUnavailableError.
Return(c) ==
    /\ At(c, "unavailable")
    /\ call' = [call EXCEPT ![c] = Idle]
    /\ UNCHANGED <<enabled, status, faults>>

-----------------------------------------------------------------------------
(* The world *)

\* The settings are edited.
Toggle(p) ==
    /\ enabled' = IF p \in enabled THEN enabled \ {p} ELSE enabled \cup {p}
    /\ UNCHANGED <<status, call, faults>>

Sooner(n) == IF n = 0 THEN 0 ELSE n - 1
SoonerDoc(doc) == [p \in Providers |-> [doc[p] EXCEPT !.blocked = Sooner(doc[p].blocked)]]

Tick ==
    /\ \E p \in Providers : status[p].blocked > 0
    /\ status' = SoonerDoc(status)
    /\ call' = [c \in Calls |-> [call[c] EXCEPT !.doc = SoonerDoc(call[c].doc),
                                            !.mark.block = Sooner(call[c].mark.block)]]
    /\ UNCHANGED <<enabled, faults>>

-----------------------------------------------------------------------------

CallStep(c) ==
    Ask(c) \/ ReadStatus(c) \/ WriteStatus(c) \/ WriteFails(c) \/ Return(c)

Next ==
    \/ \E c \in Calls : Load(c) \/ CallStep(c)
    \/ \E p \in Providers : Toggle(p)
    \/ Tick

\* Time passes.  No call need end: nothing gives a request to a provider a deadline.
Spec == Init /\ [][Next]_vars /\ WF_vars(Tick)

-----------------------------------------------------------------------------
(* GET /configs/ai-provider-status *)

\* resolve_provider_runtime_status, of one provider.
RuntimeStatus(p) ==
    LET ready == Candidates(Providers) IN
    IF p \notin enabled THEN "disabled"
    ELSE IF p \notin Keyed THEN "missing_key"
    ELSE IF status[p].blocked > 0 THEN "blocked"
    ELSE IF First("none", p, ready) THEN "active"
    ELSE IF p \in ready THEN "fallback_ready"
    ELSE IF status[p].failed THEN "error"
    ELSE "ready"

-----------------------------------------------------------------------------
(* Properties *)

\* Every variable keeps its type, and what is left to ask is wanted.
TypeOK ==
    /\ enabled \subseteq Providers
    /\ status \in Doc
    /\ faults \in 0..MaxFaults
    /\ \A c \in Calls :
         /\ call[c].left \subseteq Wanted(c)
         /\ call[c].at \in {"ask", "read", "write"} => call[c].left # {}
         /\ call[c].mark \in Marks
         /\ call[c].doc \in Doc

\* A call is told that no provider is available only when each provider it may use
\* was blocked as it began or has failed it.
GivesUpWhenSpent ==
    \A c \in Calls : At(c, "unavailable") =>
        call[c].usable \subseteq call[c].skipped \cup call[c].tried

\* A block ends before its time only by a mark of the provider itself, or by a call
\* whose copy of the document was older.
BlockKept ==
    [][\A p \in Providers : (status[p].blocked > 1 /\ status'[p].blocked = 0) =>
         \E c \in Calls :
            /\ At(c, "write") /\ ~At(c, "write")'
            /\ Asks(c, p) \/ call[c].doc[p] # status[p]]_vars

\* However often providers refuse, the status API finds each of them usable again
\* and again: the calls that find it blocked leave it alone.
UsableAgain ==
    \A p \in Keyed : []<>(RuntimeStatus(p) \in {"active", "fallback_ready", "disabled"})
=============================================================================

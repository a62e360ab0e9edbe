----------------------------- MODULE UpbitOrder -----------------------------
(***************************************************************************)
(* A live order, from the caller's create_order to its history row         *)
(* (brokers/upbit.py and services/trading/ai_executor.py).                 *)
(*                                                                         *)
(* create_order is retried by tenacity, after timeouts only, and passes no *)
(* identifier: a request that timed out at the client may still reach the  *)
(* exchange, which takes every request it gets for an order of its own.    *)
(* The caller then reads the order once and stores a row of the quantity   *)
(* it makes out.  Quantities are whole lots of the volume requested.       *)
(***************************************************************************)
EXTENDS Naturals

CONSTANTS
    Calls,         \* calls of create_order, each for one intent to trade
    MaxAttempts,   \* stop_after_attempt
    Volume         \* lots that a call asks for

ASSUME UpbitAssumption ==
    /\ MaxAttempts \in Nat \ {0}
    /\ Volume \in Nat \ {0}

VARIABLES
    call,       \* per call: where it is, its attempt, the quantity made out
    wire,       \* requests sent that the exchange has not answered for good
    accepted,   \* requests the exchange took as orders
    refused,    \* requests the exchange refused, with a 4xx
    filled,     \* per request, the lots its order has traded
    row,        \* per call, the quantity of its history row; 0 without a row
    told        \* history variable: requests whose answer reached the client

exchange == <<wire, accepted, refused, filled>>
vars == <<call, exchange, row, told>>

Attempts == 1..MaxAttempts
Requests == Calls \X Attempts

Waiting == {"posting", "backoff", "detail", "record"}
Ended   == {"recorded", "refused", "failed", "unrecorded", "lost"}

Init ==
    /\ call = [c \in Calls |-> [at |-> "idle", attempt |-> 0, qty |-> 0]]
    /\ wire = {}
    /\ accepted = {}
    /\ refused = {}
    /\ filled = [r \in Requests |-> 0]
    /\ row = [c \in Calls |-> 0]
    /\ told = {}

At(c, stage) == call[c].at = stage
GoTo(c, stage) == call' = [call EXCEPT ![c].at = stage]

\* The request of the call's present attempt.
Request(c) == <<c, call[c].attempt>>

-----------------------------------------------------------------------------
(* The client *)

\* An attempt is sent: the first, or the next one after the wait.
Post(c) ==
    /\ At(c, "idle") \/ At(c, "backoff")
    /\ call' = [call EXCEPT ![c].at = "posting", ![c].attempt = @ + 1]
    /\ wire' = wire \cup {<<c, call[c].attempt + 1>>}
    /\ UNCHANGED <<accepted, refused, filled, row, told>>

\* tenacity's wait: another attempt follows unless they are used up.
BackoffOneMore(c) == IF call[c].attempt <= MaxAttempts THEN "backoff" ELSE "failed"
Backoff(c) == IF call[c].attempt < MaxAttempts THEN "backoff" ELSE "failed"

Answered(c) ==
    /\ At(c, "posting")
    /\ Request(c) \in accepted
    /\ GoTo(c, "detail")
    /\ told' = told \cup {Request(c)}
    /\ UNCHANGED <<exchange, row>>

\* A refusal raises UpbitAPIError, which create_order does not retry; the policy
\* of the other requests would wait after a 429.
AfterRefusalWaits(c) == Backoff(c)
AfterRefusalUnnoticed(c) == "detail"
AfterRefusal(c) == "refused"

Refused(c) ==
    /\ At(c, "posting")
    /\ Request(c) \in refused
    /\ GoTo(c, AfterRefusal(c))
    /\ told' = told \cup {Request(c)}
    /\ UNCHANGED <<exchange, row>>

\* httpx.TimeoutException: wait and send again.
Timeout(c) ==
    /\ At(c, "posting")
    /\ GoTo(c, Backoff(c))
    /\ UNCHANGED <<exchange, row, told>>

\* Any other failure, a broken connection or a 5xx of a gateway, is raised to the
\* caller at once, whatever became of the request.
AfterFailureRefused == "refused"
AfterFailure == "failed"

ConnectionFails(c) ==
    /\ At(c, "posting")
    /\ GoTo(c, AfterFailure)
    /\ UNCHANGED <<exchange, row, told>>

\* _resolve_order_qty: the lots traded, and the volume requested when the order
\* shows none.
QtyOf(lots) == IF lots > 0 THEN lots ELSE Volume

\* The order is read once; when that fails, the answer to the POST must do, and
\* it shows no trade yet.
Detail(c) ==
    /\ At(c, "detail")
    /\ \E lots \in {filled[Request(c)], 0} :
          call' = [call EXCEPT ![c].at = "record", ![c].qty = QtyOf(lots)]
    /\ UNCHANGED <<exchange, row, told>>

Record(c) ==
    /\ At(c, "record")
    /\ row' = [row EXCEPT ![c] = call[c].qty]
    /\ GoTo(c, "recorded")
    /\ UNCHANGED <<exchange, told>>

\* No price is known, or the transaction is rolled back: it is not tried again.
AfterRollbackReads == "detail"
AfterRollback == "unrecorded"

Unrecorded(c) ==
    /\ At(c, "record")
    /\ GoTo(c, AfterRollback)
    /\ UNCHANGED <<exchange, row, told>>

\* The process dies: its calls are forgotten, their requests are not.
Crash ==
    /\ call' = [c \in Calls |-> IF call[c].at \in Waiting
                                  THEN [call[c] EXCEPT !.at = "lost"] ELSE call[c]]
    /\ UNCHANGED <<exchange, row, told>>

-----------------------------------------------------------------------------
(* The network and the exchange *)

Accept(r) ==
    /\ r \in wire
    /\ wire' = wire \ {r}
    /\ accepted' = accepted \cup {r}
    /\ UNCHANGED <<call, refused, filled, row, told>>

Refuse(r) ==
    /\ r \in wire
    /\ wire' = wire \ {r}
    /\ refused' = refused \cup {r}
    /\ UNCHANGED <<call, accepted, filled, row, told>>

Lose(r) ==
    /\ r \in wire
    /\ wire' = wire \ {r}
    /\ UNCHANGED <<call, accepted, refused, filled, row, told>>

\* A market order trades lot by lot.
Trade(r) ==
    /\ r \in accepted
    /\ filled[r] < Volume
    /\ filled' = [filled EXCEPT ![r] = @ + 1]
    /\ UNCHANGED <<call, wire, accepted, refused, row, told>>

-----------------------------------------------------------------------------

ClientStep(c) ==
    \/ Post(c) \/ Answered(c) \/ Refused(c) \/ Timeout(c) \/ ConnectionFails(c)
    \/ Detail(c) \/ Record(c) \/ Unrecorded(c)

Next ==
    \/ \E c \in Calls : ClientStep(c)
    \/ \E r \in Requests : Accept(r) \/ Refuse(r) \/ Lose(r) \/ Trade(r)
    \/ Crash

Spec == Init /\ [][Next]_vars

\* The HTTP client's timeout ends every wait for an answer, and tenacity's wait
\* is at most ten seconds.  The database, whose calls have no deadline, is assumed to
\* answer when the row is recorded.
FairSpec == Spec /\ \A c \in Calls : WF_vars(ClientStep(c))

-----------------------------------------------------------------------------
(* Properties *)

\* Every variable keeps its type; no attempt beyond stop_after_attempt is made.
TypeOK ==
    /\ call \in [Calls -> [at : {"idle"} \cup Waiting \cup Ended,
                           attempt : 0..MaxAttempts, qty : 0..Volume]]
    /\ wire \subseteq Requests
    /\ accepted \subseteq Requests
    /\ refused \subseteq Requests
    /\ filled \in [Requests -> 0..Volume]
    /\ row \in [Calls -> 0..Volume]
    /\ told \subseteq Requests

\* Once the exchange's answer has reached the client, be it an acceptance or a
\* refusal, the call sends no other request: only what timed out is repeated.
AnswerIsFinal ==
    \A c \in Calls, k \in Attempts :
        <<c, k>> \in told => k = call[c].attempt /\ call[c].at # "backoff"

\* A call refused at its first attempt has no order at the exchange and never
\* will: the callers treat an UpbitAPIError as "not traded".
RefusedMeansNoOrder ==
    \A c \in Calls :
        (At(c, "refused") /\ call[c].attempt = 1) =>
            \A k \in Attempts : <<c, k>> \notin accepted \cup wire

\* A history row is of an order that the exchange took, the one of the last
\* request sent: no earlier order of the same call is ever recorded.
RowIsOfLastOrder ==
    \A c \in Calls : row[c] > 0 => Request(c) \in accepted /\ Request(c) \in told

\* Every call that was started ends, and its caller goes on.
CallEnds == \A c \in Calls : At(c, "posting") ~> call[c].at \in Ended

\* The calls keep what OrderCall promises.
ResultOf(c) == IF At(c, "recorded") THEN "recorded"
               ELSE IF call[c].at \in Ended THEN "unrecorded" ELSE "open"
PlacedBy(c) == {k \in Attempts : <<c, k>> \in accepted}
Promise == INSTANCE OrderCall WITH placed <- [c \in Calls |-> PlacedBy(c)],
                                   result <- [c \in Calls |-> ResultOf(c)]
KeepsPromise == Promise!Spec

-----------------------------------------------------------------------------
(* What documents of the repository say, and the code does not keep *)

\* One intent to trade makes at most one order at the exchange.
OneOrderPerIntent ==
    \A r, s \in accepted : r[1] = s[1] => r = s

\* A partial or missing execution is not recorded as a whole one: when the row is
\* written, its quantity has been traded.
RecordedIsTraded ==
    [][\A c \in Calls : row'[c] # row[c] => row'[c] <= filled[Request(c)]]_vars
=============================================================================

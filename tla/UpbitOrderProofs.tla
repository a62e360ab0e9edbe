-------------------------- MODULE UpbitOrderProofs --------------------------
(***************************************************************************)
(* Proofs about UpbitOrder, for every number of calls, attempts and lots.  *)
(***************************************************************************)
EXTENDS UpbitOrder, TLAPS

(* The inductive invariant.                                                *)

\* No request is beyond the present attempt of its call.
Sent ==
    \A c \in Calls, k \in Attempts :
        <<c, k>> \in wire \cup accepted \cup refused => k <= call[c].attempt

\* The exchange takes a request, refuses it, or has not seen it.
OneFate ==
    /\ wire \cap accepted = {}
    /\ wire \cap refused = {}
    /\ accepted \cap refused = {}

\* The client has been told of no request but its last, and stopped there.
ToldLast ==
    \A c \in Calls, k \in Attempts :
        <<c, k>> \in told =>
            /\ k = call[c].attempt
            /\ call[c].at \in {"detail", "record"} \cup Ended

\* What each stage of a call knows.
KnownOf(c) ==
    /\ At(c, "idle") => call[c].attempt = 0
    /\ At(c, "backoff") => call[c].attempt < MaxAttempts
    /\ ~At(c, "idle") => call[c].attempt >= 1
    /\ call[c].at \in {"detail", "record", "recorded"} =>
          Request(c) \in accepted /\ Request(c) \in told
    /\ At(c, "refused") => Request(c) \in refused
    /\ row[c] > 0 => At(c, "recorded")
Known == \A c \in Calls : KnownOf(c)

OrderInv == TypeOK /\ Sent /\ OneFate /\ ToldLast /\ Known

-----------------------------------------------------------------------------

LEMMA OrderInit == Init => OrderInv
  BY UpbitAssumption
     DEF Init, OrderInv, TypeOK, Sent, OneFate, ToldLast, Known, KnownOf, At, Attempts, Requests,
         Waiting, Ended

\* The request of a call that has begun is one of the requests there are.
LEMMA RequestTyped ==
    ASSUME TypeOK, Known, NEW c \in Calls, ~At(c, "idle")
    PROVE  /\ Request(c) \in Requests
           /\ call[c].attempt \in Attempts
           /\ call[c].attempt >= 1
  BY UpbitAssumption DEF TypeOK, Known, KnownOf, At, Request, Requests, Attempts

\* Sending an attempt: it is a new request, and nobody has seen it.
LEMMA PostStep ==
    ASSUME OrderInv, NEW c \in Calls, Post(c)
    PROVE  OrderInv'
  <1> DEFINE k0 == call[c].attempt + 1
  <1>1. /\ k0 \in Attempts
        /\ k0 >= 1
        /\ <<c, k0>> \in Requests
        /\ call[c].attempt \in Nat
    BY UpbitAssumption DEF OrderInv, TypeOK, Known, KnownOf, Post, At, Attempts, Requests
  <1>2. /\ call' = [call EXCEPT ![c].at = "posting", ![c].attempt = k0]
        /\ wire' = wire \cup {<<c, k0>>}
        /\ UNCHANGED <<accepted, refused, filled, row, told>>
        /\ call[c].at \in {"idle", "backoff"}
    BY DEF Post, At, OrderInv, TypeOK
  <1>3. TypeOK'
    BY <1>1, <1>2 DEF OrderInv, TypeOK, Waiting, Attempts
  <1>4. /\ <<c, k0>> \notin accepted
        /\ <<c, k0>> \notin refused
    BY <1>1 DEF OrderInv, Sent
  <1>5. \A d \in Calls : /\ d # c => call'[d] = call[d]
                         /\ call'[c].attempt = k0
                         /\ call'[c].at = "posting"
    BY <1>2 DEF OrderInv, TypeOK
  <1>6. Sent'
    BY <1>1, <1>2, <1>5 DEF OrderInv, Sent, TypeOK, Attempts
  <1>7. OneFate'
    BY <1>2, <1>4 DEF OrderInv, OneFate
  <1>8. \A k \in Attempts : <<c, k>> \notin told
    BY <1>2 DEF OrderInv, ToldLast, Ended
  <1>9. ToldLast'
    BY <1>2, <1>5, <1>8 DEF OrderInv, ToldLast
  <1>10. Known'
    <2> SUFFICES ASSUME NEW d \in Calls PROVE KnownOf(d)'
      BY DEF Known
    <2>1. CASE d = c
      <3>1. row[c] \in Nat /\ ~(row[c] > 0)
        BY <1>2 DEF OrderInv, Known, KnownOf, TypeOK, At
      <3> QED
        BY <2>1, <3>1, <1>1, <1>2, <1>5 DEF KnownOf, At
    <2>2. CASE d # c
      <3>1. KnownOf(d)
        BY DEF OrderInv, Known
      <3>2. Request(d)' = Request(d)
        BY <2>2, <1>5 DEF Request
      <3> QED
        BY <2>2, <3>1, <3>2, <1>2, <1>5 DEF KnownOf, At
    <2> QED
      BY <2>1, <2>2
  <1> QED
    BY <1>3, <1>6, <1>7, <1>9, <1>10 DEF OrderInv

\* A call that waits for an answer has not been told of its request.
LEMMA NotToldYet ==
    ASSUME OrderInv, NEW c \in Calls, At(c, "posting")
    PROVE  Request(c) \notin told
  <1>1. call[c].attempt \in Attempts
    BY RequestTyped DEF OrderInv, At
  <1> QED
    BY <1>1 DEF OrderInv, ToldLast, Request, At, Ended

\* A step of a call that has begun, within its present attempt.
Moves(c) ==
    /\ ~At(c, "idle")
    /\ call'[c].at \in Waiting \cup Ended
    /\ call'[c].attempt = call[c].attempt
    /\ call'[c].qty \in 0..Volume
    /\ \A d \in Calls : d # c => call'[d] = call[d]
    /\ call' \in [Calls -> [at : {"idle"} \cup Waiting \cup Ended,
                            attempt : 0..MaxAttempts, qty : 0..Volume]]
    /\ UNCHANGED exchange

LEMMA MovesTo ==
    ASSUME OrderInv, NEW c \in Calls, ~At(c, "idle"), UNCHANGED exchange,
           NEW stage \in Waiting \cup Ended, GoTo(c, stage)
    PROVE  Moves(c) /\ call'[c].at = stage
  BY DEF OrderInv, TypeOK, GoTo, Moves

\* A call that moves to another stage of the same attempt, and what it must know
\* of its request there.
LEMMA MoveStep ==
    ASSUME OrderInv, NEW c \in Calls, Moves(c),
           told' = told \/ told' = told \cup {Request(c)},
           Request(c) \in told' => call'[c].at \in {"detail", "record"} \cup Ended,
           call'[c].at \in {"detail", "record", "recorded"} =>
               Request(c) \in accepted /\ Request(c) \in told',
           call'[c].at = "refused" => Request(c) \in refused,
           call'[c].at = "backoff" => call[c].attempt < MaxAttempts,
           \/ row' = row /\ ~At(c, "recorded")
           \/ /\ call'[c].at = "recorded"
              /\ \E q \in 0..Volume : row' = [row EXCEPT ![c] = q]
    PROVE  OrderInv'
  <1>1. /\ Request(c) \in Requests
        /\ call[c].attempt \in Attempts
        /\ call[c].attempt >= 1
    BY RequestTyped DEF OrderInv, Moves
  <1>2. /\ UNCHANGED <<wire, accepted, refused, filled>>
        /\ \A d \in Calls : call'[d].attempt = call[d].attempt
        /\ \A d \in Calls : d # c => call'[d] = call[d]
    BY DEF OrderInv, TypeOK, exchange, Moves
  <1>3. TypeOK'
    <2>1. call' \in [Calls -> [at : {"idle"} \cup Waiting \cup Ended,
                              attempt : 0..MaxAttempts, qty : 0..Volume]]
      BY DEF Moves
    <2>2. row' \in [Calls -> 0..Volume]
      BY DEF OrderInv, TypeOK
    <2>3. told' \subseteq Requests
      BY <1>1 DEF OrderInv, TypeOK
    <2> QED
      BY <1>2, <2>1, <2>2, <2>3 DEF OrderInv, TypeOK
  <1>4. Sent'
    BY <1>2 DEF OrderInv, Sent
  <1>5. OneFate'
    BY <1>2 DEF OrderInv, OneFate
  <1>6. ToldLast'
    <2> SUFFICES ASSUME NEW d \in Calls, NEW k \in Attempts, <<d, k>> \in told'
                 PROVE  /\ k = call'[d].attempt
                        /\ call'[d].at \in {"detail", "record"} \cup Ended
      BY DEF ToldLast
    <2>1. CASE <<d, k>> = Request(c)
      BY <2>1, <1>2 DEF Request
    <2>2. CASE <<d, k>> # Request(c)
      <3>1. <<d, k>> \in told
        BY <2>2
      <3>2. k = call[d].attempt
        BY <3>1 DEF OrderInv, ToldLast
      <3>3. d # c
        BY <2>2, <3>2 DEF Request
      <3> QED
        BY <3>1, <3>3, <1>2 DEF OrderInv, ToldLast
    <2> QED
      BY <2>1, <2>2
  <1>7. Known'
    <2> SUFFICES ASSUME NEW d \in Calls PROVE KnownOf(d)'
      BY DEF Known
    <2>1. Request(d)' = Request(d)
      BY <1>2 DEF Request
    <2>2. CASE d = c
      <3>1. call'[c].at # "idle"
        BY DEF Moves, Waiting, Ended
      <3>2. row'[c] > 0 => call'[c].at = "recorded"
        BY DEF OrderInv, Known, KnownOf, TypeOK, At
      <3>3. call'[c].at = "backoff" => call'[c].attempt < MaxAttempts
        BY <1>2
      <3>4. call'[c].attempt >= 1
        BY <1>1, <1>2
      <3>5. call'[c].at \in {"detail", "record", "recorded"} =>
               Request(c)' \in accepted' /\ Request(c)' \in told'
        BY <2>1, <2>2, <1>2
      <3>6. call'[c].at = "refused" => Request(c)' \in refused'
        BY <2>1, <2>2, <1>2
      <3> QED
        BY <2>2, <3>1, <3>2, <3>3, <3>4, <3>5, <3>6, <1>2 DEF KnownOf, At
    <2>3. CASE d # c
      <3>1. row'[d] = row[d]
        BY <2>3 DEF OrderInv, TypeOK
      <3>2. KnownOf(d)
        BY DEF OrderInv, Known
      <3>3. Request(d) \in told => Request(d) \in told'
        OBVIOUS
      <3> QED
        BY <2>1, <2>3, <3>1, <3>2, <3>3, <1>2 DEF KnownOf, At
    <2> QED
      BY <2>2, <2>3
  <1> QED
    BY <1>3, <1>4, <1>5, <1>6, <1>7 DEF OrderInv

\* The steps of the client keep the invariant.
LEMMA ClientKeeps ==
    ASSUME OrderInv, NEW c \in Calls, ClientStep(c)
    PROVE  OrderInv'
  <1>1. CASE Post(c)
    BY <1>1, PostStep
  <1>2. CASE Answered(c)
    <2>1. Moves(c) /\ call'[c].at = "detail"
      BY <1>2, MovesTo DEF Answered, At, Waiting
    <2>2. Request(c) \in told' /\ Request(c) \in accepted /\ row' = row
      BY <1>2 DEF Answered
    <2> QED
      BY <1>2, <2>1, <2>2, MoveStep DEF Answered, At
  <1>3. CASE Refused(c)
    <2>1. Moves(c) /\ call'[c].at = "refused"
      BY <1>3, MovesTo DEF Refused, AfterRefusal, At, Ended
    <2> QED
      BY <1>3, <2>1, MoveStep DEF Refused, At, Ended
  <1>4. CASE Timeout(c)
    <2>1. /\ Backoff(c) \in {"backoff", "failed"}
          /\ Backoff(c) = "backoff" => call[c].attempt < MaxAttempts
      BY DEF Backoff
    <2>2. Moves(c) /\ call'[c].at = Backoff(c)
      BY <1>4, <2>1, MovesTo DEF Timeout, At, Waiting, Ended
    <2>3. Request(c) \notin told
      BY <1>4, NotToldYet DEF Timeout
    <2> QED
      BY <1>4, <2>1, <2>2, <2>3, MoveStep DEF Timeout, At
  <1>5. CASE ConnectionFails(c)
    <2>1. Moves(c) /\ call'[c].at = "failed"
      BY <1>5, MovesTo DEF ConnectionFails, AfterFailure, At, Ended
    <2> QED
      BY <1>5, <2>1, MoveStep DEF ConnectionFails, At, Ended
  <1>6. CASE Detail(c)
    <2>1. PICK lots \in {filled[Request(c)], 0} :
             call' = [call EXCEPT ![c].at = "record", ![c].qty = QtyOf(lots)]
      BY <1>6 DEF Detail
    <2>2. Request(c) \in Requests
      BY <1>6, RequestTyped DEF Detail, At, OrderInv
    <2>3. QtyOf(lots) \in 0..Volume
      BY <2>2, UpbitAssumption DEF QtyOf, OrderInv, TypeOK
    <2>4. Moves(c) /\ call'[c].at = "record"
      <3>1. /\ call'[c].at = "record"
            /\ call'[c].attempt = call[c].attempt
            /\ call'[c].qty = QtyOf(lots)
            /\ \A d \in Calls : d # c => call'[d] = call[d]
        BY <2>1 DEF OrderInv, TypeOK
      <3>2. call' \in [Calls -> [at : {"idle"} \cup Waiting \cup Ended,
                                attempt : 0..MaxAttempts, qty : 0..Volume]]
        BY <2>1, <2>3 DEF OrderInv, TypeOK, Waiting
      <3> QED
        BY <1>6, <2>3, <3>1, <3>2 DEF Detail, Moves, At, Waiting
    <2>5. Request(c) \in accepted /\ Request(c) \in told
      BY <1>6 DEF Detail, At, OrderInv, Known, KnownOf
    <2> QED
      BY <1>6, <2>4, <2>5, MoveStep DEF Detail, At
  <1>7. CASE Record(c)
    <2>1. Moves(c) /\ call'[c].at = "recorded"
      BY <1>7, MovesTo DEF Record, At, Ended
    <2>2. Request(c) \in accepted /\ Request(c) \in told
      BY <1>7 DEF Record, At, OrderInv, Known, KnownOf
    <2>3. \E q \in 0..Volume : row' = [row EXCEPT ![c] = q]
      BY <1>7 DEF Record, OrderInv, TypeOK
    <2> QED
      BY <1>7, <2>1, <2>2, <2>3, MoveStep DEF Record, Ended
  <1>8. CASE Unrecorded(c)
    <2>1. Moves(c) /\ call'[c].at = "unrecorded"
      BY <1>8, MovesTo DEF Unrecorded, AfterRollback, At, Ended
    <2> QED
      BY <1>8, <2>1, MoveStep DEF Unrecorded, At, Ended
  <1> QED
    BY <1>1, <1>2, <1>3, <1>4, <1>5, <1>6, <1>7, <1>8 DEF ClientStep

\* A restart ends the calls that are waiting, and nothing else.
LEMMA CrashKeeps ==
    ASSUME OrderInv, Crash
    PROVE  OrderInv'
  <1>1. /\ UNCHANGED <<wire, accepted, refused, filled, row, told>>
        /\ \A c \in Calls : /\ call'[c].attempt = call[c].attempt
                            /\ call'[c].qty = call[c].qty
                            /\ call'[c].at = IF call[c].at \in Waiting THEN "lost"
                                                                      ELSE call[c].at
    BY DEF Crash, exchange, OrderInv, TypeOK
  <1>2. call' \in [Calls -> [at : {"idle"} \cup Waiting \cup Ended,
                            attempt : 0..MaxAttempts, qty : 0..Volume]]
    BY DEF Crash, OrderInv, TypeOK, Ended
  <1>3. TypeOK'
    BY <1>1, <1>2 DEF OrderInv, TypeOK
  <1>4. Sent' /\ OneFate'
    BY <1>1 DEF OrderInv, Sent, OneFate
  <1>5. ToldLast'
    BY <1>1 DEF OrderInv, ToldLast, Waiting, Ended
  <1>6. Known'
    <2> SUFFICES ASSUME NEW c \in Calls PROVE KnownOf(c)'
      BY DEF Known
    <2>1. KnownOf(c)
      BY DEF OrderInv, Known
    <2> QED
      BY <1>1, <2>1 DEF KnownOf, At, Request, Waiting
  <1> QED
    BY <1>3, <1>4, <1>5, <1>6 DEF OrderInv

\* The exchange and the network keep the invariant.
LEMMA ExchangeKeeps ==
    ASSUME OrderInv, NEW r \in Requests, Accept(r) \/ Refuse(r) \/ Lose(r) \/ Trade(r)
    PROVE  OrderInv'
  <1>1. /\ UNCHANGED <<call, row, told>>
        /\ wire' \subseteq wire
        /\ accepted \subseteq accepted'
        /\ refused \subseteq refused'
        /\ wire' \cup accepted' \cup refused' \subseteq wire \cup accepted \cup refused
    BY DEF Accept, Refuse, Lose, Trade
  <1>2. TypeOK'
    <2>1. filled' \in [Requests -> 0..Volume]
      BY UpbitAssumption DEF Accept, Refuse, Lose, Trade, OrderInv, TypeOK
    <2> QED
      BY <1>1, <2>1 DEF OrderInv, TypeOK
  <1>3. Sent'
    BY <1>1 DEF OrderInv, Sent
  <1>4. OneFate'
    BY DEF OrderInv, OneFate, Accept, Refuse, Lose, Trade
  <1>5. ToldLast'
    BY <1>1 DEF OrderInv, ToldLast
  <1>6. Known'
    BY <1>1 DEF OrderInv, Known, KnownOf, At, Request
  <1> QED
    BY <1>2, <1>3, <1>4, <1>5, <1>6 DEF OrderInv

LEMMA OrderStep == OrderInv /\ [Next]_vars => OrderInv'
  <1> SUFFICES ASSUME OrderInv, [Next]_vars PROVE OrderInv'
    OBVIOUS
  <1>1. CASE \E c \in Calls : ClientStep(c)
    BY <1>1, ClientKeeps
  <1>2. CASE \E r \in Requests : Accept(r) \/ Refuse(r) \/ Lose(r) \/ Trade(r)
    BY <1>2, ExchangeKeeps
  <1>3. CASE Crash
    BY <1>3, CrashKeeps
  <1>4. CASE UNCHANGED vars
    BY <1>4 DEF vars, exchange, OrderInv, TypeOK, Sent, OneFate, ToldLast, Known, KnownOf,
                At, Request
  <1> QED
    BY <1>1, <1>2, <1>3, <1>4 DEF Next

-----------------------------------------------------------------------------
(* The theorems.                                                           *)

\* In every reachable state a call knows of its requests what OrderInv says.
THEOREM OrderCorrect == Spec => []OrderInv
  BY OrderInit, OrderStep, PTL DEF Spec

\* Every variable keeps its type, and no call makes more than its attempts.
COROLLARY OrderTypeOKCorrect == Spec => []TypeOK
  <1>1. OrderInv => TypeOK
    BY DEF OrderInv
  <1> QED
    BY <1>1, OrderCorrect, PTL

\* Once the exchange's answer has reached the client the call sends nothing more.
THEOREM AnswerIsFinalCorrect == Spec => []AnswerIsFinal
  <1>1. OrderInv => AnswerIsFinal
    BY DEF OrderInv, ToldLast, AnswerIsFinal, Ended
  <1> QED
    BY <1>1, OrderCorrect, PTL

\* A call refused at its first attempt has no order and never will.
THEOREM RefusedMeansNoOrderCorrect == Spec => []RefusedMeansNoOrder
  <1>1. OrderInv => RefusedMeansNoOrder
    <2> SUFFICES ASSUME OrderInv, NEW c \in Calls, At(c, "refused"), call[c].attempt = 1,
                        NEW k \in Attempts, <<c, k>> \in accepted \cup wire
                 PROVE  FALSE
      BY DEF RefusedMeansNoOrder
    <2>1. k = 1
      BY DEF OrderInv, Sent, Attempts
    <2>2. <<c, 1>> \in refused
      BY DEF OrderInv, Known, KnownOf, Request
    <2> QED
      BY <2>1, <2>2 DEF OrderInv, OneFate
  <1> QED
    BY <1>1, OrderCorrect, PTL

\* A history row is of the order of the last request sent.
THEOREM RowIsOfLastOrderCorrect == Spec => []RowIsOfLastOrder
  <1>1. OrderInv => RowIsOfLastOrder
    BY DEF OrderInv, Known, KnownOf, RowIsOfLastOrder, At
  <1> QED
    BY <1>1, OrderCorrect, PTL

-----------------------------------------------------------------------------
(* UpbitOrder implements OrderCall: the attempts that became orders are     *)
(* placed, and a call's stage is its result.                               *)

Placed == [c \in Calls |-> PlacedBy(c)]
Result == [c \in Calls |-> ResultOf(c)]

\* A call whose stage changes, or not, with no order placed in the step.
LEMMA SamePlaced ==
    ASSUME accepted' = accepted
    PROVE  Placed' = Placed
  BY DEF Placed, PlacedBy

\* A step of one call that leaves the others' stages alone and is still open.
LEMMA OpenStep ==
    ASSUME OrderInv, NEW c \in Calls,
           \A d \in Calls : d # c => call'[d] = call[d],
           call[c].at \notin Ended, call'[c].at \notin Ended
    PROVE  Result' = Result
  BY DEF Result, ResultOf, At, Ended

LEMMA EndStep ==
    ASSUME OrderInv, NEW c \in Calls,
           \A d \in Calls : d # c => call'[d] = call[d],
           call[c].at \notin Ended, call'[c].at \in Ended \ {"recorded"},
           accepted' = accepted
    PROVE  Promise!EndUnrecorded({c})
  <1>1. Result[c] = "open"
    BY DEF Result, ResultOf, At, Ended
  <1>2. Result' = [d \in Calls |-> IF d \in {c} THEN "unrecorded" ELSE Result[d]]
    BY DEF Result, ResultOf, At, Ended
  <1> QED
    BY <1>1, <1>2, SamePlaced DEF Promise!EndUnrecorded, Result, Placed

LEMMA PromiseStep ==
    ASSUME OrderInv, [Next]_vars
    PROVE  [Promise!Next]_(Promise!vars)
  <1>1. ASSUME NEW c \in Calls, Post(c)
        PROVE  Placed' = Placed /\ Result' = Result
    <2>1. /\ \A d \in Calls : d # c => call'[d] = call[d]
          /\ call'[c].at = "posting"
      BY <1>1 DEF Post, OrderInv, TypeOK
    <2> QED
      BY <1>1, <2>1, OpenStep, SamePlaced DEF Post, At, Ended
  <1>2. ASSUME NEW c \in Calls, Answered(c) \/ Detail(c)
        PROVE  Placed' = Placed /\ Result' = Result
    <2>1. /\ \A d \in Calls : d # c => call'[d] = call[d]
          /\ call'[c].at \in {"detail", "record"}
      BY <1>2 DEF Answered, Detail, GoTo, OrderInv, TypeOK
    <2> QED
      BY <1>2, <2>1, OpenStep, SamePlaced DEF Answered, Detail, At, Ended, exchange
  <1>3. ASSUME NEW c \in Calls, Refused(c) \/ ConnectionFails(c) \/ Unrecorded(c)
        PROVE  Promise!EndUnrecorded({c})
    <2>1. /\ \A d \in Calls : d # c => call'[d] = call[d]
          /\ call'[c].at \in {"refused", "failed", "unrecorded"}
      BY <1>3 DEF Refused, ConnectionFails, Unrecorded, GoTo, AfterRefusal, AfterFailure,
                  AfterRollback, OrderInv, TypeOK
    <2> QED
      BY <1>3, <2>1, EndStep DEF Refused, ConnectionFails, Unrecorded, At, Ended, exchange
  <1>4. ASSUME NEW c \in Calls, Timeout(c)
        PROVE  \/ Promise!EndUnrecorded({c})
               \/ Placed' = Placed /\ Result' = Result
    <2>1. /\ \A d \in Calls : d # c => call'[d] = call[d]
          /\ call'[c].at \in {"backoff", "failed"}
      BY <1>4 DEF Timeout, GoTo, Backoff, OrderInv, TypeOK
    <2>2. /\ accepted' = accepted
          /\ call[c].at \notin Ended
      BY <1>4 DEF Timeout, At, Ended, exchange
    <2>3. CASE call'[c].at = "backoff"
      BY <2>1, <2>2, <2>3, OpenStep, SamePlaced DEF Ended
    <2>4. CASE call'[c].at = "failed"
      BY <2>1, <2>2, <2>4, EndStep DEF Ended
    <2> QED
      BY <2>1, <2>3, <2>4
  <1>5. ASSUME NEW c \in Calls, Record(c)
        PROVE  Promise!Record(c)
    <2>1. /\ \A d \in Calls : d # c => call'[d] = call[d]
          /\ call'[c].at = "recorded"
          /\ call[c].at = "record"
          /\ accepted' = accepted
      BY <1>5 DEF Record, GoTo, At, exchange, OrderInv, TypeOK
    <2>2. Result[c] = "open"
      BY <2>1 DEF Result, ResultOf, At, Ended
    <2>3. Placed[c] # {}
      <3>1. /\ Request(c) \in accepted
            /\ call[c].attempt \in Attempts
        BY <2>1, RequestTyped DEF OrderInv, Known, KnownOf, At
      <3> QED
        BY <3>1 DEF Placed, PlacedBy, Request
    <2>4. Result' = [Result EXCEPT ![c] = "recorded"]
      BY <2>1 DEF Result, ResultOf, At, Ended
    <2> QED
      BY <2>1, <2>2, <2>3, <2>4, SamePlaced DEF Promise!Record, Placed, Result
  <1>6. ASSUME NEW r \in Requests, Accept(r)
        PROVE  \E c \in Calls : Promise!Place(c)
    <2>1. PICK c \in Calls, k \in Attempts : r = <<c, k>>
      BY DEF Requests
    <2>2. k \in 1..MaxAttempts \ Placed[c]
      BY <1>6, <2>1 DEF Accept, OrderInv, OneFate, Placed, PlacedBy, Attempts
    <2>3. Placed' = [Placed EXCEPT ![c] = @ \cup {k}]
      BY <1>6, <2>1 DEF Accept, Placed, PlacedBy
    <2>4. Result' = Result
      BY <1>6 DEF Accept, Result, ResultOf, At
    <2> QED
      BY <2>2, <2>3, <2>4 DEF Promise!Place, Placed, Result
  <1>7. ASSUME NEW r \in Requests, Refuse(r) \/ Lose(r) \/ Trade(r)
        PROVE  Placed' = Placed /\ Result' = Result
    BY <1>7 DEF Refuse, Lose, Trade, Placed, PlacedBy, Result, ResultOf, At
  <1>8. ASSUME Crash
        PROVE  \E C \in SUBSET Calls : Promise!EndUnrecorded(C)
    <2> DEFINE W == {c \in Calls : call[c].at \in Waiting}
    <2>1. \A c \in W : Result[c] = "open"
      BY DEF Result, ResultOf, At, Waiting, Ended
    <2>2. \A c \in Calls : call'[c].at = IF c \in W THEN "lost" ELSE call[c].at
      BY <1>8 DEF Crash, OrderInv, TypeOK
    <2>3. Result' = [c \in Calls |-> IF c \in W THEN "unrecorded" ELSE Result[c]]
      BY <2>2 DEF Result, ResultOf, At, Ended
    <2>4. Placed' = Placed
      BY <1>8, SamePlaced DEF Crash, exchange
    <2> QED
      BY <2>1, <2>3, <2>4 DEF Promise!EndUnrecorded, Placed, Result
  <1>9. CASE UNCHANGED vars
    BY <1>9 DEF vars, exchange, Promise!vars, PlacedBy, ResultOf, At
  <1>10. Placed' = Placed /\ Result' = Result => UNCHANGED Promise!vars
    BY DEF Promise!vars, Placed, Result
  <1> QED
    BY <1>1, <1>2, <1>3, <1>4, <1>5, <1>6, <1>7, <1>8, <1>9, <1>10
       DEF Next, ClientStep, Promise!Next

LEMMA PromiseInit == Init => Promise!Init
  BY DEF Init, Promise!Init, PlacedBy, ResultOf, At, Ended

\* create_order with its retries, the order's detail and its record keep what
\* OrderCall promises: at most one order for each attempt, and one end, which is a
\* history row only after an order was placed.
THEOREM KeepsPromiseCorrect == Spec => KeepsPromise
  <1>1. OrderInv /\ [Next]_vars => [Promise!Next]_(Promise!vars)
    BY PromiseStep
  <1> QED
    BY <1>1, PromiseInit, OrderCorrect, PTL DEF Spec, KeepsPromise, Promise!Spec
=============================================================================

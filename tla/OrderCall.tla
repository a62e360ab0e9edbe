----------------------------- MODULE OrderCall -----------------------------
(***************************************************************************)
(* What the code that trades live may rely on when it calls create_order   *)
(* and records the result: abstract specification of UpbitOrder.           *)
(*                                                                         *)
(* A call may leave several orders at the exchange, even after it ended,   *)
(* but never more than its attempts.  It ends once, with a history row only *)
(* if an order of its own was placed before.                               *)
(***************************************************************************)
EXTENDS Naturals

CONSTANTS
    Calls,        \* calls of create_order, each for one intent to trade
    MaxAttempts   \* attempts that a call may make

VARIABLES
    placed,   \* per call, the attempts that became orders at the exchange
    result    \* per call, "open" until it ends "recorded" or "unrecorded"

vars == <<placed, result>>

Init ==
    /\ placed = [c \in Calls |-> {}]
    /\ result = [c \in Calls |-> "open"]

\* The exchange executes one more attempt.
Place(c) ==
    /\ \E k \in 1..MaxAttempts \ placed[c] :
          placed' = [placed EXCEPT ![c] = @ \cup {k}]
    /\ UNCHANGED result

Record(c) ==
    /\ result[c] = "open"
    /\ placed[c] # {}
    /\ result' = [result EXCEPT ![c] = "recorded"]
    /\ UNCHANGED placed

\* Failed, unresolved, or cut short by a restart, which ends every open call.
EndUnrecorded(C) ==
    /\ \A c \in C : result[c] = "open"
    /\ result' = [c \in Calls |-> IF c \in C THEN "unrecorded" ELSE result[c]]
    /\ UNCHANGED placed

Next ==
    \/ \E c \in Calls : Place(c) \/ Record(c)
    \/ \E C \in SUBSET Calls : EndUnrecorded(C)

Spec == Init /\ [][Next]_vars
=============================================================================

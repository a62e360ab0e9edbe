------------------------------- MODULE Ledger -------------------------------
(***************************************************************************)
(* What paper trading promises: a fill moves cash into a position or back, *)
(* all at once, and a reset starts over.  Abstract specification of        *)
(* PaperLedger.                                                            *)
(***************************************************************************)
EXTENDS Naturals

CONSTANTS
    Rows,      \* position rows
    Default    \* cash after a reset

VARIABLES
    cash,
    lots       \* per row, the quantity held in it

vars == <<cash, lots>>

Init ==
    /\ cash = Default
    /\ lots = [r \in Rows |-> 0]

\* Nobody spends more than there is.
Buy(r, n) ==
    /\ cash' = cash - n
    /\ lots' = [lots EXCEPT ![r] = @ + n]

Sell(r, n) ==
    /\ cash' = cash + n
    /\ lots' = [lots EXCEPT ![r] = @ - n]

Reset ==
    /\ cash' = Default
    /\ lots' = [r \in Rows |-> 0]

Next ==
    \/ \E r \in Rows, n \in 1..cash : Buy(r, n)
    \/ \E r \in Rows : \E n \in 1..lots[r] : Sell(r, n)
    \/ Reset

Spec == Init /\ [][Next]_vars
=============================================================================

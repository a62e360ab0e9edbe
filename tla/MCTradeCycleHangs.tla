------------------------- MODULE MCTradeCycleHangs -------------------------
(***************************************************************************)
(* Constants for checking TradeCycleHangs with TLC.                        *)
(***************************************************************************)
EXTENDS TradeCycleHangs

BuyAnswers == {[dec |-> "BUY", conf |-> 2, weight |-> 1]}
=============================================================================

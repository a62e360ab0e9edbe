---------------------------- MODULE MCTradeCycle ----------------------------
(***************************************************************************)
(* Constants for checking TradeCycle with TLC.                             *)
(***************************************************************************)
EXTENDS TradeCycle, TLC

\* A confident BUY of two weights, a BUY too unsure to be executed, and a SELL.
Buy     == [dec |-> "BUY",  conf |-> 2, weight |-> 1]
BigBuy  == [dec |-> "BUY",  conf |-> 2, weight |-> 3]
WeakBuy == [dec |-> "BUY",  conf |-> 1, weight |-> 1]
Sell    == [dec |-> "SELL", conf |-> 2, weight |-> 1]

AllAnswers  == {Buy, BigBuy, WeakBuy, Sell}
BuyAnswers  == {Buy}
BuySell     == {Buy, Sell}
BuyWeakSell == {Buy, WeakBuy, Sell}

SymbolSymmetry == Permutations(Symbols)
=============================================================================

---------------------------- MODULE MCUpbitOrder ----------------------------
(***************************************************************************)
(* Constants for checking UpbitOrder with TLC.                             *)
(***************************************************************************)
EXTENDS UpbitOrder, TLC

CallSymmetry == Permutations(Calls)
=============================================================================

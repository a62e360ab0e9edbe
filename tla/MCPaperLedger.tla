--------------------------- MODULE MCPaperLedger ---------------------------
(***************************************************************************)
(* Constants for checking PaperLedger with TLC.                            *)
(***************************************************************************)
EXTENDS PaperLedger, TLC

LedgerSymmetry == Permutations(Writers) \cup Permutations(Symbols)
=============================================================================

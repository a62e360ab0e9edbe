------------------------------- MODULE MCChat -------------------------------
(***************************************************************************)
(* Constants for checking Chat with TLC.                                   *)
(***************************************************************************)
EXTENDS Chat

CONSTANT m   \* a request
=============================================================================

-------------------------- MODULE MCAccuracyWorker --------------------------
(***************************************************************************)
(* Constants for checking AccuracyWorker with TLC.                         *)
(***************************************************************************)
EXTENDS AccuracyWorker

CONSTANTS a, b, c, delisted   \* rows
=============================================================================

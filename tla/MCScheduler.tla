---------------------------- MODULE MCScheduler -----------------------------
(***************************************************************************)
(* Constants for checking Scheduler with TLC.                              *)
(***************************************************************************)
EXTENDS Scheduler

CONSTANTS web, chat

\* A rule before an edit, after it beside another one, and gone.
daily == [name |-> "daily", times |-> <<0>>, text |-> "portfolio"]
moved == [name |-> "daily", times |-> <<1>>, text |-> "signals"]
night == [name |-> "night", times |-> <<0>>, text |-> "news"]

MCAlertSettings == {<<>>, <<daily>>, <<moved, night>>, Bad}
=============================================================================

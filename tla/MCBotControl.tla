---------------------------- MODULE MCBotControl ----------------------------
(***************************************************************************)
(* Constants for checking BotControl with TLC.                             *)
(***************************************************************************)
EXTENDS BotControl

CONSTANT web
=============================================================================

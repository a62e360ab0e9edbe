------------------------- MODULE MCProviderRouter --------------------------
(***************************************************************************)
(* Constants for checking ProviderRouter with TLC.                         *)
(***************************************************************************)
EXTENDS ProviderRouter

CONSTANTS gemini, openai, analysis, precheck, briefing

MCPriority  == <<gemini, openai>>
MCPreferred == [c \in Calls |-> IF c = precheck THEN openai ELSE "none"]
=============================================================================

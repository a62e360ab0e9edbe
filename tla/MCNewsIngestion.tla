-------------------------- MODULE MCNewsIngestion --------------------------
(***************************************************************************)
(* Constants for checking NewsIngestion with TLC.                          *)
(***************************************************************************)
EXTENDS NewsIngestion

CONSTANTS rss, api, off   \* sources

MCMaxArticle == [s \in Sources |-> IF s = rss THEN 2 ELSE 1]
=============================================================================

------------------------ MODULE MCNewsIngestionHangs ------------------------
(***************************************************************************)
(* Constants for checking NewsIngestionHangs with TLC.                     *)
(***************************************************************************)
EXTENDS NewsIngestionHangs

CONSTANTS rss, api, off   \* sources

MCMaxArticle == [s \in Sources |-> IF s = rss THEN 2 ELSE 1]
=============================================================================

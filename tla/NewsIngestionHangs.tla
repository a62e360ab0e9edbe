------------------------- MODULE NewsIngestionHangs -------------------------
(***************************************************************************)
(* NewsIngestion with calls that never end: the feeds, the APIs and        *)
(* OpenSearch have timeouts, the providers that translate and embed have   *)
(* none, and max_instances=1 holds back every later run of the job.  Only  *)
(* a restart ends such a call.                                             *)
(***************************************************************************)
EXTENDS NewsIngestion

VARIABLE hung   \* the runs whose present call never ends

hangVars == <<vars, hung>>

HangInit == Init /\ hung = {}

\* The stages at which a provider is called.
CallsProvider(r) == At(r, "embed") \/ At(r, "backfill")

Hang(r) ==
    /\ CallsProvider(r)
    /\ hung' = hung \cup {r}
    /\ UNCHANGED vars

\* A run that hangs takes no step; everybody else goes on.
GoesOn(r) == r \notin hung /\ RunStep(r) /\ UNCHANGED hung
Starts(r) == Start(r) /\ UNCHANGED hung

Restart == Crash /\ hung' = {}

HangNext ==
    \/ \E r \in Runs : GoesOn(r) \/ Starts(r)
    \/ \E s \in Sources : Publish(s) /\ UNCHANGED hung
    \/ RecordAges /\ UNCHANGED hung
    \/ Restart
    \/ \E r \in Runs \ hung : Hang(r)

\* The event loop resumes a run when its call has ended, and the job, which is due again
\* and again, starts when its last run has.
HangSpec ==
    /\ HangInit /\ [][HangNext]_hangVars
    /\ \A r \in Runs : WF_hangVars(GoesOn(r))
    /\ \A r \in Runs \ Checks : WF_hangVars(Starts(r))

-----------------------------------------------------------------------------
(* Properties *)

\* Failures leave no lasting trace: without other runs, and while one run can embed
\* and fill in what the sources list, the status API finds the index healthy again and
\* again, unless a call of the job hangs and the process is not restarted.
Heals == []<>(RagStatus = "healthy") \/ <>[](hung # {})
=============================================================================

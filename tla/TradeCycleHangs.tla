-------------------------- MODULE TradeCycleHangs --------------------------
(***************************************************************************)
(* TradeCycle with calls that never end: the clients of the providers and  *)
(* the sessions of the database are made without a deadline, and nothing   *)
(* waits for them with one.  Only a restart ends such a call, and          *)
(* max_instances=1 holds back every later run of a job that has one.  That *)
(* the cycles of a request may hang as well is in TradeCycle already:      *)
(* nothing makes them go on.                                               *)
(***************************************************************************)
EXTENDS TradeCycle

\* A stage of its own, from which no step of the job leads on.
Hung == At(Sched, "hung")

Hang ==
    /\ ~At(Sched, "idle") /\ ~Hung
    /\ cyc' = [cyc EXCEPT ![Sched] = [Idle EXCEPT !.at = "hung"]]
    /\ UNCHANGED <<running, settings, logs, market, job, lq, ghosts>>

HangNext == Next \/ Hang

\* The event loop resumes the job when its call has ended.
HangSpec == Init /\ [][HangNext]_vars /\ WF_vars(JobStep)

-----------------------------------------------------------------------------
(* Properties *)

\* Every run of the job comes to its end, and lets the next one start, unless a call of
\* its own hangs: requests that never end, liquidations and settings do not hold it up,
\* and neither does an item of it that fails.
JobReturns == ~At(Sched, "idle") ~> (At(Sched, "idle") \/ Hung)

-----------------------------------------------------------------------------
(* What documents of the repository say, and the code does not keep *)

\* No call keeps a run for ever: a provider is given up at its deadline.
JobAlwaysReturns == ~At(Sched, "idle") ~> At(Sched, "idle")
=============================================================================

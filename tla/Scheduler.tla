----------------------------- MODULE Scheduler ------------------------------
(***************************************************************************)
(* The job registry (core/scheduler.py) and what changes it: the start of  *)
(* the process, PUT /configs and the approval of a setting that the chat   *)
(* proposed (api/routes/configs.py, api/routes/chat.py).                   *)
(*                                                                         *)
(* A writer commits a setting and then reloads the jobs: it reads the      *)
(* settings one by one, each read an await, and applies them all at once.  *)
(* APScheduler keeps the jobs in memory.  A cron job fires when the wall   *)
(* clock says so, an interval job so long after it was (re)scheduled; it   *)
(* runs one instance of a job at a time and skips what comes due meanwhile.*)
(* Three jobs stand for their kind: the news ingestion for the cron jobs   *)
(* (briefing, sentiment, accuracy and snapshot are scheduled alike), the   *)
(* autonomous analysis, which is the only interval job, and the Slack      *)
(* alerts, whose jobs come and go with the rules.                          *)
(***************************************************************************)
EXTENDS Naturals, Sequences, SequencesExt

CONSTANTS
    Savers,         \* those who save settings, each one request at a time
    Approvers,      \* those that approve what the chat proposed
    NewsIntervals,  \* values of news_interval, in slots
    AutoIntervals,  \* values of autonomous_ai_interval, in slots
    AlertSettings,  \* values of slack_portfolio_alert_settings: sequences of rules, or Bad
    Bad,            \* stored JSON that is no object
    Day,            \* the number of slots of the clock
    MaxCrashes      \* bound: restarts of the process

ASSUME SchedulerAssumption ==
    /\ NewsIntervals \cup AutoIntervals \subseteq Nat \ {0}
    /\ Day \in Nat \ {0}
    /\ MaxCrashes \in Nat
    /\ \A a \in AlertSettings \ {Bad} :
           a \in Seq(Range(a)) /\ \A rule \in Range(a) : rule.times \in Seq(0..(Day - 1))
    /\ "boot" \notin Savers
    /\ Approvers \subseteq Savers

VARIABLES
    stored,     \* the settings in system_configs
    load,       \* per loader, the setting it reads next and what it has read
    jobs,       \* the registry: per job id, when it fires and what it says
    due,        \* jobs whose time has come
    running,    \* jobs with an instance that runs
    now,        \* the slot of the wall clock
    up,         \* whether the scheduler has been started
    current,    \* history: nothing was saved since the load that was applied last began
    crashes     \* restarts

vars == <<stored, load, jobs, due, running, now, up, current, crashes>>

\* The ids of the jobs that are always there.
News == <<"market_news_ingestion_hourly", 0>>
Analyst == <<"autonomous_ai_analyst_watchlist", 0>>

Slots    == 0..(Day - 1)
Loaders  == Savers \cup {"boot"}
Settings == [news : NewsIntervals, auto : AutoIntervals, alerts : AlertSettings]
Keys     == <<"news", "auto", "alerts">>

\* `clean` is history: nothing was saved since the load began.
Blank == [news |-> 0, auto |-> 0, alerts |-> <<>>]
Idle  == [next |-> 0, read |-> Blank, clean |-> TRUE]
Begun == [Idle EXCEPT !.next = 1]

Init ==
    /\ stored \in Settings
    /\ stored.alerts # Bad
    /\ load = [l \in Loaders |-> IF l = "boot" THEN Begun ELSE Idle]
    /\ jobs = <<>>
    /\ due = {}
    /\ running = {}
    /\ now = 0
    /\ up = FALSE
    /\ current = FALSE
    /\ crashes = 0

-----------------------------------------------------------------------------
(* What a load makes of the settings *)

\* A cron expression "*/n" matches the multiples of n.
CronSlots(n) == {t \in Slots : t % n = 0}

\* A job is [at, every, left, says]: a cron job fires at the slots `at`, an interval job
\* when `left` reaches 0.
Cron(slots, says) == [at |-> slots, every |-> 0, left |-> 0, says |-> says]
Interval(n)       == [at |-> {}, every |-> n, left |-> n, says |-> <<>>]

\* One job per rule and time, named by the rule and the place of the time in it.
AlertIds(alerts) ==
    UNION {{<<rule.name, i>> : i \in DOMAIN rule.times} : rule \in Range(alerts)}

\* Of rules with the same name, the first adds the job and the last reschedules it.
AlertJob(alerts, id) ==
    LET rules   == {k \in DOMAIN alerts :
                       alerts[k].name = id[1] /\ id[2] \in DOMAIN alerts[k].times}
        Time(k) == alerts[k].times[id[2]]
    IN  Cron({Time(Max(rules))}, <<alerts[Min(rules)].text, Time(Min(rules))>>)

Wanted(s) == {News, Analyst} \cup AlertIds(s.alerts)
JobOf(s, id) ==
    CASE id = News -> Cron(CronSlots(s.news), <<>>)
      [] id = Analyst -> Interval(s.auto)
      [] OTHER     -> AlertJob(s.alerts, id)

\* reschedule_job changes when a job fires, never what it is called with.
Upsert(registry, id, job) ==
    IF id \in DOMAIN registry THEN [job EXCEPT !.says = registry[id].says] ELSE job

\* A variant of the registry in which the alerts of old rules stay.
AllKept(registry) == registry
WithoutAlerts(registry) == [id \in DOMAIN registry \cap {News, Analyst} |-> registry[id]]

Registered(registry, s) ==
    LET kept == WithoutAlerts(registry) IN
    [id \in DOMAIN kept \cup Wanted(s) |->
        IF id \in Wanted(s) THEN Upsert(kept, id, JobOf(s, id)) ELSE kept[id]]

-----------------------------------------------------------------------------
(* Saving and loading *)

\* SCHEDULER_CONFIG_KEYS: the list of the approval lacks the alerts.
Reloads(w) == IF w \in Approvers THEN {"news", "auto"} ELSE Range(Keys)

\* An approval writes one setting, an update any number of them.
Writes(w) == IF w \in Approvers THEN {{key} : key \in Range(Keys)} ELSE {Range(Keys)}

\* The commit of the request, which then begins to load, if a setting is on its list.
Save(w) ==
    /\ up
    /\ load[w].next = 0
    /\ \E keys \in Writes(w), s \in Settings :
          /\ \A key \in Range(Keys) \ keys : s[key] = stored[key]
          /\ stored' = s
          /\ load' = [l \in Loaders |->
                  CASE l = w /\ keys \cap Reloads(w) # {} -> Begun
                    [] load[l].next = 0                   -> Idle
                    [] OTHER -> [load[l] EXCEPT !.clean = FALSE]]
    /\ current' = FALSE
    /\ UNCHANGED <<jobs, due, running, now, up, crashes>>

ReadKey(l) ==
    /\ load[l].next \in DOMAIN Keys
    /\ LET key == Keys[load[l].next] IN
       load' = [load EXCEPT ![l].next = @ + 1, ![l].read[key] = stored[key]]
    /\ UNCHANGED <<stored, jobs, due, running, now, up, current, crashes>>

\* Rescheduling computes the next time anew: a job that was due is not run for that time.
Apply(l) ==
    /\ load[l].next = Len(Keys) + 1
    /\ load[l].read.alerts # Bad
    /\ jobs' = Registered(jobs, load[l].read)
    /\ due' = {}
    /\ current' = load[l].clean
    /\ up' = TRUE
    /\ load' = [load EXCEPT ![l] = Idle]
    /\ UNCHANGED <<stored, running, now, crashes>>

\* Reading a setting of the wrong shape raises.  A request only logs it; the start of the
\* process fails, and the container starts it again.
LoadFails(l) ==
    /\ load[l].next = Len(Keys) + 1
    /\ load[l].read.alerts = Bad
    /\ load' = [load EXCEPT ![l] = IF l = "boot" THEN Begun ELSE Idle]
    /\ UNCHANGED <<stored, jobs, due, running, now, up, current, crashes>>

Crash ==
    /\ up
    /\ crashes < MaxCrashes
    /\ crashes' = crashes + 1
    /\ load' = [l \in Loaders |-> IF l = "boot" THEN Begun ELSE Idle]
    /\ jobs' = <<>>
    /\ due' = {}
    /\ running' = {}
    /\ up' = FALSE
    /\ current' = FALSE
    /\ UNCHANGED <<stored, now>>

-----------------------------------------------------------------------------
(* APScheduler *)

\* An interval begins again when it is over.
CountedOnce(job) == IF job.left = 0 THEN job ELSE [job EXCEPT !.left = job.left - 1]
Counted(job) == IF job.left = 1 THEN [job EXCEPT !.left = job.every] ELSE CountedOnce(job)

\* The scheduler wakes at each time, so that none passes with a job still due.
Tick ==
    /\ up
    /\ due = {}
    /\ now' = (now + 1) % Day
    /\ due' = {id \in DOMAIN jobs : now' \in jobs[id].at \/ jobs[id].left = 1}
    /\ jobs' = [id \in DOMAIN jobs |-> Counted(jobs[id])]
    /\ UNCHANGED <<stored, load, running, up, current, crashes>>

Fire(id) ==
    /\ id \in due
    /\ id \notin running
    /\ due' = due \ {id}
    /\ running' = running \cup {id}
    /\ UNCHANGED <<stored, load, jobs, now, up, current, crashes>>

\* max_instances = 1
SkipRun(id) ==
    /\ id \in due \cap running
    /\ due' = due \ {id}
    /\ UNCHANGED <<stored, load, jobs, running, now, up, current, crashes>>

\* Each job catches what it raises: it ends and leaves its instance free.
Return(id) ==
    /\ id \in running
    /\ running' = running \ {id}
    /\ UNCHANGED <<stored, load, jobs, due, now, up, current, crashes>>

Ids == {News, Analyst} \cup UNION {AlertIds(a) : a \in AlertSettings \ {Bad}}

LoadStep(l) == ReadKey(l) \/ Apply(l) \/ LoadFails(l)

Next ==
    \/ \E w \in Savers : Save(w)
    \/ \E l \in Loaders : LoadStep(l)
    \/ \E id \in Ids : Fire(id) \/ SkipRun(id) \/ Return(id)
    \/ Tick
    \/ Crash

Spec == Init /\ [][Next]_vars

\* Time passes, and APScheduler starts or skips what is due.  A reload does not come before
\* the timer each time that a job is due.  Loads end, as the database is assumed to answer;
\* a run of a job need not, since the providers that it calls have no deadline.
FairSpec ==
    /\ Spec
    /\ WF_vars(Tick)
    /\ WF_vars(\E l \in Loaders : LoadStep(l))
    /\ WF_vars(\E id \in Ids : Fire(id) \/ SkipRun(id))
    /\ SF_vars(Fire(News))

-----------------------------------------------------------------------------
(* Properties *)

\* A rule's alerts fire at its times and say what it says, the jobs of rules that are gone
\* are gone, and the other jobs fire as the settings say, whatever the registry was before:
\* once a load has been applied since whose beginning nothing was saved, and unless two
\* rules have the same name.
RegistryCurrent ==
    LET rules == stored.alerts IN
    current /\ (\A i, k \in DOMAIN rules : rules[i].name = rules[k].name => i = k) =>
        /\ DOMAIN jobs = {News, Analyst} \cup
              UNION {{<<rules[k].name, i>> : i \in DOMAIN rules[k].times} : k \in DOMAIN rules}
        /\ jobs[News].at = CronSlots(stored.news)
        /\ jobs[Analyst].every = stored.auto
        /\ \A k \in DOMAIN rules : \A i \in DOMAIN rules[k].times :
              LET job == jobs[<<rules[k].name, i>>] IN
              /\ job.at = {rules[k].times[i]}
              /\ job.says = <<rules[k].text, rules[k].times[i]>>

\* The cron jobs are started again and again however often settings are saved, the
\* autonomous analysis when they stop being saved, unless a start cannot read the alert
\* settings, or a run of the job itself never ends: max_instances=1 holds the next back.
JobsGoOn ==
    <>[](stored.alerts # Bad) =>
        /\ []<>(News \in running)
        /\ <>[](\A w \in Savers : load[w].next = 0) => []<>(Analyst \in running)
=============================================================================

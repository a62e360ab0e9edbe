-------------------------- MODULE SchedulerProofs --------------------------
(***************************************************************************)
(* Proof that the registry of Scheduler is what the settings say once a    *)
(* load has been applied since whose beginning nothing was saved: for any  *)
(* writers, settings, rules and restarts, however their loads overlap.     *)
(***************************************************************************)
EXTENDS Scheduler, TLAPS

Config == [news : NewsIntervals \cup {0}, auto : AutoIntervals \cup {0},
           alerts : AlertSettings \cup {<<>>}]
Load == [next : Nat, read : Config, clean : BOOLEAN]

\* The rules have names of their own.
Unique(rules) == \A i, k \in DOMAIN rules : rules[i].name = rules[k].name => i = k

\* The registry holds what these settings say.
Holds(registry, news, auto, alerts) ==
    /\ DOMAIN registry = {News, Analyst} \cup
          UNION {{<<alerts[k].name, i>> : i \in DOMAIN alerts[k].times} : k \in DOMAIN alerts}
    /\ registry[News].at = CronSlots(news)
    /\ registry[Analyst].every = auto
    /\ \A k \in DOMAIN alerts : \A i \in DOMAIN alerts[k].times :
          LET job == registry[<<alerts[k].name, i>>] IN
          /\ job.at = {alerts[k].times[i]}
          /\ job.says = <<alerts[k].text, alerts[k].times[i]>>

Matches(registry, s) == Holds(registry, s.news, s.auto, s.alerts)

JobFields == {"at", "every", "left", "says"}

\* A load that is clean has read what is stored, as far as it has come.
LoadOK(l) ==
    /\ load[l] \in Load
    /\ load[l].clean =>
           \A i \in 1..3 : i < load[l].next => load[l].read[Keys[i]] = stored[Keys[i]]

LoadsOK ==
    /\ stored \in Settings
    /\ DOMAIN load = Loaders
    /\ \A l \in Loaders : LoadOK(l)

RegistryOK ==
    /\ \A id \in DOMAIN jobs : DOMAIN jobs[id] = JobFields
    /\ current => stored.alerts # Bad
    /\ current /\ Unique(stored.alerts) => Matches(jobs, stored)

-----------------------------------------------------------------------------
(* What a load makes of the settings *)

LEMMA KeysAre ==
    /\ DOMAIN Keys = 1..3 /\ Len(Keys) = 3
    /\ Keys[1] = "news" /\ Keys[2] = "auto" /\ Keys[3] = "alerts"
    /\ Range(Keys) = {"news", "auto", "alerts"}
  <1>1. /\ Keys = <<"news", "auto", "alerts">>
        /\ DOMAIN Keys = 1..3 /\ Len(Keys) = 3
        /\ Keys[1] = "news" /\ Keys[2] = "auto" /\ Keys[3] = "alerts"
    BY DEF Keys
  <1>2. Range(Keys) = {Keys[i] : i \in 1..3}
    BY <1>1 DEF Range
  <1> QED
    BY <1>1, <1>2

\* The rules of a setting that can be read, and their times, are sequences.
LEMMA RulesAre ==
    ASSUME NEW alerts \in AlertSettings \ {Bad}
    PROVE  /\ DOMAIN alerts \subseteq Nat
           /\ \A k \in DOMAIN alerts : DOMAIN alerts[k].times \subseteq Nat \ {0}
  <1>1. /\ alerts \in Seq(Range(alerts))
        /\ \A rule \in Range(alerts) : rule.times \in Seq(0..(Day - 1))
    BY SchedulerAssumption
  <1>2. DOMAIN alerts = 1..Len(alerts) /\ Len(alerts) \in Nat
    BY <1>1
  <1>3. ASSUME NEW k \in DOMAIN alerts
        PROVE  DOMAIN alerts[k].times \subseteq Nat \ {0}
    <2>1. alerts[k] \in Range(alerts)
      BY DEF Range
    <2>2. alerts[k].times \in Seq(0..(Day - 1))
      BY <1>1, <2>1
    <2>3. DOMAIN alerts[k].times = 1..Len(alerts[k].times) /\ Len(alerts[k].times) \in Nat
      BY <2>2
    <2> QED
      BY <2>3
  <1> QED
    BY <1>2, <1>3

\* The jobs of the alerts are none of the others.
LEMMA IdsAre ==
    ASSUME NEW alerts \in AlertSettings \ {Bad}
    PROVE  /\ News # Analyst
           /\ AlertIds(alerts) = UNION {{<<alerts[k].name, i>> : i \in DOMAIN alerts[k].times} :
                                        k \in DOMAIN alerts}
           /\ News \notin AlertIds(alerts) /\ Analyst \notin AlertIds(alerts)
  <1>1. News # Analyst
    BY DEF News, Analyst
  <1>2. AlertIds(alerts) = UNION {{<<alerts[k].name, i>> : i \in DOMAIN alerts[k].times} :
                                  k \in DOMAIN alerts}
    BY DEF AlertIds, Range
  <1>3. ASSUME NEW id \in AlertIds(alerts)
        PROVE  id # News /\ id # Analyst
    <2>3. PICK k \in DOMAIN alerts : id \in {<<alerts[k].name, i>> : i \in DOMAIN alerts[k].times}
      BY <1>2
    <2>1. PICK i \in DOMAIN alerts[k].times : id = <<alerts[k].name, i>>
      BY <2>3
    <2>2. i # 0
      BY RulesAre
    <2> QED
      BY <2>1, <2>2 DEF News, Analyst
  <1> QED
    BY <1>1, <1>2, <1>3

LEMMA OneMax ==
    ASSUME NEW k \in Nat
    PROVE  Max({k}) = k /\ Min({k}) = k
  BY DEF Max, Min

\* The job of the only rule of its name.
LEMMA AlertJobIs ==
    ASSUME NEW alerts \in AlertSettings \ {Bad}, Unique(alerts),
           NEW k \in DOMAIN alerts, NEW i \in DOMAIN alerts[k].times
    PROVE  AlertJob(alerts, <<alerts[k].name, i>>)
               = Cron({alerts[k].times[i]}, <<alerts[k].text, alerts[k].times[i]>>)
  <1> DEFINE id    == <<alerts[k].name, i>>
             rules == {n \in DOMAIN alerts :
                          alerts[n].name = id[1] /\ id[2] \in DOMAIN alerts[n].times}
  <1>1. rules = {k}
    BY DEF Unique
  <1>2. Max(rules) = k /\ Min(rules) = k
    BY <1>1, RulesAre, OneMax
  <1>3. id[2] = i
    OBVIOUS
  <1> QED
    BY <1>2, <1>3 DEF AlertJob

LEMMA JobsAre ==
    ASSUME NEW s
    PROVE  \A id : DOMAIN JobOf(s, id) = JobFields
  BY DEF JobOf, AlertJob, Cron, Interval, JobFields

\* What is registered keeps from the jobs that were there at most what they say.
LEMMA RegisteredFields ==
    ASSUME NEW s, \A id \in DOMAIN jobs : DOMAIN jobs[id] = JobFields
    PROVE  /\ DOMAIN Registered(jobs, s) = Wanted(s)
           /\ \A id \in Wanted(s) :
                 /\ DOMAIN Registered(jobs, s)[id] = JobFields
                 /\ Registered(jobs, s)[id].at = JobOf(s, id).at
                 /\ Registered(jobs, s)[id].every = JobOf(s, id).every
                 /\ id \notin {News, Analyst} => Registered(jobs, s)[id] = JobOf(s, id)
  <1> DEFINE kept == WithoutAlerts(jobs)
             registry == Registered(jobs, s)
  <1>1. /\ DOMAIN kept \subseteq {News, Analyst}
        /\ \A id \in DOMAIN kept : DOMAIN kept[id] = JobFields
    BY DEF WithoutAlerts
  <1>2. /\ DOMAIN registry = Wanted(s)
        /\ \A id \in Wanted(s) : registry[id] = Upsert(kept, id, JobOf(s, id))
    BY <1>1 DEF Registered, Wanted
  <1> HIDE DEF registry, kept
  <1>3. ASSUME NEW id \in Wanted(s)
        PROVE  /\ DOMAIN registry[id] = JobFields
               /\ registry[id].at = JobOf(s, id).at
               /\ registry[id].every = JobOf(s, id).every
               /\ id \notin {News, Analyst} => registry[id] = JobOf(s, id)
    <2> DEFINE job == JobOf(s, id)
    <2>1. DOMAIN job = JobFields
      BY JobsAre
    <2> HIDE DEF job
    <2>2. registry[id] = IF id \in DOMAIN kept THEN [job EXCEPT !.says = kept[id].says] ELSE job
      BY <1>2 DEF Upsert, job
    <2> QED
      BY <1>1, <2>1, <2>2 DEF job, JobFields
  <1> QED
    BY <1>2, <1>3 DEF registry

\* Whatever was registered before, what is registered now is what the settings say.
LEMMA RegisteredMatches ==
    ASSUME NEW s, s.alerts \in AlertSettings \ {Bad},
           \A id \in DOMAIN jobs : DOMAIN jobs[id] = JobFields
    PROVE  /\ \A id \in DOMAIN Registered(jobs, s) : DOMAIN Registered(jobs, s)[id] = JobFields
           /\ Unique(s.alerts) => Matches(Registered(jobs, s), s)
  <1> DEFINE registry == Registered(jobs, s)
  <1>2. DOMAIN registry = Wanted(s)
    BY RegisteredFields
  <1>3. ASSUME NEW id \in Wanted(s)
        PROVE  /\ DOMAIN registry[id] = JobFields
               /\ registry[id].at = JobOf(s, id).at
               /\ registry[id].every = JobOf(s, id).every
               /\ id \notin {News, Analyst} => registry[id] = JobOf(s, id)
    BY RegisteredFields
  <1> HIDE DEF registry
  <1>4. ASSUME Unique(s.alerts)
        PROVE  Matches(registry, s)
    <2>1. DOMAIN registry = {News, Analyst} \cup
              UNION {{<<s.alerts[k].name, i>> : i \in DOMAIN s.alerts[k].times} :
                         k \in DOMAIN s.alerts}
      BY <1>2, IdsAre DEF Wanted
    <2>2. registry[News].at = CronSlots(s.news)
      <3>1. News \in Wanted(s) /\ JobOf(s, News) = Cron(CronSlots(s.news), <<>>)
        BY IdsAre DEF Wanted, JobOf
      <3> QED
        BY <1>3, <3>1 DEF Cron
    <2>3. registry[Analyst].every = s.auto
      <3>1. Analyst \in Wanted(s) /\ JobOf(s, Analyst) = Interval(s.auto)
        BY IdsAre DEF Wanted, JobOf
      <3> QED
        BY <1>3, <3>1 DEF Interval
    <2>4. ASSUME NEW k \in DOMAIN s.alerts, NEW i \in DOMAIN s.alerts[k].times
          PROVE  LET job == registry[<<s.alerts[k].name, i>>] IN
                 /\ job.at = {s.alerts[k].times[i]}
                 /\ job.says = <<s.alerts[k].text, s.alerts[k].times[i]>>
      <3> DEFINE id == <<s.alerts[k].name, i>>
      <3>1. id \in AlertIds(s.alerts)
        BY IdsAre
      <3>2. id \in Wanted(s) /\ id # News /\ id # Analyst
        BY <3>1, IdsAre DEF Wanted
      <3>3. registry[id] = AlertJob(s.alerts, id)
        <4> HIDE DEF id
        <4>1. JobOf(s, id) = AlertJob(s.alerts, id)
          BY <3>2 DEF JobOf
        <4> QED
          BY <1>3, <3>2, <4>1
      <3>4. AlertJob(s.alerts, id) =
                 Cron({s.alerts[k].times[i]}, <<s.alerts[k].text, s.alerts[k].times[i]>>)
        BY <1>4, AlertJobIs
      <3> HIDE DEF id
      <3>5. /\ registry[id].at = {s.alerts[k].times[i]}
            /\ registry[id].says = <<s.alerts[k].text, s.alerts[k].times[i]>>
        BY <3>3, <3>4 DEF Cron
      <3> QED
        BY <3>5 DEF id
    <2> QED
      BY <2>1, <2>2, <2>3, <2>4 DEF Matches, Holds
  <1> QED
    BY <1>2, <1>3, <1>4 DEF registry

-----------------------------------------------------------------------------
(* The invariant *)

LEMMA FreshLoads ==
    Idle \in Load /\ Begun \in Load /\ Begun.next = 1 /\ Idle.next = 0
  <1>1. Blank \in Config
    BY DEF Blank, Config
  <1>2. Idle \in Load /\ Idle.next = 0
    BY <1>1 DEF Idle, Load
  <1>3. ASSUME NEW q \in Load
        PROVE  [q EXCEPT !.next = 1] \in Load /\ [q EXCEPT !.next = 1].next = 1
    BY DEF Load
  <1> QED
    BY <1>2, <1>3 DEF Begun

LEMMA InitOK == ASSUME Init PROVE LoadsOK /\ RegistryOK
  <1>2. Idle \in Load /\ Begun \in Load /\ Begun.next = 1 /\ Idle.next = 0
    BY FreshLoads
  <1>3. ASSUME NEW l \in Loaders
        PROVE  LoadOK(l)
    <2>1. load[l] \in {Idle, Begun}
      BY DEF Init
    <2> QED
      BY <1>2, <2>1 DEF LoadOK
  <1>4. DOMAIN jobs = {} /\ current = FALSE
    BY DEF Init
  <1> QED
    BY <1>3, <1>4 DEF Init, LoadsOK, RegistryOK

\* A load that has not begun, or has only just.
LEMMA FreshOK ==
    ASSUME NEW l, load'[l] \in {Idle, Begun}
    PROVE  LoadOK(l)'
  <1>1. Idle \in Load /\ Begun \in Load /\ Begun.next = 1 /\ Idle.next = 0
    BY FreshLoads
  <1> QED
    BY <1>1 DEF LoadOK

LEMMA SaveOK ==
    ASSUME LoadsOK, RegistryOK, NEW w \in Savers, Save(w)
    PROVE  LoadsOK' /\ RegistryOK'
  <1>1. PICK keys \in Writes(w), s \in Settings :
            /\ stored' = s
            /\ load' = [l \in Loaders |->
                  CASE l = w /\ keys \cap Reloads(w) # {} -> Begun
                    [] load[l].next = 0                   -> Idle
                    [] OTHER -> [load[l] EXCEPT !.clean = FALSE]]
    BY DEF Save
  <1>2. ASSUME NEW l \in Loaders
        PROVE  LoadOK(l)'
    <2>1. CASE load'[l] \in {Idle, Begun}
      BY <2>1, FreshOK
    <2>2. CASE load'[l] = [load[l] EXCEPT !.clean = FALSE]
      <3>1. load[l] \in Load
        BY DEF LoadsOK, LoadOK
      <3>2. load'[l] \in Load /\ load'[l].clean = FALSE
        BY <2>2, <3>1 DEF Load
      <3> QED
        BY <3>2 DEF LoadOK
    <2> QED
      BY <1>1, <2>1, <2>2
  <1>3. LoadsOK'
    BY <1>1, <1>2 DEF LoadsOK
  <1>4. jobs' = jobs /\ current' = FALSE
    BY DEF Save
  <1> QED
    BY <1>3, <1>4 DEF RegistryOK

LEMMA ReadKeyOK ==
    ASSUME LoadsOK, RegistryOK, NEW l \in Loaders, ReadKey(l)
    PROVE  LoadsOK' /\ RegistryOK'
  <1> DEFINE q    == load[l]
             n    == q.next
             key  == Keys[n]
             read == [q.read EXCEPT ![key] = stored[key]]
             p    == [q EXCEPT !.next = n + 1, !.read = read]
  <1>1. q \in Load /\ n \in 1..3 /\ q.read \in Config /\ stored \in Settings
    BY KeysAre DEF LoadsOK, LoadOK, Load, ReadKey
  <1>2. load' = [load EXCEPT ![l] = p] /\ stored' = stored
    BY DEF ReadKey
  <1>3. /\ read \in Config
        /\ read[key] = stored[key]
        /\ \A i \in 1..3 : i # n => read[Keys[i]] = q.read[Keys[i]]
    <2>1. CASE n = 1
      <3>1. read = [q.read EXCEPT !.news = stored.news]
        BY <2>1, KeysAre
      <3> QED
        BY <1>1, <2>1, <3>1, KeysAre DEF Config, Settings
    <2>2. CASE n = 2
      <3>1. read = [q.read EXCEPT !.auto = stored.auto]
        BY <2>2, KeysAre
      <3> QED
        BY <1>1, <2>2, <3>1, KeysAre DEF Config, Settings
    <2>3. CASE n = 3
      <3>1. read = [q.read EXCEPT !.alerts = stored.alerts]
        BY <2>3, KeysAre
      <3> QED
        BY <1>1, <2>3, <3>1, KeysAre DEF Config, Settings
    <2> QED
      BY <1>1, <2>1, <2>2, <2>3
  <1> HIDE DEF read
  <1>4. p \in Load /\ p.next = n + 1 /\ p.read = read /\ p.clean = q.clean
    <2> DEFINE next == n + 1
    <2>1. next \in Nat
      BY <1>1
    <2> HIDE DEF next, n
    <2>2. [q EXCEPT !.next = next, !.read = read] \in Load
      BY <1>1, <1>3, <2>1 DEF Load
    <2> QED
      BY <1>1, <2>2 DEF Load, next
  <1> HIDE DEF p
  <1>5. LoadOK(l)'
    <2>1. load'[l] = p
      BY <1>2 DEF LoadsOK
    <2>2. ASSUME p.clean, NEW i \in 1..3, i < p.next
          PROVE  read[Keys[i]] = stored[Keys[i]]
      <3>1. CASE i = n
        BY <1>3, <3>1
      <3>2. CASE i # n
        <4>1. i < q.next
          BY <1>1, <1>4, <2>2, <3>2
        <4>2. q.read[Keys[i]] = stored[Keys[i]]
          BY <1>4, <2>2, <4>1 DEF LoadsOK, LoadOK
        <4> QED
          BY <1>3, <3>2, <4>2
      <3> QED
        BY <3>1, <3>2
    <2> QED
      BY <1>2, <1>4, <2>1, <2>2 DEF LoadOK
  <1>6. ASSUME NEW m \in Loaders, m # l
        PROVE  LoadOK(m)'
    <2>1. load'[m] = load[m]
      BY <1>2, <1>6 DEF LoadsOK
    <2> QED
      BY <1>2, <2>1 DEF LoadsOK, LoadOK
  <1>7. LoadsOK'
    BY <1>2, <1>5, <1>6 DEF LoadsOK
  <1>8. jobs' = jobs /\ current' = current /\ stored' = stored
    BY DEF ReadKey
  <1> QED
    BY <1>7, <1>8 DEF RegistryOK

\* One load is over, and nothing is stored.
LEMMA OverOK ==
    ASSUME LoadsOK, NEW l \in Loaders, NEW p \in {Idle, Begun},
           load' = [load EXCEPT ![l] = p], stored' = stored
    PROVE  LoadsOK'
  <1>1. ASSUME NEW m \in Loaders
        PROVE  LoadOK(m)'
    <2>1. CASE m = l
      BY <2>1, FreshOK DEF LoadsOK
    <2>2. CASE m # l
      <3>1. load'[m] = load[m]
        BY <2>2 DEF LoadsOK
      <3> QED
        BY <3>1 DEF LoadsOK, LoadOK
    <2> QED
      BY <2>1, <2>2
  <1> QED
    BY <1>1 DEF LoadsOK

LEMMA ApplyOK ==
    ASSUME LoadsOK, RegistryOK, NEW l \in Loaders, Apply(l)
    PROVE  LoadsOK' /\ RegistryOK'
  <1> DEFINE s == load[l].read
  <1>1. LoadsOK'
    BY OverOK DEF Apply
  <1>2. /\ load[l].next = 4 /\ s.alerts # Bad /\ s \in Config
        /\ jobs' = Registered(jobs, s) /\ current' = load[l].clean /\ stored' = stored
    BY KeysAre DEF Apply, LoadsOK, LoadOK, Load
  <1>3. ASSUME load[l].clean
        PROVE  s.news = stored.news /\ s.auto = stored.auto /\ s.alerts = stored.alerts
    <2>1. \A i \in 1..3 : s[Keys[i]] = stored[Keys[i]]
      BY <1>2, <1>3 DEF LoadsOK, LoadOK
    <2> QED
      BY <2>1, KeysAre
  <1>4. \A id \in DOMAIN jobs : DOMAIN jobs[id] = JobFields
    BY DEF RegistryOK
  <1>5. CASE s.alerts \in AlertSettings \ {Bad}
    <2> HIDE DEF s
    <2>1. /\ \A id \in DOMAIN jobs' : DOMAIN jobs'[id] = JobFields
          /\ Unique(s.alerts) => Matches(jobs', s)
      BY <1>2, <1>4, <1>5, RegisteredMatches
    <2>2. ASSUME load[l].clean, Unique(stored.alerts)
          PROVE  Matches(jobs', stored)
      BY <1>3, <2>1, <2>2 DEF Matches
    <2> QED
      BY <1>1, <1>2, <1>3, <2>1, <2>2 DEF RegistryOK
  <1>6. CASE s.alerts = <<>> /\ <<>> \notin AlertSettings
    <2>1. ~load[l].clean
      BY <1>3, <1>6 DEF LoadsOK, Settings
    <2>2. \A id \in DOMAIN Registered(jobs, s) : DOMAIN Registered(jobs, s)[id] = JobFields
      BY <1>4, RegisteredFields
    <2> QED
      BY <1>1, <1>2, <2>1, <2>2 DEF RegistryOK
  <1> QED
    BY <1>2, <1>5, <1>6 DEF Config

LEMMA LoadFailsOK ==
    ASSUME LoadsOK, RegistryOK, NEW l \in Loaders, LoadFails(l)
    PROVE  LoadsOK' /\ RegistryOK'
  <1>1. LoadsOK'
    BY OverOK DEF LoadFails
  <1>2. jobs' = jobs /\ current' = current /\ stored' = stored
    BY DEF LoadFails
  <1> QED
    BY <1>1, <1>2 DEF RegistryOK

LEMMA CrashOK ==
    ASSUME LoadsOK, RegistryOK, Crash
    PROVE  LoadsOK' /\ RegistryOK'
  <1>1. ASSUME NEW l \in Loaders
        PROVE  LoadOK(l)'
    BY FreshOK DEF Crash
  <1>2. LoadsOK'
    BY <1>1 DEF Crash, LoadsOK
  <1>3. DOMAIN jobs' = {} /\ current' = FALSE
    BY DEF Crash
  <1> QED
    BY <1>2, <1>3 DEF RegistryOK

\* Time changes only how long an interval has left.
LEMMA TickOK ==
    ASSUME LoadsOK, RegistryOK, Tick
    PROVE  LoadsOK' /\ RegistryOK'
  <1>1. load' = load /\ stored' = stored /\ current' = current
    BY DEF Tick
  <1>2. LoadsOK'
    BY <1>1 DEF LoadsOK, LoadOK
  <1>3. DOMAIN jobs' = DOMAIN jobs
    BY DEF Tick
  <1>4. ASSUME NEW id \in DOMAIN jobs
        PROVE  /\ DOMAIN jobs'[id] = JobFields
               /\ jobs'[id].at = jobs[id].at /\ jobs'[id].every = jobs[id].every
               /\ jobs'[id].says = jobs[id].says
    <2>1. DOMAIN jobs[id] = JobFields
      BY DEF RegistryOK
    <2>2. jobs'[id] = Counted(jobs[id])
      BY DEF Tick
    <2> QED
      BY <2>1, <2>2 DEF Counted, CountedOnce, JobFields
  <1>5. ASSUME current, Unique(stored.alerts)
        PROVE  Matches(jobs', stored)
    <2>1. Matches(jobs, stored)
      BY <1>5 DEF RegistryOK
    <2>2. /\ News \in DOMAIN jobs /\ Analyst \in DOMAIN jobs
          /\ \A k \in DOMAIN stored.alerts : \A i \in DOMAIN stored.alerts[k].times :
                <<stored.alerts[k].name, i>> \in DOMAIN jobs
      BY <2>1 DEF Matches, Holds
    <2> QED
      BY <1>3, <1>4, <2>1, <2>2 DEF Matches, Holds
  <1> QED
    BY <1>1, <1>2, <1>3, <1>4, <1>5 DEF RegistryOK

\* Loads read what is stored, and the registry holds it, whatever the order of steps.
THEOREM RegistryOKCorrect == Spec => [](LoadsOK /\ RegistryOK)
  <1>1. Init => LoadsOK /\ RegistryOK
    BY InitOK
  <1>2. LoadsOK /\ RegistryOK /\ [Next]_vars => (LoadsOK /\ RegistryOK)'
    <2> SUFFICES ASSUME LoadsOK, RegistryOK, [Next]_vars
                 PROVE  LoadsOK' /\ RegistryOK'
      OBVIOUS
    <2>1. ASSUME NEW w \in Savers, Save(w)
          PROVE  LoadsOK' /\ RegistryOK'
      BY <2>1, SaveOK
    <2>2. ASSUME NEW l \in Loaders, LoadStep(l)
          PROVE  LoadsOK' /\ RegistryOK'
      BY <2>2, ReadKeyOK, ApplyOK, LoadFailsOK DEF LoadStep
    <2>3. CASE \/ UNCHANGED vars
               \/ \E id \in Ids : Fire(id) \/ SkipRun(id) \/ Return(id)
      <3>1. load' = load /\ stored' = stored /\ current' = current /\ jobs' = jobs
        BY <2>3 DEF vars, Fire, SkipRun, Return
      <3> QED
        BY <3>1 DEF LoadsOK, LoadOK, RegistryOK
    <2> QED
      BY <2>1, <2>2, <2>3, TickOK, CrashOK DEF Next
  <1> QED
    BY <1>1, <1>2, PTL DEF Spec

\* A rule's alerts fire at its times and say what it says, the jobs of rules that are gone
\* are gone, and the other jobs fire as the settings say, once a load has been applied
\* since whose beginning nothing was saved and unless two rules have the same name.
THEOREM RegistryCurrentCorrect == Spec => []RegistryCurrent
  <1>1. RegistryOK => RegistryCurrent
    BY DEF RegistryOK, RegistryCurrent, Unique, Matches, Holds
  <1> QED
    BY <1>1, RegistryOKCorrect, PTL
=============================================================================

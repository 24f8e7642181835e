-------------------------- MODULE BackgroundProofs --------------------------
(***************************************************************************)
(* Proofs about the daemon's schedule, the freshness sweep, deduplication  *)
(* and the pipeline command, small components that share no state: retry   *)
(* ids are fresh for any stages and number of retries, no job ages that    *)
(* was not missed, no identity is inserted twice, and a command does what  *)
(* its summary says, for any jobs, candidates, clock, policy, command      *)
(* lines and settings.                                                     *)
(***************************************************************************)
EXTENDS DailyScheduler, JobLifecycle, Command, FiniteSetTheorems, TLAPS

-----------------------------------------------------------------------------
(* The schedule *)

\* The retries of stage s that have a row are the first n.
Tried(s, n) == \A t \in 1..MaxTries : runs[<<s, t>>] # "none" <=> t <= n

\* The run of a stage that was let in: no retry before it is missing.
IsNext(id) ==
  \E s \in StageSet, t \in 0..MaxTries :
    id = <<s, t>> /\ \A u \in 1..t - 1 : runs[<<s, u>>] # "none"

ScheduleInv ==
  /\ runs \in [RunIds -> {"none", "started", "completed", "partial", "failed"}]
  /\ onStart \in Seq(StageSet)
  /\ \A s \in StageSet : \E n \in 0..MaxTries : Tried(s, n)
  /\ active # "none" => runId = PastRun \/ IsNext(runId)

\* Counting the retries finds how many there are.
LEMMA RetriesCount ==
  ASSUME NEW s \in StageSet, NEW n \in 0..MaxTries, Tried(s, n)
  PROVE  Retries(s) = n
<1>1. {t \in 1..MaxTries : runs[<<s, t>>] # "none"} = 1..n
  BY SchedulerAssumption DEF Tried
<1>2. Cardinality(1..n) = n
  BY FS_Interval
<1> QED BY <1>1, <1>2 DEF Retries

\* The id that is chosen for a stage is one that no run has, while the retries
\* are within their bound.
LEMMA ChosenIsFresh ==
  ASSUME ScheduleInv, NEW s \in StageSet, runs[<<s, MaxTries>>] = "none"
  PROVE  runs[ChooseRun(s)] = "none" /\ IsNext(ChooseRun(s))
<1>1. CASE runs[<<s, 0>>] = "none"
  BY <1>1, SchedulerAssumption DEF ChooseRun, IsNext
<1>2. CASE runs[<<s, 0>>] # "none"
  <2>1. PICK n \in 0..MaxTries : Tried(s, n)
    BY DEF ScheduleInv
  <2>2. MaxTries \in Nat /\ MaxTries # 0
    BY <1>2, SchedulerAssumption
  <2>3. n < MaxTries
    BY <2>1, <2>2 DEF Tried
  <2>4. ChooseRun(s) = <<s, n + 1>>
    BY <1>2, <2>1, RetriesCount DEF ChooseRun
  <2>5. runs[<<s, n + 1>>] = "none" /\ \A u \in 1..(n + 1) - 1 : runs[<<s, u>>] # "none"
    BY <2>1, <2>2, <2>3 DEF Tried
  <2> QED BY <2>2, <2>3, <2>4, <2>5 DEF IsNext
<1> QED BY <1>1, <1>2

\* The stages of the day are among the stages that have rows.
LEMMA StagesTyped == DayStages \in Seq(StageSet)
BY SchedulerAssumption DEF StageSet

\* No stage has a row, an active run or a retry at the start of a day.
LEMMA ScheduleInit == DInit => ScheduleInv
<1> SUFFICES ASSUME DInit PROVE ScheduleInv
  OBVIOUS
<1>1. \A s \in StageSet : Tried(s, 0)
  BY SchedulerAssumption DEF DInit, Tried, RunIds
<1> QED BY <1>1, SchedulerAssumption DEF DInit, ScheduleInv

\* A stage that is let in gets an id that is fresh and next; nothing else about
\* the runs changes.
LEMMA EnterKeeps ==
  ASSUME ScheduleInv, NEW s \in StageSet, runs[<<s, MaxTries>>] = "none", Enter(s)
  PROVE  /\ active' # "none" => runId' = PastRun \/ IsNext(runId')
         /\ active = "none" /\ said' = <<s, "accepted">> => runs[runId'] = "none"
<1>1. CASE active' = active /\ runId' = runId
  BY <1>1, ChosenIsFresh DEF Enter, ScheduleInv
<1>2. CASE active' = s /\ runId' = ChooseRun(s)
  BY <1>2, ChosenIsFresh
<1> QED BY <1>1, <1>2 DEF Enter

\* A step that leaves the runs alone and the active run next keeps the invariant.
LEMMA RunsKept ==
  ASSUME ScheduleInv, UNCHANGED runs, onStart' \in Seq(StageSet),
         active' # "none" => runId' = PastRun \/ IsNext(runId')
  PROVE  ScheduleInv'
<1>1. \A id : IsNext(id) => IsNext(id)'
  BY DEF IsNext
<1>2. \A s \in StageSet, n \in 0..MaxTries : Tried(s, n) => Tried(s, n)'
  BY DEF Tried
<1> QED BY <1>1, <1>2 DEF ScheduleInv, PastRun

\* A row that is written, for today's run of a stage or for a next retry, keeps
\* the retries without a gap, and the active run next.
LEMMA RowWritten ==
  ASSUME ScheduleInv, NEW id \in RunIds,
         NEW st \in {"started", "completed", "partial", "failed"},
         id[2] = 0 \/ runs[id] # "none" \/ IsNext(id),
         runs' = [runs EXCEPT ![id] = st],
         onStart' \in Seq(StageSet),
         active' # "none" => active # "none" /\ runId' = runId
  PROVE  ScheduleInv'
<1>1. \A i \in RunIds : runs[i] # "none" => runs'[i] # "none"
  BY DEF ScheduleInv
<1>2. \A i : IsNext(i) => IsNext(i)'
  <2> SUFFICES ASSUME NEW i, IsNext(i) PROVE IsNext(i)'
    OBVIOUS
  <2>1. PICK s \in StageSet, t \in 0..MaxTries :
          i = <<s, t>> /\ \A u \in 1..t - 1 : runs[<<s, u>>] # "none"
    BY DEF IsNext
  <2>2. \A u \in 1..t - 1 : <<s, u>> \in RunIds
    BY SchedulerAssumption DEF RunIds
  <2> QED BY <1>1, <2>1, <2>2 DEF IsNext
<1>3. \A s \in StageSet : \E n \in 0..MaxTries : Tried(s, n)'
  <2> SUFFICES ASSUME NEW s \in StageSet PROVE \E n \in 0..MaxTries : Tried(s, n)'
    OBVIOUS
  <2>1. PICK n \in 0..MaxTries : Tried(s, n)
    BY DEF ScheduleInv
  <2>2. \A t \in 1..MaxTries : <<s, t>> \in RunIds
    BY DEF RunIds
  <2>3. PICK d \in StageSet, m \in 0..MaxTries : id = <<d, m>>
    BY DEF RunIds
  <2>4. CASE id[1] # s \/ id[2] = 0 \/ runs[id] # "none"
    <3>1. \A t \in 1..MaxTries : runs'[<<s, t>>] # "none" <=> runs[<<s, t>>] # "none"
      <4> SUFFICES ASSUME NEW t \in 1..MaxTries
                   PROVE  runs'[<<s, t>>] # "none" <=> runs[<<s, t>>] # "none"
        OBVIOUS
      <4>1. CASE id = <<s, t>>
        BY <4>1, <2>2, <2>4 DEF ScheduleInv
      <4>2. CASE id # <<s, t>>
        BY <4>2, <2>2 DEF ScheduleInv
      <4> QED BY <4>1, <4>2
    <3> QED BY <2>1, <3>1 DEF Tried
  <2>5. CASE id[1] = s /\ id[2] # 0 /\ runs[id] = "none"
    <3>1. id = <<s, m>> /\ m \in 1..MaxTries
      BY <2>3, <2>5, SchedulerAssumption
    <3>2. \A u \in 1..m - 1 : runs[<<s, u>>] # "none"
      BY <3>1, <2>5 DEF IsNext
    <3>3. m = n + 1
      <4>1. runs[<<s, m>>] = "none" /\ m \in Nat /\ n \in Nat
        BY <2>5, <3>1, SchedulerAssumption
      <4>2. m > n
        BY <2>1, <3>1, <4>1 DEF Tried
      <4>3. CASE m = 1
        BY <4>1, <4>2, <4>3
      <4>4. CASE m # 1
        <5>1. m - 1 \in 1..m - 1 /\ m - 1 \in 1..MaxTries
          BY <3>1, <4>1, <4>4, SchedulerAssumption
        <5>2. m - 1 <= n
          BY <2>1, <3>2, <5>1 DEF Tried
        <5> QED BY <4>1, <4>2, <5>2
      <4> QED BY <4>3, <4>4
    <3>4. \A t \in 1..MaxTries : runs'[<<s, t>>] # "none" <=> runs[<<s, t>>] # "none" \/ t = m
      BY <2>2, <3>1 DEF ScheduleInv
    <3>5. Tried(s, m)'
      BY <2>1, <3>1, <3>3, <3>4, SchedulerAssumption DEF Tried
    <3> QED BY <3>1, <3>5, SchedulerAssumption
  <2> QED BY <2>4, <2>5
<1>4. runs' \in [RunIds -> {"none", "started", "completed", "partial", "failed"}]
  BY DEF ScheduleInv
<1> QED BY <1>2, <1>3, <1>4 DEF ScheduleInv, PastRun

\* Triggers, retries, operators, kills and midnight keep the run ids in
\* order.
LEMMA ScheduleNext == ScheduleInv /\ [DNext]_dayVars => ScheduleInv'
<1> SUFFICES ASSUME ScheduleInv, [DNext]_dayVars PROVE ScheduleInv'
  OBVIOUS
<1> USE DEF PastRun
<1>1. ASSUME NEW b \in BOOLEAN, StartDaemon(b) PROVE ScheduleInv'
  <2>1. onStart' \in Seq(StageSet)
    BY <1>1, StagesTyped DEF StartDaemon
  <2> QED BY <1>1, <2>1, RunsKept DEF StartDaemon, ScheduleInv
<1>2. ASSUME NEW s \in StageSet, CronTrigger(s) PROVE ScheduleInv'
  BY <1>2, EnterKeeps, RunsKept DEF CronTrigger, ScheduleInv
<1>3. ASSUME NEW s \in StageSet, OperatorRun(s) PROVE ScheduleInv'
  <2>1. <<s, 0>> \in RunIds
    BY SchedulerAssumption DEF RunIds
  <2> QED BY <1>3, <2>1, RowWritten DEF OperatorRun, ScheduleInv
<1>4. ASSUME StartTrigger PROVE ScheduleInv'
  <2>1. Head(onStart) \in StageSet /\ Tail(onStart) \in Seq(StageSet)
    BY <1>4 DEF StartTrigger, ScheduleInv
  <2>2. onStart' \in Seq(StageSet)
    BY <1>4, <2>1 DEF StartTrigger
  <2> QED BY <1>4, <2>1, <2>2, EnterKeeps, RunsKept DEF StartTrigger
<1>5. ASSUME StartRow PROVE ScheduleInv'
  <2>1. IsNext(runId)
    BY <1>5 DEF StartRow, ScheduleInv
  <2>2. runId \in RunIds
    BY <2>1 DEF IsNext, RunIds
  <2> QED BY <1>5, <2>1, <2>2, RowWritten DEF StartRow, ScheduleInv
<1>6. ASSUME EndStage PROVE ScheduleInv'
  <2>0. onStart' \in Seq(StageSet)
    BY <1>6 DEF EndStage, ScheduleInv
  <2>1. CASE UNCHANGED runs
    BY <1>6, <2>0, <2>1, RunsKept DEF EndStage, Release, ScheduleInv
  <2>2. CASE runs' # runs
    <3>1. runId # PastRun /\ active # "none" /\ runs[runId] = "started"
      BY <1>6, <2>2 DEF EndStage
    <3>2. runId \in RunIds
      BY <3>1 DEF ScheduleInv, IsNext, RunIds
    <3>3. PICK st \in {"completed", "partial", "failed"} : runs' = [runs EXCEPT ![runId] = st]
      BY <1>6, <2>2 DEF EndStage
    <3> QED BY <1>6, <2>0, <3>1, <3>2, <3>3, RowWritten DEF EndStage, Release, ScheduleInv
  <2> QED BY <2>1, <2>2
<1>7. ASSUME Kill PROVE ScheduleInv'
  BY <1>7, RunsKept DEF Kill
<1>8. ASSUME NextDay PROVE ScheduleInv'
  <2>1. \A s \in StageSet : Tried(s, 0)'
    BY <1>8, SchedulerAssumption DEF NextDay, Tried, RunIds
  <2> QED BY <1>8, <2>1, SchedulerAssumption DEF NextDay, ScheduleInv
<1>9. ASSUME UNCHANGED dayVars PROVE ScheduleInv'
  BY <1>9, RunsKept DEF dayVars, ScheduleInv
<1> QED BY <1>1, <1>2, <1>3, <1>4, <1>5, <1>6, <1>7, <1>8, <1>9 DEF DNext

\* RetryIdsAreFresh (ManualTriggerGuard.run, next_retry_run_id): for any stages
\* and number of retries, a stage that the guard lets in has a run id without a
\* row, so that numbering retries by counting them never meets a gap.
THEOREM RetriesAreFresh == DSpec => RetryIdsAreFresh
<1>1. ScheduleInv /\ [DNext]_dayVars =>
        [\A s \in StageSet :
           said' = <<s, "accepted">> /\ said' # said /\ active = "none" =>
             runs[runId'] = "none"]_dayVars
  <2> SUFFICES ASSUME ScheduleInv, DNext, NEW s \in StageSet,
                      said' = <<s, "accepted">>, said' # said, active = "none"
               PROVE  runs[runId'] = "none"
    BY DEF dayVars
  <2>1. ASSUME NEW d \in StageSet, CronTrigger(d) PROVE runs[runId'] = "none"
    <3>1. said' = <<d, "accepted">>
      BY <2>1 DEF CronTrigger, Enter
    <3> QED BY <2>1, <3>1, EnterKeeps DEF CronTrigger
  <2>2. ASSUME StartTrigger PROVE runs[runId'] = "none"
    <3>1. Head(onStart) \in StageSet
      BY <2>2 DEF StartTrigger, ScheduleInv
    <3>2. said' = <<Head(onStart), "accepted">>
      BY <2>2 DEF StartTrigger, Enter
    <3> QED BY <2>2, <3>1, <3>2, EnterKeeps DEF StartTrigger
  <2> QED BY <2>1, <2>2
      DEF DNext, StartDaemon, OperatorRun, StartRow, EndStage, Kill, NextDay
<1> QED BY <1>1, ScheduleInit, ScheduleNext, PTL DEF DSpec, RetryIdsAreFresh

-----------------------------------------------------------------------------
(* The freshness sweep *)

Statuses == {"active", "inactive", "stale", "expired"}

\* A job as of the last time a run observed it, and as it has aged until a
\* successful run last missed it.
FreshRow(id) ==
  LET gap == history[id].missed - history[id].observed IN
  /\ jobs[id] \in [status : Statuses, seen : Nat]
  /\ history[id] \in [observed : Nat, missed : Nat]
  /\ jobs[id].seen = history[id].observed
  /\ history[id].observed <= history[id].missed /\ history[id].missed <= hour
  /\ jobs[id].status = "expired" <=> gap >= ExpiredAfter
  /\ jobs[id].status = "stale" <=> gap \in StaleAfter..ExpiredAfter - 1

FreshInv ==
  /\ hour \in Nat
  /\ DOMAIN history = DOMAIN jobs
  /\ \A id \in DOMAIN jobs : FreshRow(id)

\* A job that a successful run misses ages by its gap, and by nothing else.
LEMMA AgedByGap ==
  ASSUME FreshInv, NEW id \in DOMAIN jobs, NEW gap \in Nat, gap = hour - jobs[id].seen
  PROVE  /\ Aged(jobs[id], TRUE) \in Statuses
         /\ Aged(jobs[id], TRUE) = "expired" <=> gap >= ExpiredAfter
         /\ Aged(jobs[id], TRUE) = "stale" <=> gap \in StaleAfter..ExpiredAfter - 1
<1>1. FreshRow(id) /\ hour \in Nat
  BY DEF FreshInv
<1>2. history[id].missed - history[id].observed <= gap
  BY <1>1 DEF FreshRow
<1>3. CASE gap >= StaleAfter
  BY <1>3, PolicyAssumption DEF Aged, Statuses
<1>4. CASE ~(gap >= StaleAfter)
  <2>1. Aged(jobs[id], TRUE) = jobs[id].status
    BY <1>4, PolicyAssumption DEF Aged
  <2>2. history[id].missed - history[id].observed \in Int
        /\ ~(history[id].missed - history[id].observed >= StaleAfter)
    BY <1>1, <1>2, <1>4, PolicyAssumption DEF FreshRow
  <2>3. jobs[id].status \in Statuses \ {"expired", "stale"}
    BY <1>1, <2>2, PolicyAssumption DEF FreshRow
  <2>4. ~(gap >= ExpiredAfter) /\ gap \notin StaleAfter..ExpiredAfter - 1
    BY <1>4, PolicyAssumption
  <2> QED BY <2>1, <2>3, <2>4
<1> QED BY <1>3, <1>4

\* Every step ages a job by the runs that missed it, and by no other.
LEMMA FreshStep == FreshInv /\ [LNext]_lifecycleVars => FreshInv'
<1> SUFFICES ASSUME FreshInv, [LNext]_lifecycleVars PROVE FreshInv'
  OBVIOUS
<1>1. ASSUME NextHour PROVE FreshInv'
  BY <1>1 DEF NextHour, FreshInv, FreshRow
<1>2. ASSUME NEW id \in Listed, NEW status \in {"active", "inactive"}, WriteJob(id, status)
      PROVE  FreshInv'
  <2>1. DOMAIN history' = DOMAIN jobs' /\ DOMAIN jobs' = DOMAIN jobs \cup {id} /\ hour' = hour
    BY <1>2 DEF WriteJob, Put, FreshInv
  <2>2. ASSUME NEW j \in DOMAIN jobs' PROVE FreshRow(j)'
    <3>1. CASE j = id
      <4>1. jobs'[j] = [status |-> status, seen |-> hour]
            /\ history'[j] = [observed |-> hour, missed |-> hour]
        BY <1>2, <2>1, <3>1 DEF WriteJob, Put
      <4> QED BY <2>1, <4>1, PolicyAssumption DEF FreshRow, Statuses, FreshInv
    <3>2. CASE j # id
      <4>1. jobs'[j] = jobs[j] /\ history'[j] = history[j] /\ j \in DOMAIN jobs
        BY <1>2, <2>1, <2>2, <3>2 DEF WriteJob, Put, FreshInv
      <4> QED BY <2>1, <4>1 DEF FreshRow, FreshInv
    <3> QED BY <3>1, <3>2
  <2> QED BY <2>1, <2>2 DEF FreshInv
<1>3. ASSUME NEW found \in SUBSET Listed, NEW ok \in BOOLEAN, Sweep(found, ok)
      PROVE  FreshInv'
  <2>1. DOMAIN history' = DOMAIN jobs' /\ DOMAIN jobs' = DOMAIN jobs /\ hour' = hour
    BY <1>3 DEF Sweep, Swept, FreshInv
  <2>2. ASSUME NEW j \in DOMAIN jobs' PROVE FreshRow(j)'
    <3>1. j \in DOMAIN jobs /\ j \in DOMAIN history /\ FreshRow(j) /\ hour \in Nat
      BY <2>1, <2>2 DEF FreshInv
    <3>2. CASE j \in found
      <4>1. jobs'[j] = [status |-> "active", seen |-> hour]
            /\ history'[j] = [observed |-> hour, missed |-> hour]
        BY <1>3, <3>1, <3>2 DEF Sweep, Swept
      <4> QED BY <2>1, <3>1, <4>1, PolicyAssumption DEF FreshRow, Statuses
    <3>3. CASE j \notin found /\ ok
      <4>1. jobs'[j] = [jobs[j] EXCEPT !.status = Aged(jobs[j], TRUE)]
            /\ history'[j] = [history[j] EXCEPT !.missed = hour]
        BY <1>3, <3>1, <3>3 DEF Sweep, Swept
      <4>2. hour - jobs[j].seen \in Nat
        BY <3>1 DEF FreshRow
      <4>3. /\ Aged(jobs[j], TRUE) \in Statuses
            /\ Aged(jobs[j], TRUE) = "expired" <=> hour - jobs[j].seen >= ExpiredAfter
            /\ Aged(jobs[j], TRUE) = "stale" <=> hour - jobs[j].seen \in StaleAfter..ExpiredAfter - 1
        BY <3>1, <4>2, AgedByGap
      <4>4. jobs'[j] \in [status : Statuses, seen : Nat]
            /\ jobs'[j].seen = jobs[j].seen /\ jobs'[j].status = Aged(jobs[j], TRUE)
        BY <3>1, <4>1, <4>3 DEF FreshRow
      <4>5. history'[j] \in [observed : Nat, missed : Nat]
            /\ history'[j].observed = history[j].observed /\ history'[j].missed = hour
        BY <3>1, <4>1 DEF FreshRow
      <4>6. jobs[j].seen = history[j].observed /\ history[j].observed <= hour
            /\ history[j].observed \in Nat
        BY <3>1 DEF FreshRow
      <4>7. history'[j].missed - history'[j].observed = hour - jobs[j].seen
        BY <4>5, <4>6
      <4>8. /\ jobs'[j].status = "expired" <=>
                 history'[j].missed - history'[j].observed >= ExpiredAfter
            /\ jobs'[j].status = "stale" <=>
                 history'[j].missed - history'[j].observed \in StaleAfter..ExpiredAfter - 1
        BY <4>3, <4>4, <4>7
      <4>9. /\ jobs'[j].seen = history'[j].observed
            /\ history'[j].observed <= history'[j].missed /\ history'[j].missed <= hour'
        BY <2>1, <3>1, <4>4, <4>5, <4>6
      <4> QED BY <4>4, <4>5, <4>8, <4>9 DEF FreshRow
    <3>4. CASE j \notin found /\ ~ok
      <4>1. jobs'[j] = [jobs[j] EXCEPT !.status = jobs[j].status] /\ history'[j] = history[j]
        BY <1>3, <3>1, <3>4 DEF Sweep, Swept, Aged
      <4>2. jobs'[j] = jobs[j]
        BY <3>1, <4>1 DEF FreshRow
      <4> QED BY <2>1, <3>1, <4>1, <4>2 DEF FreshRow
    <3> QED BY <3>2, <3>3, <3>4
  <2> QED BY <2>1, <2>2 DEF FreshInv
<1>4. ASSUME UNCHANGED <<hour, jobs, history>> PROVE FreshInv'
  BY <1>4 DEF FreshInv, FreshRow
<1> QED BY <1>1, <1>2, <1>3, <1>4 DEF LNext, SweepNext, DedupNext, Evaluate, lifecycleVars

\* Sweeping again at once changes nothing, and counts every job as unchanged.
LEMMA SweepTwice ==
  ASSUME FreshInv, NEW found \in SUBSET Listed, NEW ok \in BOOLEAN
  PROVE  /\ Swept(Swept(jobs, found, ok), found, ok) = Swept(jobs, found, ok)
         /\ Unchanged(Swept(jobs, found, ok), found, ok) = Cardinality(DOMAIN jobs)
<1> DEFINE once == Swept(jobs, found, ok)
           again == Swept(once, found, ok)
<1>1. DOMAIN once = DOMAIN jobs /\ DOMAIN again = DOMAIN jobs
  BY DEF Swept
<1>2. \A id \in DOMAIN jobs : again[id] = once[id]
  <2> SUFFICES ASSUME NEW id \in DOMAIN jobs PROVE again[id] = once[id]
    OBVIOUS
  <2>1. jobs[id] \in [status : Statuses, seen : Nat]
    BY DEF FreshInv, FreshRow
  <2>2. CASE id \in found
    BY <1>1, <2>2 DEF Swept
  <2>3. CASE id \notin found
    <3>1. once[id] = [jobs[id] EXCEPT !.status = Aged(jobs[id], ok)]
      BY <2>3 DEF Swept
    <3>2. again[id] = [once[id] EXCEPT !.status = Aged(once[id], ok)]
      BY <1>1, <2>3 DEF Swept
    <3>3. once[id].seen = jobs[id].seen /\ once[id].status = Aged(jobs[id], ok)
      BY <2>1, <3>1
    <3>4. Aged(once[id], ok) = once[id].status
      BY <3>3 DEF Aged
    <3> HIDE DEF once, again
    <3> QED BY <2>1, <3>1, <3>2, <3>4
  <2> QED BY <2>2, <2>3
<1>3. again = once
  BY <1>1, <1>2 DEF Swept
<1>4. {id \in DOMAIN once : again[id].status = once[id].status} = DOMAIN jobs
  BY <1>1, <1>2
<1> QED BY <1>3, <1>4 DEF Unchanged

\* Ages and statuses follow from what the runs have missed.
LEMMA AgesAreFair == FreshInv => AgedIsMissed
<1> SUFFICES ASSUME FreshInv PROVE AgedIsMissed
  OBVIOUS
<1>1. \A id \in DOMAIN jobs :
        LET gap == history[id].missed - history[id].observed IN
        /\ jobs[id].status = "expired" <=> gap >= ExpiredAfter
        /\ jobs[id].status = "stale" <=> gap \in StaleAfter..ExpiredAfter - 1
  BY DEF FreshInv, FreshRow
<1> QED BY <1>1, SweepTwice DEF AgedIsMissed

-----------------------------------------------------------------------------
(* Deduplication *)

Updates == {"duplicate_identity", "slug_drift", "identity_collision"}
Decisions ==
  [action : {"quarantine", "insert", "update"},
   reason : Updates \cup {"missing_identity", "fallback_fingerprint", "new_identity"}]

\* Candidate i is the last before position n with the key of candidate c.
LastWith(i, c, n) ==
  /\ i \in 1..n /\ KeyOf(decided[i].candidate) = KeyOf(c)
  /\ \A k \in 1..n : KeyOf(decided[k].candidate) = KeyOf(c) => k <= i

\* What decided about candidate j: its key, or the last candidate with that key.
Explained(j) ==
  LET c == decided[j].candidate
      d == decided[j].decision
  IN \/ KeyOf(c) = << >> /\ d = [action |-> "quarantine", reason |-> "missing_identity"]
     \/ /\ KeyOf(c) # << >>
        /\ \A k \in 1..j - 1 : KeyOf(decided[k].candidate) # KeyOf(c)
        /\ d.action = "insert" /\ d.reason \in {"fallback_fingerprint", "new_identity"}
     \/ /\ KeyOf(c) # << >>
        /\ \E i \in 1..j - 1 :
             /\ LastWith(i, c, j - 1)
             /\ d = [action |-> "update", reason |-> DuplicateReason(decided[i].candidate, c)]

\* The engine has the last candidate of each key that was met.
EngineIsLatest ==
  \A c \in Candidates :
    KeyOf(c) # << >> =>
      \/ /\ KeyOf(c) \notin DOMAIN engine
         /\ \A k \in 1..Len(decided) : KeyOf(decided[k].candidate) # KeyOf(c)
      \/ /\ KeyOf(c) \in DOMAIN engine
         /\ \E i \in 1..Len(decided) :
              LastWith(i, c, Len(decided)) /\ engine[KeyOf(c)] = decided[i].candidate

DedupInv ==
  /\ decided \in Seq([candidate : Candidates, decision : Decisions])
  /\ EngineIsLatest
  /\ \A j \in 1..Len(decided) : Explained(j)

\* Every evaluated candidate is explained by the ones before it.
LEMMA DedupStep == DedupInv /\ [LNext]_lifecycleVars => DedupInv'
<1> SUFFICES ASSUME DedupInv, [LNext]_lifecycleVars PROVE DedupInv'
  OBVIOUS
<1>1. ASSUME UNCHANGED <<engine, decided>> PROVE DedupInv'
  BY <1>1 DEF DedupInv, EngineIsLatest, Explained, LastWith
<1>2. ASSUME NEW c \in Candidates, Evaluate(c) PROVE DedupInv'
  <2> DEFINE entry == [candidate |-> c, decision |-> Decision(c)]
  <2>0. PICK n \in Nat : n = Len(decided)
    BY DEF DedupInv
  <2>1. decided \in Seq([candidate : Candidates, decision : Decisions]) /\ Len(decided) = n
    BY <2>0 DEF DedupInv
  <2>2. Decision(c) \in Decisions
    <3>1. \A old : DuplicateReason(old, c) \in Updates
      BY DEF DuplicateReason, Updates
    <3>2. CASE KeyOf(c) = << >>
      BY <3>2 DEF Decision, Decisions
    <3>3. CASE KeyOf(c) # << >> /\ KeyOf(c) \notin DOMAIN engine
      BY <3>3 DEF Decision, Decisions
    <3>4. CASE KeyOf(c) # << >> /\ KeyOf(c) \in DOMAIN engine
      BY <3>1, <3>4 DEF Decision, Decisions
    <3> QED BY <3>2, <3>3, <3>4
  <2>3. decided' = Append(decided, entry) /\ entry \in [candidate : Candidates, decision : Decisions]
    BY <1>2, <2>2 DEF Evaluate
  <2> HIDE DEF entry
  <2>4. /\ decided' \in Seq([candidate : Candidates, decision : Decisions])
        /\ Len(decided') = n + 1 /\ decided'[n + 1] = entry
        /\ \A k \in 1..n : decided'[k] = decided[k]
    BY <2>1, <2>3
  <2>5. entry.candidate = c /\ entry.decision = Decision(c)
    BY DEF entry
  <2>7. \A j \in 1..n : Explained(j)'
    <3> SUFFICES ASSUME NEW j \in 1..n PROVE Explained(j)'
      OBVIOUS
    <3>1. Explained(j)
      BY <2>1 DEF DedupInv
    <3>2. \A k \in 1..j - 1 : decided'[k] = decided[k]
      BY <2>1, <2>4
    <3>3. decided'[j] = decided[j]
      BY <2>4
    <3>4. \A i : LastWith(i, decided[j].candidate, j - 1) => LastWith(i, decided[j].candidate, j - 1)'
      BY <2>1, <2>4 DEF LastWith
    <3> QED BY <3>1, <3>2, <3>3, <3>4 DEF Explained, LastWith
  <2>8. Explained(n + 1)'
    <3>1. CASE KeyOf(c) = << >>
      BY <2>4, <2>5, <3>1 DEF Explained, Decision
    <3>2. CASE KeyOf(c) # << >> /\ KeyOf(c) \notin DOMAIN engine
      <4>1. \A k \in 1..n : KeyOf(decided[k].candidate) # KeyOf(c)
        BY <2>1, <3>2 DEF DedupInv, EngineIsLatest
      <4>2. /\ Decision(c).action = "insert"
            /\ Decision(c).reason \in {"fallback_fingerprint", "new_identity"}
        BY <3>2 DEF Decision
      <4>3. (n + 1) - 1 = n
        BY <2>1
      <4> QED BY <2>4, <2>5, <3>2, <4>1, <4>2, <4>3 DEF Explained
    <3>3. CASE KeyOf(c) # << >> /\ KeyOf(c) \in DOMAIN engine
      <4>1. PICK i \in 1..n : LastWith(i, c, n) /\ engine[KeyOf(c)] = decided[i].candidate
        BY <2>1, <3>3 DEF DedupInv, EngineIsLatest
      <4>2. Decision(c) = [action |-> "update", reason |-> DuplicateReason(decided[i].candidate, c)]
        BY <3>3, <4>1 DEF Decision
      <4>3. (n + 1) - 1 = n
        BY <2>1
      <4>4. LastWith(i, c, n)'
        BY <2>4, <4>1 DEF LastWith
      <4> QED BY <2>4, <2>5, <3>3, <4>1, <4>2, <4>3, <4>4 DEF Explained, LastWith
    <3> QED BY <3>1, <3>2, <3>3
  <2>9. EngineIsLatest'
    <3> SUFFICES ASSUME NEW b \in Candidates, KeyOf(b) # << >>
                 PROVE  \/ /\ KeyOf(b) \notin DOMAIN engine'
                           /\ \A k \in 1..n + 1 : KeyOf(decided'[k].candidate) # KeyOf(b)
                        \/ /\ KeyOf(b) \in DOMAIN engine'
                           /\ \E i \in 1..n + 1 : /\ LastWith(i, b, n + 1)'
                                                  /\ engine'[KeyOf(b)] = decided'[i].candidate
      BY <2>4 DEF EngineIsLatest, LastWith
    <3>1. CASE KeyOf(b) = KeyOf(c)
      <4>1. KeyOf(b) \in DOMAIN engine' /\ engine'[KeyOf(b)] = c
        BY <1>2, <3>1 DEF Evaluate, Remember, Put
      <4>2. LastWith(n + 1, b, n + 1)'
        BY <2>1, <2>4, <2>5, <3>1 DEF LastWith
      <4> QED BY <2>1, <2>4, <2>5, <4>1, <4>2
    <3>2. CASE KeyOf(b) # KeyOf(c)
      <4>1. /\ KeyOf(b) \in DOMAIN engine' <=> KeyOf(b) \in DOMAIN engine
            /\ KeyOf(b) \in DOMAIN engine => engine'[KeyOf(b)] = engine[KeyOf(b)]
        BY <1>2, <3>2 DEF Evaluate, Remember, Put
      <4>2. KeyOf(decided'[n + 1].candidate) # KeyOf(b)
        BY <2>4, <2>5, <3>2
      <4>3. \A k \in 1..n + 1 : k \in 1..n \/ k = n + 1
        BY <2>1
      <4>4. CASE KeyOf(b) \notin DOMAIN engine
        <5>1. \A k \in 1..n : KeyOf(decided[k].candidate) # KeyOf(b)
          BY <2>1, <4>4 DEF DedupInv, EngineIsLatest
        <5> QED BY <2>4, <4>1, <4>2, <4>3, <4>4, <5>1
      <4>5. CASE KeyOf(b) \in DOMAIN engine
        <5>1. PICK i \in 1..n : LastWith(i, b, n) /\ engine[KeyOf(b)] = decided[i].candidate
          BY <2>1, <4>5 DEF DedupInv, EngineIsLatest
        <5>2. LastWith(i, b, n + 1)'
          BY <2>1, <2>4, <4>2, <4>3, <5>1 DEF LastWith
        <5> QED BY <2>1, <2>4, <4>1, <4>5, <5>1, <5>2
      <4> QED BY <4>4, <4>5
    <3> QED BY <3>1, <3>2
  <2>10. \A j \in 1..n + 1 : j \in 1..n \/ j = n + 1
    BY <2>1
  <2> QED BY <2>4, <2>7, <2>8, <2>9, <2>10 DEF DedupInv
<1> QED BY <1>1, <1>2
    DEF LNext, SweepNext, DedupNext, NextHour, WriteJob, Sweep, lifecycleVars

\* A decision depends on the candidate with the same key alone.
LEMMA DedupIsLocal == DedupInv => DecisionsAreLocal
<1> SUFFICES ASSUME DedupInv, NEW j \in DOMAIN decided
             PROVE  LET c == decided[j].candidate
                        d == decided[j].decision
                        earlier == {i \in 1..j - 1 : Same(i, j)}
                        before == decided[CHOOSE i \in earlier : \A k \in earlier : k <= i].candidate
                    IN /\ d.action = "insert" <=> KeyOf(c) # << >> /\ earlier = {}
                       /\ d.action = "update" <=> earlier # {}
                       /\ d.reason = "identity_collision" <=>
                            /\ earlier # {}
                            /\ before.title # c.title /\ before.company # c.company
                            /\ "none" \notin {before.slug, c.slug} /\ before.slug # c.slug
  BY DEF DecisionsAreLocal
<1> DEFINE c == decided[j].candidate
           d == decided[j].decision
           earlier == {i \in 1..j - 1 : Same(i, j)}
           last == CHOOSE i \in earlier : \A k \in earlier : k <= i
           before == decided[last].candidate
           Local == /\ d.action = "insert" <=> KeyOf(c) # << >> /\ earlier = {}
                    /\ d.action = "update" <=> earlier # {}
                    /\ d.reason = "identity_collision" <=>
                         /\ earlier # {}
                         /\ before.title # c.title /\ before.company # c.company
                         /\ "none" \notin {before.slug, c.slug} /\ before.slug # c.slug
<1>1. j \in 1..Len(decided) /\ j \in Nat /\ Explained(j)
  BY DEF DedupInv
<1>2. ASSUME KeyOf(c) = << >>, d = [action |-> "quarantine", reason |-> "missing_identity"]
      PROVE  Local
  <2>1. earlier = {}
    BY <1>2 DEF Same
  <2>2. d.action = "quarantine" /\ d.reason = "missing_identity" /\ KeyOf(c) = << >>
    BY <1>2
  <2> HIDE DEF c, d, earlier, before
  <2> QED BY <2>1, <2>2
<1>3. ASSUME KeyOf(c) # << >>, d.action = "insert",
             \A k \in 1..j - 1 : KeyOf(decided[k].candidate) # KeyOf(c),
             d.reason \in {"fallback_fingerprint", "new_identity"}
      PROVE  Local
  <2>1. earlier = {}
    BY <1>3 DEF Same
  <2>2. /\ d.action = "insert" /\ d.reason \in {"fallback_fingerprint", "new_identity"}
        /\ KeyOf(c) # << >>
    BY <1>3
  <2> HIDE DEF c, d, earlier, before
  <2> QED BY <2>1, <2>2
<1>4. ASSUME KeyOf(c) # << >>, NEW i \in 1..j - 1, LastWith(i, c, j - 1),
             d = [action |-> "update", reason |-> DuplicateReason(decided[i].candidate, c)]
      PROVE  Local
  <2>1. i \in earlier /\ \A k \in earlier : k <= i
    BY <1>4 DEF LastWith, Same
  <2>2. earlier \subseteq Nat
    BY <1>1
  <2> HIDE DEF earlier
  <2>3. last \in earlier /\ \A k \in earlier : k <= last
    BY <2>1
  <2>4. last = i
    <3> HIDE DEF last
    <3> QED BY <2>1, <2>2, <2>3
  <2>5. d.action = "update" /\ d.reason = DuplicateReason(before, c) /\ KeyOf(c) # << >>
    <3>1. before = decided[i].candidate
      <4> HIDE DEF last
      <4> QED BY <2>4
    <3> HIDE DEF c, d, before
    <3> QED BY <1>4, <3>1
  <2> HIDE DEF c, d, last, before
  <2>6. d.reason = "identity_collision" <=>
          /\ before.title # c.title /\ before.company # c.company
          /\ "none" \notin {before.slug, c.slug} /\ before.slug # c.slug
    BY <2>5 DEF DuplicateReason
  <2> QED BY <2>1, <2>5, <2>6
<1>5. Local
  <2>1. \/ KeyOf(c) = << >> /\ d = [action |-> "quarantine", reason |-> "missing_identity"]
        \/ /\ KeyOf(c) # << >> /\ d.action = "insert"
           /\ \A k \in 1..j - 1 : KeyOf(decided[k].candidate) # KeyOf(c)
           /\ d.reason \in {"fallback_fingerprint", "new_identity"}
        \/ KeyOf(c) # << >> /\ \E i \in 1..j - 1 :
             /\ LastWith(i, c, j - 1)
             /\ d = [action |-> "update", reason |-> DuplicateReason(decided[i].candidate, c)]
    BY <1>1 DEF Explained
  <2> HIDE DEF c, d, Local
  <2> QED BY <2>1, <1>2, <1>3, <1>4
<1> QED BY <1>5

\* Both invariants hold before the first run and the first candidate.
LEMMA LifecycleInit == LInit => FreshInv /\ DedupInv
<1> SUFFICES ASSUME LInit PROVE FreshInv /\ DedupInv
  OBVIOUS
<1>1. FreshInv
  BY DEF LInit, FreshInv
<1>2. DedupInv
  BY DEF LInit, DedupInv, EngineIsLatest
<1> QED BY <1>1, <1>2

\* LifecycleInv (FreshnessService.sweep_source, DedupEngine.evaluate): for any
\* jobs, clock and policy, a job is stale or expired exactly by how long ago a
\* run had observed it when a successful run last missed it; and for any
\* candidates a key is inserted once, and updates the last one with that key.
THEOREM LifecycleHolds == LSpec => []LifecycleInv
<1>1. LInit => FreshInv /\ DedupInv
  BY LifecycleInit
<1>2. FreshInv /\ DedupInv /\ [LNext]_lifecycleVars => (FreshInv /\ DedupInv)'
  BY FreshStep, DedupStep
<1>3. FreshInv /\ DedupInv => LifecycleInv
  BY AgesAreFair, DedupIsLocal DEF LifecycleInv
<1> QED BY <1>1, <1>2, <1>3, PTL DEF LSpec

-----------------------------------------------------------------------------
(* The command *)

\* A run of the wizard that reaches anything was confirmed.
Confirmed ==
  FromWizard /\ (step = "run" \/ (step = "done" /\ ran # NoPlan)) =>
    Risks(args, seen) = {} \/ (tty /\ typed = "YES")

\* What has run is what the arguments and the file as it still is ask for.
AsRead ==
  ran # NoPlan \/ touched # {} =>
    /\ step = "done" /\ Loadable(file)
    /\ ran = Plan(args, file) /\ touched = Reach(args, file)

\* The arguments of a run.
Record(stage, source, limit, keyword, keywords, latest, days, execute) ==
  [stage |-> stage, source |-> source, limit |-> limit, keyword |-> keyword, keywords |-> keywords,
   latest |-> latest, days |-> days, execute |-> execute]

\* The stage and the source are ones that the parser knows, and the arguments of
\* the wizard are complete when they are shown.
OneOrNone(S) == S = {} \/ \E x : S = {x}
StageKnown ==
  /\ step \in {"confirm", "run"} => args.stage \in StageChoices
  /\ step \in {"wizard", "ask"} =>
       Given(line.options, "--stage") \subseteq StageChoices /\ Given(line.options, "--source") \subseteq SourceChoices
Asking ==
  step = "ask" =>
    \E stage, source, limit, keyword, keywords, latest, days, execute :
      /\ args = Record(stage, source, limit, keyword, keywords, latest, days, execute)
      /\ latest \in BOOLEAN /\ execute \in BOOLEAN /\ OneOrNone(keywords)
Shown(stage, source, limit, keyword, keywords, latest, days, execute) ==
  /\ stage \in StageChoices /\ source \in SourceChoices
  /\ latest \in BOOLEAN /\ execute \in BOOLEAN /\ OneOrNone(keywords)
  /\ \E n : limit = {n}
  /\ \E n : days = {n}
Showing ==
  step = "confirm" =>
    \E stage, source, limit, keyword, keywords, latest, days, execute :
      /\ args = Record(stage, source, limit, keyword, keywords, latest, days, execute)
      /\ Shown(stage, source, limit, keyword, keywords, latest, days, execute)

\* A preflight that has passed speaks of the file as it is.
StillCleared ==
  cleared # NotCleared =>
    /\ Loadable(file) /\ Executed(cleared.source, cleared.execute, file) # {}
    /\ cleared.execute /\ file.sync => file.base

\* The inductive invariant of Command.
CmdInv == Confirmed /\ AsRead /\ StageKnown /\ Asking /\ Showing /\ StillCleared

LEMMA RunArgsAre ==
  ASSUME NEW options, NEW limit, NEW execute
  PROVE  /\ RunArgs(options, limit, execute).stage = ValueOr(Option(options, "--stage"), "full")
         /\ RunArgs(options, limit, execute).source = ValueOr(Option(options, "--source"), "all")
         /\ RunArgs(options, limit, execute).execute = execute
BY DEF RunArgs

\* The value of an option is one that was given, or the default.
LEMMA OptionIsGiven ==
  ASSUME NEW options, NEW flag, NEW S, NEW default \in S, Given(options, flag) \subseteq S
  PROVE  Option(options, flag) \subseteq S /\ ValueOr(Option(options, flag), default) \in S
<1>1. Option(options, flag) \subseteq S
  BY DEF Option, Given
<1>2. ValueOr(Option(options, flag), default) \in S
  <2>1. CASE Option(options, flag) = {}
    BY <2>1 DEF ValueOr
  <2>2. CASE Option(options, flag) # {}
    <3>1. (CHOOSE x \in Option(options, flag) : TRUE) \in Option(options, flag)
      BY <2>2
    <3> QED BY <1>1, <2>2, <3>1 DEF ValueOr
  <2> QED BY <2>1, <2>2
<1> QED BY <1>1, <1>2

LEMMA CIndInit ==
  CInit => CmdInv
<1> SUFFICES ASSUME CInit
             PROVE  CmdInv
  OBVIOUS
<1>1. step = "idle" /\ ran = NoPlan /\ touched = {} /\ cleared = NotCleared
  BY DEF CInit
<1> QED BY <1>1 DEF CmdInv, Confirmed, AsRead, StageKnown, Asking, Showing, StillCleared

LEMMA EditKeeps ==
  ASSUME CmdInv, EditFile
  PROVE  CmdInv'
<1>1. /\ step' = step /\ line' = line /\ tty' = tty /\ seen' = seen /\ args' = args /\ typed' = typed
      /\ ran' = ran /\ touched' = touched /\ cleared' = NotCleared
      /\ step \notin {"done", "refused"}
  BY DEF EditFile
<1>2. Confirmed'
  BY <1>1 DEF CmdInv, Confirmed, FromWizard
<1>3. AsRead'
  BY <1>1 DEF CmdInv, AsRead
<1>4. StageKnown' /\ StillCleared'
  BY <1>1 DEF CmdInv, StageKnown, StillCleared
<1>5. Asking' /\ Showing'
  BY <1>1 DEF CmdInv, Asking, Showing
<1> QED BY <1>2, <1>3, <1>4, <1>5 DEF CmdInv

\* Before a run nothing has been run.
LEMMA NothingYet ==
  ASSUME CmdInv, step # "done"
  PROVE  ran = NoPlan /\ touched = {}
BY DEF CmdInv, AsRead

LEMMA TypeKeeps ==
  ASSUME CmdInv, TypeCommand
  PROVE  CmdInv'
<1>1. /\ step = "idle" /\ file' = file /\ cleared' = cleared /\ ran' = ran /\ touched' = touched
  BY DEF TypeCommand
<1>2. ran' = NoPlan /\ touched' = {}
  BY <1>1, NothingYet
<1>3. line'.command \in Commands
  BY CommandAssumption DEF TypeCommand
<1>4. CASE ~Accepted(line'.command, line'.options)
  <2>1. step' = "refused"
    BY <1>4 DEF TypeCommand
  <2> QED BY <1>1, <1>2, <2>1 DEF CmdInv, Confirmed, AsRead, StageKnown, Asking, Showing, StillCleared
<1>5. CASE Accepted(line'.command, line'.options)
  <2>1. /\ step' = IF line'.command \in {"run", "quick-dry-run"} THEN "run" ELSE line'.command
        /\ args' = CASE line'.command = "run" -> RunArgs(line'.options, {}, Flag(line'.options, "--execute"))
                     [] line'.command = "quick-dry-run" -> RunArgs(line'.options, {1}, FALSE)
                     [] OTHER -> NoArgs
    BY <1>5 DEF TypeCommand
  <2>2. /\ Given(line'.options, "--stage") \subseteq StageChoices
        /\ Given(line'.options, "--source") \subseteq SourceChoices
    BY <1>5 DEF Accepted
  <2>3. step' = "run" => line'.command \in {"run", "quick-dry-run"}
    BY <1>3, <2>1 DEF Commands, ReadCommands, ReadModes
  <2>4. step' \notin {"done", "confirm", "ask"}
    BY <1>3, <2>1 DEF Commands, ReadCommands, ReadModes
  <2>5. Confirmed'
    BY <2>3, <2>4 DEF Confirmed, FromWizard
  <2>6. AsRead'
    BY <1>2 DEF AsRead
  <2>7. StageKnown'
    <3>1. ASSUME step' = "run"
          PROVE  args'.stage \in StageChoices
      <4>1. args'.stage = ValueOr(Option(line'.options, "--stage"), "full")
        <5>1. CASE line'.command = "run"
          BY <5>1, <2>1, RunArgsAre
        <5>2. CASE line'.command = "quick-dry-run"
          <6>1. args' = RunArgs(line'.options, {1}, FALSE)
            BY <5>2, <2>1
          <6> QED BY <6>1 DEF RunArgs
        <5> QED BY <3>1, <2>3, <5>1, <5>2
      <4>2. "full" \in StageChoices
        BY DEF StageChoices
      <4> QED BY <2>2, <4>1, <4>2, OptionIsGiven
    <3> QED BY <2>2, <2>4, <3>1 DEF StageKnown
  <2>8. StillCleared'
    BY <1>1 DEF CmdInv, StillCleared
  <2>9. Asking' /\ Showing'
    BY <2>4 DEF Asking, Showing
  <2> QED BY <2>5, <2>6, <2>7, <2>8, <2>9 DEF CmdInv
<1> QED BY <1>4, <1>5

LEMMA BeginWizardKeeps ==
  ASSUME CmdInv, BeginWizard
  PROVE  CmdInv'
<1>1. /\ step = "wizard" /\ file' = file /\ cleared' = cleared /\ ran' = ran /\ touched' = touched
      /\ line' = line
  BY DEF BeginWizard
<1>2. ran' = NoPlan /\ touched' = {}
  BY <1>1, NothingYet
<1>3. step' \in {"refused", "read", "ask"}
  BY DEF BeginWizard
<1>4. Confirmed' /\ AsRead'
  BY <1>2, <1>3 DEF Confirmed, AsRead
<1>5. StageKnown'
  BY <1>1, <1>3 DEF CmdInv, StageKnown
<1>6. StillCleared'
  BY <1>1 DEF CmdInv, StillCleared
<1>7. Asking' /\ Showing'
  <2>1. step' = "ask" => \E execute \in BOOLEAN : args' = RunArgs(line.options, {}, execute)
    BY DEF BeginWizard
  <2>2. ASSUME NEW execute \in BOOLEAN
        PROVE  \E stage, source, limit, keyword, keywords, latest, days :
                 /\ RunArgs(line.options, {}, execute) =
                      Record(stage, source, limit, keyword, keywords, latest, days, execute)
                 /\ latest \in BOOLEAN /\ OneOrNone(keywords)
    <3>1. OneOrNone(Option(line.options, "--keywords"))
      BY DEF Option, OneOrNone
    <3>2. Flag(line.options, "--latest") \in BOOLEAN
      BY DEF Flag
    <3> QED BY <3>1, <3>2 DEF RunArgs, Record
  <2>3. step' = "ask" =>
          \E execute \in BOOLEAN : \E stage, source, limit, keyword, keywords, latest, days :
            /\ args' = Record(stage, source, limit, keyword, keywords, latest, days, execute)
            /\ latest \in BOOLEAN /\ OneOrNone(keywords)
    BY <2>1, <2>2
  <2> QED BY <1>3, <2>3 DEF Asking, Showing
<1> QED BY <1>4, <1>5, <1>6, <1>7 DEF CmdInv

LEMMA AskKeeps ==
  ASSUME CmdInv, AskArguments
  PROVE  CmdInv'
<1>1. /\ step = "ask" /\ file' = file /\ cleared' = cleared /\ ran' = ran /\ touched' = touched
      /\ line' = line
  BY DEF AskArguments
<1>2. ran' = NoPlan /\ touched' = {}
  BY <1>1, NothingYet
<1>3. step' \in {"confirm", "refused"}
  BY DEF AskArguments
<1>4. Confirmed' /\ AsRead'
  BY <1>2, <1>3 DEF Confirmed, AsRead
<1>5. PICK stage0, source0, limit0, keyword, keywords0, latest, days0, execute :
             /\ args = Record(stage0, source0, limit0, keyword, keywords0, latest, days0, execute)
             /\ latest \in BOOLEAN /\ execute \in BOOLEAN /\ OneOrNone(keywords0)
  BY <1>1 DEF CmdInv, Asking
<1>6. PICK stage \in Answers(Option(line.options, "--stage"), StageChoices, "full"),
           source \in Answers(Option(line.options, "--source"), SourceChoices, "all"),
           limit \in Answers(args.limit, Numbers \cup {seen.items}, seen.items),
           days \in Answers(args.days, Numbers \cup {seen.days}, seen.days),
           keywords \in IF KeywordTexts(args) = <<>> /\ tty THEN {{}} \cup {{t} : t \in Texts}
                        ELSE {args.keywords} :
             args' = [args EXCEPT !.stage = stage, !.source = source, !.limit = {limit},
                                  !.days = {days}, !.keywords = keywords]
  BY DEF AskArguments
<1>7. args' = Record(stage, source, {limit}, keyword, keywords, latest, {days}, execute)
  BY <1>5, <1>6 DEF Record
<1>8. OneOrNone(keywords)
  <2>1. args.keywords = keywords0
    BY <1>5 DEF Record
  <2> QED BY <1>5, <1>6, <2>1 DEF OneOrNone
<1>9. stage \in StageChoices /\ source \in SourceChoices
  <2>1. "full" \in StageChoices /\ "all" \in SourceChoices
    BY DEF StageChoices, SourceChoices
  <2>2. /\ Given(line.options, "--stage") \subseteq StageChoices
        /\ Given(line.options, "--source") \subseteq SourceChoices
    BY <1>1 DEF CmdInv, StageKnown
  <2>3. /\ Option(line.options, "--stage") \subseteq StageChoices
        /\ Option(line.options, "--source") \subseteq SourceChoices
    BY <2>1, <2>2, OptionIsGiven
  <2> QED BY <1>6, <2>1, <2>3 DEF Answers
<1>10. StageKnown'
  <2>1. args'.stage = stage
    BY <1>7 DEF Record
  <2> QED BY <1>3, <1>9, <2>1 DEF StageKnown
<1>11. Asking' /\ Showing'
  <2>1. Shown(stage, source, {limit}, keyword, keywords, latest, {days}, execute)
    BY <1>5, <1>8, <1>9 DEF Shown
  <2> QED BY <1>3, <1>7, <2>1 DEF Asking, Showing
<1>12. StillCleared'
  BY <1>1 DEF CmdInv, StillCleared
<1> QED BY <1>4, <1>10, <1>11, <1>12 DEF CmdInv

LEMMA ConfirmKeeps ==
  ASSUME CmdInv, Confirm
  PROVE  CmdInv'
<1>1. /\ step = "confirm" /\ file' = file /\ cleared' = cleared /\ ran' = ran /\ touched' = touched
      /\ line' = line /\ args' = args /\ seen' = seen /\ tty' = tty
  BY DEF Confirm
<1>2. ran' = NoPlan /\ touched' = {}
  BY <1>1, NothingYet
<1>3. step' \in {"run", "refused"}
  BY DEF Confirm
<1>4. step' = "run" => Risks(args, seen) = {} \/ (tty /\ typed' = "YES")
  BY DEF Confirm
<1>5. Confirmed' /\ AsRead'
  <2>1. Risks(args, seen)' = Risks(args, seen)
    BY <1>1 DEF Risks, Executed
  <2> QED BY <1>1, <1>2, <1>3, <1>4, <2>1 DEF Confirmed, AsRead
<1>6. StageKnown'
  BY <1>1, <1>3 DEF CmdInv, StageKnown
<1>7. StillCleared'
  BY <1>1 DEF CmdInv, StillCleared
<1> QED BY <1>3, <1>5, <1>6, <1>7 DEF CmdInv, Asking, Showing

LEMMA RunKeeps ==
  ASSUME CmdInv, RunPipeline
  PROVE  CmdInv'
<1>1. /\ step = "run" /\ file' = file /\ cleared' = cleared
      /\ line' = line /\ args' = args /\ seen' = seen /\ tty' = tty /\ typed' = typed
  BY DEF RunPipeline
<1>2. step' \in {"done", "refused"}
  BY DEF RunPipeline
<1>3. Confirmed'
  <2>1. FromWizard => Risks(args, seen) = {} \/ (tty /\ typed = "YES")
    BY <1>1 DEF CmdInv, Confirmed
  <2>2. Risks(args, seen)' = Risks(args, seen) /\ FromWizard' = FromWizard
    BY <1>1 DEF Risks, Executed, FromWizard
  <2> QED BY <1>1, <2>1, <2>2 DEF Confirmed
<1>4. AsRead'
  <2>1. CASE step' = "done"
    <3>1. /\ Loadable(file) /\ ran' = Plan(args, file) /\ touched' = Reach(args, file)
      BY <2>1 DEF RunPipeline
    <3>2. Loadable(file)' /\ ran' = Plan(args, file)' /\ touched' = Reach(args, file)'
      BY <1>1, <3>1
    <3> QED BY <2>1, <3>2 DEF AsRead
  <2>2. CASE step' = "refused"
    <3>1. ran' = ran /\ touched' = touched
      BY <2>2 DEF RunPipeline
    <3>2. ran' = NoPlan /\ touched' = {}
      BY <1>1, <3>1, NothingYet
    <3> QED BY <3>2 DEF AsRead
  <2> QED BY <1>2, <2>1, <2>2
<1>5. StageKnown'
  BY <1>2 DEF StageKnown
<1>6. StillCleared'
  BY <1>1 DEF CmdInv, StillCleared
<1> QED BY <1>2, <1>3, <1>4, <1>5, <1>6 DEF CmdInv, Asking, Showing

\* A step that leaves what has run and ends the command keeps the invariant, if
\* its preflight holds.
LEMMA EndKeeps ==
  ASSUME CmdInv, step \notin {"done"}, step' \in {"done", "refused"},
         ran' = ran, touched' = touched, StillCleared'
  PROVE  CmdInv'
<1>1. ran' = NoPlan /\ touched' = {}
  BY NothingYet
<1> QED BY <1>1 DEF CmdInv, Confirmed, AsRead, StageKnown, Asking, Showing

LEMMA PreflightKeeps ==
  ASSUME CmdInv, Preflight
  PROVE  CmdInv'
<1> DEFINE r == RunArgs(line.options, {}, Flag(line.options, "--execute"))
           new == [stage |-> r.stage, source |-> r.source, execute |-> r.execute]
<1>1. step = "preflight" /\ file' = file /\ ran' = ran /\ touched' = touched
  BY DEF Preflight
<1>2. PICK outside \in BOOLEAN, probe \in BOOLEAN :
        /\ step' = IF Loadable(file) /\ Executed(r.source, r.execute, file) # {} THEN "done" ELSE "refused"
        /\ cleared' =
             IF /\ step' = "done" /\ outside /\ BackendMode(file, r.execute).ok
                /\ r.execute /\ file.sync => file.base /\ probe
             THEN new ELSE cleared
  BY DEF Preflight
<1>3. step' \in {"done", "refused"}
  BY <1>2
<1>4. StillCleared'
  <2>1. CASE cleared' = cleared
    BY <2>1, <1>1 DEF CmdInv, StillCleared
  <2>2. CASE cleared' # cleared
    <3>1. cleared' = new /\ step' = "done" /\ (r.execute /\ file.sync => file.base)
      BY <2>2, <1>2
    <3>2. Loadable(file) /\ Executed(r.source, r.execute, file) # {}
      BY <3>1, <1>2
    <3>3. cleared'.source = r.source /\ cleared'.execute = r.execute
      BY <3>1
    <3> HIDE DEF r, new
    <3> QED BY <1>1, <3>1, <3>2, <3>3 DEF StillCleared
  <2> QED BY <2>1, <2>2
<1> QED BY <1>1, <1>3, <1>4, EndKeeps

LEMMA ReadBackKeeps ==
  ASSUME CmdInv, ReadBack
  PROVE  CmdInv'
<1>1. /\ step # "done" /\ step' \in {"done", "refused"}
      /\ file' = file /\ cleared' = cleared /\ ran' = ran /\ touched' = touched
  BY DEF ReadBack, ReadCommands, ReadModes
<1>2. StillCleared'
  BY <1>1 DEF CmdInv, StillCleared
<1> QED BY <1>1, <1>2, EndKeeps

LEMMA ExitKeeps ==
  ASSUME CmdInv, Exit
  PROVE  CmdInv'
<1>1. step' = "idle" /\ ran' = NoPlan /\ touched' = {} /\ file' = file /\ cleared' = cleared
  BY DEF Exit
<1> QED BY <1>1 DEF CmdInv, Confirmed, AsRead, StageKnown, Asking, Showing, StillCleared

LEMMA CIndStep ==
  CmdInv /\ [CNext]_commandVars => CmdInv'
<1>1. ASSUME CmdInv, UNCHANGED commandVars
      PROVE  CmdInv'
  BY <1>1 DEF commandVars, CmdInv, Confirmed, AsRead, StageKnown, Asking, Showing, StillCleared, FromWizard
<1> QED BY <1>1, EditKeeps, TypeKeeps, BeginWizardKeeps, AskKeeps, ConfirmKeeps, RunKeeps,
           PreflightKeeps, ReadBackKeeps, ExitKeeps DEF CNext

\* A run that is not executed reaches nothing; and whatever an executed one of
\* loadable settings reaches, its summary has disclosed.
LEMMA ReachIsDisclosed ==
  ASSUME NEW r, NEW s
  PROVE  /\ Reach(r, s) # {} => r.execute
         /\ Risks(r, s) = {} => ~r.execute
BY DEF Reach, Risks

LEMMA LiveIsShown ==
  ASSUME NEW r, NEW s, "backend" \in Reach(r, s), "backend" \notin Platforms
  PROVE  BackendMode(s, r.execute).mode = "live" /\ s.sync
<1>1. r.execute /\ BackendClient(s, TRUE) = "live"
  BY DEF Reach, Executed
<1>2. s.sync
  BY <1>1 DEF BackendClient
<1> QED BY <1>1, <1>2 DEF BackendMode

LEMMA ReachIsShown ==
  ASSUME Loadable(file), file = seen, "backend" \notin Platforms
  PROVE  Reach(args, file) \subseteq Disclosed
<1> SUFFICES ASSUME NEW x \in Reach(args, file)
             PROVE  x \in Disclosed
  OBVIOUS
<1>1. args.execute
  BY DEF Reach
<1>2. "execute" \in Risks(args, seen)
  BY <1>1 DEF Risks
<1>3. \/ x = "database"
      \/ x \in Executed(args.source, TRUE, file)
      \/ x = "ai" /\ AiClient(file, TRUE)
      \/ x = "backend database"
      \/ x = "backend" /\ BackendClient(file, TRUE) = "live"
  BY DEF Reach
<1>4. ASSUME x = "database" \/ (x \in Platforms /\ x # "jobstreet") \/ x = "backend database"
      PROVE  x \in Disclosed
  BY <1>2, <1>4 DEF Disclosed
<1>5. ASSUME x \in Risks(args, seen)
      PROVE  x \in Disclosed
  BY <1>5 DEF Disclosed
<1>6. ASSUME x = "jobstreet", x \in Executed(args.source, TRUE, file)
      PROVE  x \in Risks(args, seen)
  <2>1. "jobstreet" \in file.enabled
    BY <1>6 DEF Executed
  <2>2. file.token
    BY <2>1 DEF Loadable
  <2> QED BY <1>1, <1>6, <2>2 DEF Risks
<1>7. ASSUME x = "ai", AiClient(file, TRUE)
      PROVE  x \in Risks(args, seen)
  <2>1. file.ai
    BY <1>7 DEF AiClient
  <2> QED BY <1>1, <1>7, <2>1 DEF Risks
<1>8. ASSUME x = "backend", BackendClient(file, TRUE) = "live"
      PROVE  x \in Risks(args, seen)
  <2>1. file.sync
    BY <1>8 DEF BackendClient
  <2> QED BY <1>8, <2>1 DEF Risks
<1>9. x \in Executed(args.source, TRUE, file) => x \in Platforms
  BY DEF Executed
<1> QED BY <1>3, <1>4, <1>5, <1>6, <1>7, <1>8, <1>9

\* The options that the wizard prints for its arguments say the same to the parser.
LEMMA TokensAre ==
  ASSUME NEW stage, NEW source, NEW limit, NEW keyword, NEW keywords, NEW latest, NEW days, NEW execute,
         Shown(stage, source, limit, keyword, keywords, latest, days, execute)
  PROVE  LET a == Record(stage, source, limit, keyword, keywords, latest, days, execute)
             options == RunTokens(a)
         IN /\ Accepted("run", options) <=> limit \subseteq 1..5000 /\ days \subseteq 1..365
            /\ RunArgs(options, {}, Flag(options, "--execute")) = a
<1> DEFINE a == Record(stage, source, limit, keyword, keywords, latest, days, execute)
           options == RunTokens(a)
<1>1. ASSUME NEW value, NEW flag, options[flag] = <<value>>
      PROVE  Given(options, flag) = {value} /\ Option(options, flag) = {value} /\ Flag(options, flag)
  <2>1. Len(<<value>>) = 1 /\ DOMAIN <<value>> = {1} /\ <<value>>[1] = value
    OBVIOUS
  <2> HIDE DEF options
  <2>2. Given(options, flag) = {value} /\ Option(options, flag) = {value}
    BY <1>1, <2>1 DEF Given, Option
  <2> QED BY <2>2 DEF Flag
<1>2. ASSUME NEW flag, options[flag] = <<>>
      PROVE  Given(options, flag) = {} /\ Option(options, flag) = {} /\ ~Flag(options, flag)
  <2>1. DOMAIN <<>> = {}
    OBVIOUS
  <2> HIDE DEF options
  <2>2. Given(options, flag) = {} /\ Option(options, flag) = {}
    BY <1>2, <2>1 DEF Given, Option
  <2> QED BY <2>2 DEF Flag
<1>3. /\ options["--stage"] = <<stage>> /\ options["--source"] = <<source>>
      /\ options["--keyword"] = keyword
  BY DEF RunTokens, Record, Flags
<1>4. PICK n, m : limit = {n} /\ days = {m}
  BY DEF Shown
<1>5. \A x : ValueOr({x}, "") = x
  BY DEF ValueOr
<1>6. options["--limit"] = <<n>> /\ options["--recency-days"] = <<m>>
  BY <1>4, <1>5 DEF RunTokens, Record, Flags
<1>7. \/ keywords = {} /\ options["--keywords"] = <<>>
      \/ \E x : keywords = {x} /\ options["--keywords"] = <<x>>
  BY <1>5 DEF RunTokens, Record, Flags, Shown, OneOrNone
<1>8. /\ latest => options["--latest"] = <<"">>
      /\ ~latest => options["--latest"] = <<>>
  BY DEF RunTokens, Record, Flags
<1>9. /\ execute => options["--execute"] = <<"">> /\ options["--dry-run"] = <<>>
      /\ ~execute => options["--execute"] = <<>> /\ options["--dry-run"] = <<"">>
  BY DEF RunTokens, Record, Flags
<1> HIDE DEF options, a
<1>10. /\ Given(options, "--stage") = {stage} /\ Option(options, "--stage") = {stage}
       /\ Given(options, "--source") = {source} /\ Option(options, "--source") = {source}
       /\ Given(options, "--limit") = limit /\ Option(options, "--limit") = limit /\ Flag(options, "--limit")
       /\ Given(options, "--recency-days") = days /\ Option(options, "--recency-days") = days
  BY <1>1, <1>3, <1>4, <1>6
<1>11. Option(options, "--keywords") = keywords
  BY <1>1, <1>2, <1>7
<1>12. Flag(options, "--latest") <=> latest
  BY <1>1, <1>2, <1>8
<1>13. (Flag(options, "--execute") <=> execute) /\ (Flag(options, "--dry-run") <=> ~execute)
  BY <1>1, <1>2, <1>9
<1>14. Accepted("run", options) <=> limit \subseteq 1..5000 /\ days \subseteq 1..365
  <2>1. stage \in StageChoices /\ source \in SourceChoices
    BY DEF Shown
  <2>2. Flag(options, "--dry-run") # Flag(options, "--execute")
    BY <1>13 DEF Flag
  <2> QED BY <1>10, <2>1, <2>2 DEF Accepted
<1>15. RunArgs(options, {}, Flag(options, "--execute")) = a
  <2>1. Flag(options, "--execute") = execute /\ Flag(options, "--latest") = latest
    BY <1>12, <1>13 DEF Flag, Shown
  <2>2. \A x, default : ValueOr({x}, default) = x
    BY DEF ValueOr
  <2>3. RunArgs(options, {}, execute) =
          [stage |-> ValueOr(Option(options, "--stage"), "full"),
           source |-> ValueOr(Option(options, "--source"), "all"),
           limit |-> Option(options, "--limit") \cup {},
           keyword |-> options["--keyword"], keywords |-> Option(options, "--keywords"),
           latest |-> Flag(options, "--latest"), days |-> Option(options, "--recency-days"),
           execute |-> execute]
    BY <1>10 DEF RunArgs
  <2>4. Option(options, "--limit") \cup {} = limit
    BY <1>10
  <2> QED BY <1>3, <1>10, <1>11, <2>1, <2>2, <2>3, <2>4 DEF a, Record
<1> QED BY <1>14, <1>15 DEF a, options

LEMMA CIndCommand ==
  CmdInv => CommandInv
<1> SUFFICES ASSUME CmdInv
             PROVE  CommandInv
  OBVIOUS
<1>1. DryRunReachesNothing
  BY ReachIsDisclosed DEF DryRunReachesNothing, CmdInv, AsRead
<1>2. RisksAreConfirmed
  <2> SUFFICES ASSUME FromWizard, step = "done", ran # NoPlan, Risks(args, seen) # {} \/ touched # {}
               PROVE  tty /\ typed = "YES"
    BY DEF RisksAreConfirmed
  <2>1. Risks(args, seen) = {} \/ (tty /\ typed = "YES")
    BY DEF CmdInv, Confirmed
  <2>2. touched # {} => Risks(args, seen) # {}
    BY <1>1, ReachIsDisclosed DEF DryRunReachesNothing
  <2> QED BY <2>1, <2>2
<1>3. SummaryIsRun
  <2> SUFFICES ASSUME ran # NoPlan, seen = file
               PROVE  /\ ran = Plan(args, seen)
                      /\ touched \subseteq Disclosed
                      /\ "backend" \in touched => BackendMode(seen, args.execute).mode = "live"
    BY DEF SummaryIsRun
  <2>1. Loadable(file) /\ ran = Plan(args, file) /\ touched = Reach(args, file)
    BY DEF CmdInv, AsRead
  <2> QED BY <2>1, ReachIsShown, LiveIsShown, CommandAssumption
<1>4. PreflightClears
  <2> SUFFICES ASSUME step = "run",
                      cleared = [stage |-> args.stage, source |-> args.source, execute |-> args.execute]
               PROVE  /\ Loadable(file) /\ Executed(args.source, args.execute, file) # {}
                      /\ args.stage \notin {"full", "normalize"} \/ file.ai => Buildable(args, file)
    BY DEF PreflightClears
  <2>1. cleared # NotCleared
    <3>1. args.stage # "none"
      BY DEF CmdInv, StageKnown, StageChoices
    <3>2. cleared.stage = args.stage /\ NotCleared.stage = "none"
      BY DEF NotCleared
    <3> QED BY <3>1, <3>2
  <2>2. /\ Loadable(file) /\ Executed(cleared.source, cleared.execute, file) # {}
        /\ cleared.execute /\ file.sync => file.base
    BY <2>1 DEF CmdInv, StillCleared
  <2>3. cleared.source = args.source /\ cleared.execute = args.execute
    OBVIOUS
  <2>4. Loadable(file) /\ Executed(args.source, args.execute, file) # {}
    BY <2>2, <2>3
  <2>5. args.execute /\ file.sync => file.base
    BY <2>2, <2>3
  <2>6. file.ai => file.openai
    BY <2>4 DEF Loadable
  <2>7. BackendClient(file, args.execute) # "unbuildable"
    BY <2>5 DEF BackendClient
  <2>8. args.execute /\ file.ai => AiClient(file, args.execute)
    BY <2>6 DEF AiClient
  <2>9. args.stage \notin {"full", "normalize"} \/ file.ai => Buildable(args, file)
    BY <2>7, <2>8 DEF Buildable
  <2> QED BY <2>4, <2>9
<1>5. EquivalentIsSame
  <2> SUFFICES ASSUME step = "confirm"
               PROVE  LET options == RunTokens(args) IN
                        /\ Accepted("run", options) <=> args.limit \subseteq 1..5000 /\ args.days \subseteq 1..365
                        /\ RunArgs(options, {}, Flag(options, "--execute")) = args
    BY DEF EquivalentIsSame
  <2>1. PICK stage, source, limit, keyword, keywords, latest, days, execute :
          /\ args = Record(stage, source, limit, keyword, keywords, latest, days, execute)
          /\ Shown(stage, source, limit, keyword, keywords, latest, days, execute)
    BY DEF CmdInv, Showing
  <2>2. args.limit = limit /\ args.days = days
    BY <2>1 DEF Record
  <2> QED BY <2>1, <2>2, TokensAre
<1> QED BY <1>1, <1>2, <1>3, <1>4, <1>5 DEF CommandInv

\* What the command promises of a run, for any command lines, settings and edits
\* of the environment file: a dry run reaches nothing outside; a run of the
\* wizard that risks anything was confirmed by YES at a terminal; it is the run
\* of the summary and reaches what that discloses, if the file is still the
\* same; the equivalent command that it prints is the same run; and a run whose preflight has passed since is not refused for its
\* settings, but for the AI clients.
THEOREM CommandIsKept ==
  CSpec => []CommandInv
<1>1. CSpec => []CmdInv
  BY CIndInit, CIndStep, PTL DEF CSpec
<1> QED BY <1>1, CIndCommand, PTL

\* Only a run leaves jobs marked, and what it marks with sync enabled the
\* backend has accepted.
MarkedByRun ==
  /\ step # "done" => marked = {}
  /\ file.sync => marked \subseteq delivered

LEMMA PostIsAccepted ==
  ASSUME RunPipeline, marked = {}
  PROVE  MarkedByRun'
<1>1. CASE ~(Loadable(file) /\ Runnable(args, file) /\ Buildable(args, file))
  <2>1. marked' = {}
    BY <1>1 DEF RunPipeline, sync
  <2> QED BY <2>1 DEF MarkedByRun
<1>2. CASE Loadable(file) /\ Runnable(args, file) /\ Buildable(args, file)
  <2>1. Post(args, file) /\ step' = "done" /\ file' = file
    BY <1>2 DEF RunPipeline
  <2>2. ASSUME file.sync, args.execute
        PROVE  BackendClient(file, args.execute) = "live"
    BY <1>2, <2>2 DEF Buildable, BackendClient
  <2>3. CASE ~args.execute \/ args.stage \notin {"full", "sync"}
    <3>1. marked' = {}
      BY <2>1, <2>3 DEF Post, sync
    <3> QED BY <3>1 DEF MarkedByRun
  <2>4. CASE args.execute /\ args.stage \in {"full", "sync"}
    <3>1. BackendClient(file, args.execute) = "live" => marked' = delivered'
      BY <2>1, <2>4 DEF Post
    <3> QED BY <2>1, <2>2, <2>4, <3>1 DEF MarkedByRun
  <2> QED BY <2>3, <2>4
<1> QED BY <1>1, <1>2

\* What a run marks as sent with sync enabled the backend has accepted: jobs
\* are marked that nobody has accepted with sync disabled only.
THEOREM SentBySyncIsAccepted == CSpec => [](file.sync => SentIsAccepted)
<1>1. CInit => MarkedByRun
  BY DEF CInit, MarkedByRun
<1>2. MarkedByRun /\ [CNext]_commandVars => MarkedByRun'
  <2> SUFFICES ASSUME MarkedByRun, [CNext]_commandVars PROVE MarkedByRun'
    OBVIOUS
  <2>1. CASE EditFile
    BY <2>1 DEF EditFile, MarkedByRun, sync
  <2>2. CASE TypeCommand
    <3>1. marked = {} /\ marked' = marked
      BY <2>2 DEF TypeCommand, MarkedByRun, sync
    <3> QED BY <3>1 DEF MarkedByRun
  <2>3. CASE BeginWizard
    <3>1. marked = {} /\ marked' = marked
      BY <2>3 DEF BeginWizard, MarkedByRun, sync
    <3> QED BY <3>1 DEF MarkedByRun
  <2>4. CASE AskArguments
    <3>1. marked = {} /\ marked' = marked
      BY <2>4 DEF AskArguments, MarkedByRun, sync
    <3> QED BY <3>1 DEF MarkedByRun
  <2>5. CASE Confirm
    <3>1. step = "confirm"
      BY <2>5 DEF Confirm
    <3>2. marked' = marked
      BY <2>5, Zenon DEF Confirm, sync
    <3> QED BY <3>1, <3>2 DEF MarkedByRun
  <2>6. CASE RunPipeline
    BY <2>6, PostIsAccepted DEF MarkedByRun, RunPipeline
  <2>7. CASE Preflight
    <3>1. marked = {} /\ marked' = marked
      BY <2>7 DEF Preflight, MarkedByRun, sync
    <3> QED BY <3>1 DEF MarkedByRun
  <2>8. CASE ReadBack
    <3>1. marked = {} /\ marked' = marked
      BY <2>8 DEF ReadBack, MarkedByRun, sync, ReadCommands, ReadModes
    <3> QED BY <3>1 DEF MarkedByRun
  <2>9. CASE Exit
    BY <2>9 DEF Exit, MarkedByRun
  <2>10. CASE UNCHANGED commandVars
    BY <2>10 DEF commandVars, MarkedByRun
  <2> QED BY <2>1, <2>2, <2>3, <2>4, <2>5, <2>6, <2>7, <2>8, <2>9, <2>10 DEF CNext
<1>3. MarkedByRun => (file.sync => SentIsAccepted)
  BY DEF MarkedByRun, SentIsAccepted
<1> QED BY <1>1, <1>2, <1>3, PTL DEF CSpec

=============================================================================

--------------------------- MODULE DailyScheduler ---------------------------
(***************************************************************************)
(* The scheduler daemon: DailyPipelineScheduler with its ManualTriggerGuard *)
(* (jobs/scheduler.py) and DeploymentStageRunner (cli/daemon.py).          *)
(*                                                                         *)
(* Today's run ids are <<stage, t>>: t = 0 is scheduled-<day>-<stage>,     *)
(* t > 0 the t-th retry id.  Ids of past days are never looked up again.   *)
(* Cron triggers fire at any time, a stage's at most once at a time; with  *)
(* --run-on-start every stage is also triggered, in order, at the start.   *)
(***************************************************************************)
EXTENDS Naturals, Sequences, FiniteSets

CONSTANTS
  DayStages,    \* the scheduled stages, in order
  RunnerStarts, \* whether ManualPipelineRunner accepts the daemon's arguments;
                \* FALSE is the code: it requires a source_selection as well
  MaxTries      \* bound: retries of one stage and day

ASSUME SchedulerAssumption ==
  DayStages \in Seq(STRING) /\ RunnerStarts \in BOOLEAN /\ MaxTries \in Nat

StageSet == {DayStages[i] : i \in DOMAIN DayStages}
RunIds == StageSet \X (0..MaxTries)

VARIABLES
  runs,    \* runs[id]: status of today's row in scrape_runs, "none" without one
  up,      \* whether the daemon runs
  onStart, \* stages that run_on_start has still to trigger
  awaited, \* whether the active stage is one that run_on_start awaits
  active,  \* the guard: its active stage, "none" when the lock is free
  runId,   \* the run of the active stage; NoRun when there is none
  said     \* history: the last trigger's stage and what became of it

dayVars == <<runs, up, onStart, awaited, active, runId, said>>

NoRun == <<"none", 0>>
\* A run that was started on an earlier day.
PastRun == <<"past", 0>>

DInit ==
  /\ runs = [id \in RunIds |-> "none"]
  /\ up = FALSE
  /\ onStart = <<>>
  /\ awaited = FALSE
  /\ active = "none"
  /\ runId = NoRun
  /\ said = <<"none", "none">>

\* next_retry_run_id numbers retries by counting them.
Retries(s) == Cardinality({t \in 1..MaxTries : runs[<<s, t>>] # "none"})

\* Mutant of ChooseRun: a retry gets the number of the last one.
ChooseRunAgain(s) ==
  IF runs[<<s, 0>>] = "none" THEN <<s, 0>>
  ELSE <<s, IF Retries(s) = 0 THEN 1 ELSE Retries(s)>>

\* run_stage: the day's run id of a stage, or the next retry id.
ChooseRun(s) ==
  IF runs[<<s, 0>>] = "none" THEN <<s, 0>> ELSE <<s, Retries(s) + 1>>

StartDaemon(withStages) ==
  /\ ~up
  /\ up' = TRUE
  /\ onStart' = IF withStages THEN DayStages ELSE <<>>
  /\ UNCHANGED <<runs, awaited, active, runId, said>>

\* ManualTriggerGuard.run up to its first suspension.  The day's completed
\* stage is skipped; the runner's constructor raises when it is not given all
\* of its arguments, before there is a row.
Enter(s) ==
  IF active # "none"
  THEN said' = <<s, "rejected">> /\ UNCHANGED <<active, runId>>
  ELSE IF runs[<<s, 0>>] = "completed"
  THEN said' = <<s, "skipped">> /\ UNCHANGED <<active, runId>>
  ELSE IF ~RunnerStarts
  THEN said' = <<s, "error">> /\ UNCHANGED <<active, runId>>
  ELSE /\ said' = <<s, "accepted">>
       /\ active' = s
       /\ runId' = ChooseRun(s)

\* A cron trigger: max_instances is one, and an error is only logged.
CronTrigger(s) ==
  /\ up
  /\ active # s
  /\ runs[<<s, MaxTries>>] = "none"
  /\ Enter(s)
  /\ UNCHANGED <<runs, up, onStart, awaited>>

\* run_daemon's own triggers, awaited one after the other.  One that is rejected
\* or skipped makes room for the next; an error ends the daemon.
StartTrigger ==
  /\ up /\ onStart # <<>> /\ ~awaited
  /\ runs[<<Head(onStart), MaxTries>>] = "none"
  /\ Enter(Head(onStart))
  /\ up' = (said' # <<Head(onStart), "error">>)
  /\ onStart' = IF up' THEN Tail(onStart) ELSE <<>>
  /\ awaited' = (said' = <<Head(onStart), "accepted">>)
  /\ UNCHANGED runs

\* start_run: the row of a run id that is taken cannot be inserted.
StartRow ==
  /\ active # "none" /\ runId # PastRun
  /\ runs[runId] = "none"
  /\ runs' = [runs EXCEPT ![runId] = "started"]
  /\ UNCHANGED <<up, onStart, awaited, active, runId, said>>

\* Mutant of Release: the guard stays taken when the stage raises.
ReleaseFinished(w) ==
  /\ active' = IF w = "raised" THEN active ELSE "none"
  /\ runId' = IF w = "raised" THEN runId ELSE NoRun
  /\ said' = <<active, w>>

\* The guard is released whether the stage returns or raises.
Release(w) ==
  /\ active' = "none"
  /\ runId' = NoRun
  /\ said' = <<active, w>>

\* The stage returns with its row closed, or raises: after fail_run, with the
\* row left started, or because the row could not be inserted.  A stage that
\* run_on_start awaits ends the daemon when it raises.
EndStage ==
  /\ active # "none"
  /\ \/ /\ runId # PastRun /\ runs[runId] = "started"
        /\ \E st \in {"completed", "partial", "failed"} :
             /\ runs' = [runs EXCEPT ![runId] = st]
             /\ Release(IF st = "failed" THEN "raised" ELSE "finished")
     \/ /\ \E w \in {"raised"} \cup IF runId = PastRun THEN {"finished"} ELSE {} : Release(w)
        /\ UNCHANGED runs
  /\ up' = (up /\ ~(awaited /\ said'[2] = "raised"))
  /\ onStart' = IF up' THEN onStart ELSE <<>>
  /\ awaited' = FALSE

Kill ==
  /\ up
  /\ up' = FALSE /\ onStart' = <<>> /\ awaited' = FALSE
  /\ active' = "none" /\ runId' = NoRun
  /\ UNCHANGED <<runs, said>>

\* An operator runs a stage under the day's run id with the pipeline command.
OperatorRun(s) ==
  /\ runs[<<s, 0>>] = "none"
  /\ \E st \in {"started", "partial", "completed", "failed"} :
       runs' = [runs EXCEPT ![<<s, 0>>] = st]
  /\ UNCHANGED <<up, onStart, awaited, active, runId, said>>

\* Midnight in the scheduler's time zone.
NextDay ==
  /\ runs' = [id \in RunIds |-> "none"]
  /\ runId' = IF active = "none" THEN NoRun ELSE PastRun
  /\ UNCHANGED <<up, onStart, awaited, active, said>>

DNext ==
  \/ \E b \in BOOLEAN : StartDaemon(b)
  \/ \E s \in StageSet : CronTrigger(s) \/ OperatorRun(s)
  \/ StartTrigger \/ StartRow \/ EndStage \/ Kill \/ NextDay

\* A stage that was let in ends: its requests time out.
DFairness == WF_dayVars(EndStage)

DSpec == DInit /\ [][DNext]_dayVars /\ DFairness

-----------------------------------------------------------------------------
(* Properties *)

\* A stage that the guard let in starts under a run id that no run has, unless
\* an operator took it: retry ids of one day and stage are never used twice.
RetryIdsAreFresh ==
  [][\A s \in StageSet :
       said' = <<s, "accepted">> /\ said' # said /\ active = "none" =>
         runs[runId'] = "none"]_dayVars

\* The guard is never taken for good: a raising stage frees it.
GuardIsReleased == active # "none" ~> active = "none"

\* A document's claim: a scheduled stage whose row of the day is missing, failed
\* or partial is run, and only a completed one is skipped.
UnfinishedStageRuns ==
  [][\A s \in StageSet : said' # said => said' # <<s, "error">>]_dayVars
=============================================================================

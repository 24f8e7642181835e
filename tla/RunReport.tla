----------------------------- MODULE RunReport ------------------------------
(***************************************************************************)
(* What the pipeline command reports of a run: the stage rows with their   *)
(* counts, the strict checks of `verify' and `staging-report', and the     *)
(* rows that both read back by the run ids of a day.                       *)
(*                                                                         *)
(* Stages are single steps here; their insides are the other modules'.     *)
(* The raw row and the decision of a job belong to the day that wrote them *)
(* last, so that the report of a day may change when a later day takes     *)
(* jobs over.  Its sync events do not go over: the payload names the run   *)
(* that captured the job, and each capture has an event of its own.        *)
(***************************************************************************)
EXTENDS Integers, FiniteSets

CONSTANTS
  Items,    \* jobs of the sources
  MaxDay,   \* bound: runs, one a day
  MaxFaults,  \* bound: failures of a source, a job, a hook or the process
  Ai        \* whether the AI clients are configured

ASSUME ReportAssumption ==
  IsFiniteSet(Items) /\ MaxDay \in Nat /\ MaxFaults \in Nat /\ Ai \in BOOLEAN

VARIABLES
  sheet,     \* sheet[d][s]: the row of stage s of day d, with its counts
  owner,     \* owner[j]: day whose scrape has the raw row of j, 0 for none
  ready,     \* jobs with a normalized row
  verdict,   \* verdict[j]: [day, decision] of the eligibility decision of j
  ailog,     \* ailog[j]: statuses of the AI requests about j
  skilled,   \* jobs with staged skills
  sent,      \* sent[d]: statuses of the sync events of the jobs that day d captured
  handed,    \* handed[d]: statuses of the handoff rows of day d, by job
  full,      \* day of the full run under way, 0 when there is none
  faults,    \* how many failures there have been
  calm       \* history: days of full runs that met no failure and no known job

reportVars == <<sheet, owner, ready, verdict, ailog, skilled, sent, handed, full, faults, calm>>

DayNumbers == 1..MaxDay
StageNames == {"scrape", "normalize", "enrich", "sync", "notify"}
StageOrder == <<"scrape", "normalize", "enrich", "sync", "notify">>
Missing == [status |-> "missing", fetched |-> 0, persisted |-> 0, skipped |-> 0]
Begun == [Missing EXCEPT !.status = "started"]
Closed(status, fetched, persisted, skipped) ==
  [status |-> status, fetched |-> fetched, persisted |-> persisted, skipped |-> skipped]

RInit ==
  /\ sheet = [d \in DayNumbers |-> [s \in StageNames |-> Missing]]
  /\ owner = [j \in Items |-> 0]
  /\ ready = {}
  /\ verdict = [j \in Items |-> [day |-> 0, decision |-> "none"]]
  /\ ailog = [j \in Items |-> {}]
  /\ skilled = {}
  /\ sent = [d \in DayNumbers |-> [j \in Items |-> "none"]]
  /\ handed = [d \in DayNumbers |-> [j \in Items |-> "none"]]
  /\ full = 0 /\ faults = 0 /\ calm = {}

\* The raw rows that the stages and the report of day d take for theirs.
ScopeOf(d) == {j \in Items : owner[j] = d}

-----------------------------------------------------------------------------
(* The report: the rows that verify_database_state and build_staging_report *)
(* select, and the checks they make of them.                                *)

RawRows(d) == ScopeOf(d)
NormalizedRows(d) == RawRows(d) \cap ready
Decisions(d) == {j \in Items : verdict[j].day = d}
SentEvents(d) == {j \in Items : sent[d][j] = "sent"}
SentHandoffs(d) == {j \in Items : handed[d][j] = "sent"}

\* infer_sync_zero_sent_reason finds one.
SyncReason(d) ==
  LET row == sheet[d]["sync"] IN
    /\ SentEvents(d) = {}
    /\ \/ row.status # "completed"
       \/ /\ row.persisted = 0
          /\ \/ row.skipped > 0
             \/ NormalizedRows(d) = {}
             \/ sheet[d]["enrich"].skipped > 0 /\ sheet[d]["enrich"].persisted = 0
             \/ row.fetched = 0

\* infer_notify_zero_sent_reason finds one.
NotifyReason(d) ==
  LET row == sheet[d]["notify"] IN
    /\ SentHandoffs(d) = {}
    /\ \/ row.status # "completed"
       \/ /\ row.persisted = 0
          /\ row.skipped > 0 \/ SentEvents(d) = {} \/ row.fetched = 0

\* The strict checks that fail for day d, by their names.  The log status they
\* look for, "succeeded", is not one that is ever written.  The two that read
\* error texts (quarantineSafeErrorEvidence, failedStageHasErrorEvidence) are
\* left out, and the command never fills the quarantine.
FailedChecks(d) ==
  LET gap == Cardinality(RawRows(d)) - Cardinality(NormalizedRows(d))
      passed(name) ==
        CASE name = "stageRowsPresent" -> \A s \in StageNames : sheet[d][s] # Missing
          [] name = "normalizeCountInvariant" ->
               \/ gap = 0 \/ sheet[d]["normalize"].skipped > 0
               \/ \E j \in Decisions(d) : verdict[j].decision # "eligible"
          [] name = "normalizeHasEligibilityDecision" -> RawRows(d) \subseteq Decisions(d)
          [] name = "normalizeRespectsEligibilityDecision" ->
               \A j \in NormalizedRows(d) \cap Decisions(d) : verdict[j].decision = "eligible"
          [] name = "enrichFailureHasAiEvidence" ->
               \/ sheet[d]["enrich"].status \notin {"failed", "partial"}
               \/ \E j \in NormalizedRows(d) : ailog[j] # {}
          [] name = "syncZeroSentHasReason" ->
               sheet[d]["sync"].status = "completed" /\ SentEvents(d) = {} => SyncReason(d)
          [] name = "notifyZeroSentHasReason" ->
               sheet[d]["notify"].status = "completed" /\ SentHandoffs(d) = {} => NotifyReason(d)
  IN {name \in {"stageRowsPresent", "normalizeCountInvariant", "normalizeHasEligibilityDecision",
                "normalizeRespectsEligibilityDecision", "enrichFailureHasAiEvidence",
                "syncZeroSentHasReason", "notifyZeroSentHasReason"} : ~passed(name)}

\* verify's status "ok"; staging-report and release gates read the same checks.
Verified(d, failed) == failed = {} /\ \E s \in StageNames : sheet[d][s] # Missing

-----------------------------------------------------------------------------
(* Stages *)

\* Stage s of day d may begin: its row id is free, and its turn has come, as it
\* does in a full run and in a schedule of single stages.
Turn(d, s) ==
  /\ full \in {0, d}
  /\ \A e \in DayNumbers : (e < d) <=> (e # d /\ sheet[e]["scrape"] # Missing)
  /\ \E i \in 1..5 :
       /\ StageOrder[i] = s
       /\ \A k \in 1..5 : (k < i) <=> (sheet[d][StageOrder[k]] # Missing)

\* The row of stage s is closed with these counts.
Close(d, s, row) == sheet' = [sheet EXCEPT ![d][s] = row]

\* Day d has met a failure, or one of its jobs is not treated as new.
Meets(d, failure, known) ==
  /\ faults' = IF failure THEN faults + 1 ELSE faults
  /\ faults' <= MaxFaults
  /\ calm' = IF failure \/ known THEN calm \ {d} ELSE calm

\* run_full begins; the stages follow.
BeginFull(d) ==
  /\ full = 0
  /\ Turn(d, "scrape")
  /\ full' = d
  /\ calm' = calm \cup {d}
  /\ UNCHANGED <<sheet, owner, ready, verdict, ailog, skilled, sent, handed, faults>>

\* A scrape captures jobs; some of its sources may fail.
ScrapeStage(d, jobs, status) ==
  /\ Turn(d, "scrape")
  /\ Close(d, "scrape", Closed(status, Cardinality(jobs), Cardinality(jobs), 0))
  /\ owner' = [j \in Items |-> IF j \in jobs THEN d ELSE owner[j]]
  /\ Meets(d, status # "completed", jobs \cap ready # {})
  /\ UNCHANGED <<ready, verdict, ailog, skilled, sent, handed, full>>

\* What the resolver decides about a job of the scope.
Decision(j, backend) ==
  IF j \in backend THEN "existing_backend" ELSE IF j \in ready THEN "existing" ELSE "eligible"

Decided(d, jobs, backend) ==
  [j \in Items |-> IF j \in jobs THEN [day |-> d, decision |-> Decision(j, backend)]
                   ELSE verdict[j]]

EligibleFor(d, backend) == {j \in ScopeOf(d) : Decision(j, backend) = "eligible"}

\* Mutant of NormalizeStage: jobs that fail are not counted as skipped.
NormalizeStageUncounted(d, done, backend) ==
  LET jobs == EligibleFor(d, backend) IN
  /\ Turn(d, "normalize")
  /\ done \subseteq jobs
  /\ Close(d, "normalize",
           Closed(IF done = jobs THEN "completed" ELSE "partial", Cardinality(ScopeOf(d)),
                  Cardinality(done), 0))
  /\ verdict' = Decided(d, ScopeOf(d), backend)
  /\ ready' = ready \cup done
  /\ ailog' = [j \in Items |-> IF Ai /\ j \in done THEN ailog[j] \cup {"success"} ELSE ailog[j]]
  /\ Meets(d, done # jobs, jobs # ScopeOf(d))
  /\ UNCHANGED <<owner, skilled, sent, handed, full>>

\* The eligible jobs are normalized, or fail and are counted as skipped with
\* the ones that are not eligible.
NormalizeStage(d, done, backend) ==
  LET jobs == EligibleFor(d, backend) IN
  /\ Turn(d, "normalize")
  /\ done \subseteq jobs
  /\ Close(d, "normalize",
           Closed(IF done = jobs THEN "completed" ELSE "partial", Cardinality(ScopeOf(d)),
                  Cardinality(done), Cardinality(ScopeOf(d) \ done)))
  /\ verdict' = Decided(d, ScopeOf(d), backend)
  /\ ready' = ready \cup done
  /\ ailog' = [j \in Items |-> IF Ai /\ j \in done THEN ailog[j] \cup {"success"} ELSE ailog[j]]
  /\ Meets(d, done # jobs, jobs # ScopeOf(d))
  /\ UNCHANGED <<owner, skilled, sent, handed, full>>

\* enrich_hook: without a client it stages what the sources say; with one it
\* returns before it has used it, and reports the same counts.
EnrichStage(d) ==
  LET jobs == NormalizedRows(d) IN
  /\ Turn(d, "enrich")
  /\ Close(d, "enrich", Closed("completed", Cardinality(jobs), Cardinality(jobs), 0))
  /\ skilled' = IF Ai THEN skilled ELSE skilled \cup jobs
  /\ UNCHANGED <<owner, ready, verdict, ailog, sent, handed, full, faults, calm>>

\* The outcome of a sync over the candidates it has attempted.
Outcome(d, ok, tried) ==
  [sent EXCEPT ![d] = [j \in Items |-> IF j \notin tried THEN @[j]
                                       ELSE IF j \in ok THEN "sent" ELSE "failed"]]

\* A job is a candidate unless the event of this capture says that it is sent,
\* whatever the events of its earlier captures say.
SyncCandidatesOf(d) ==
  {j \in NormalizedRows(d) : sent[d][j] # "sent"}

\* sync_hook: the candidates that its filters and its limit leave are sent or fail.
SyncStage(d, ok, tried) ==
  /\ Turn(d, "sync")
  /\ tried \subseteq SyncCandidatesOf(d)
  /\ ok \subseteq tried
  /\ Close(d, "sync",
           Closed("completed", Cardinality(tried), Cardinality(ok), Cardinality(tried \ ok)))
  /\ sent' = Outcome(d, ok, tried)
  /\ Meets(d, ok # tried, tried # SyncCandidatesOf(d))
  /\ UNCHANGED <<owner, ready, verdict, ailog, skilled, handed, full>>

\* The sync whose jobs a notify stage hands off: the one that the same process
\* has completed.
HandoffJobs(d) ==
  IF full = d /\ sheet[d]["sync"].status = "completed" THEN SentEvents(d) ELSE {}

HandedOff(d, ok, tried) ==
  [handed EXCEPT ![d] = [j \in Items |-> IF j \notin tried THEN @[j]
                                         ELSE IF j \in ok THEN "sent" ELSE "failed"]]

\* handoff_hook, the last stage of a full run.
NotifyStage(d, ok) ==
  LET jobs == HandoffJobs(d) IN
  /\ Turn(d, "notify")
  /\ ok \subseteq jobs
  /\ Close(d, "notify",
           Closed("completed", Cardinality(jobs), Cardinality(ok), Cardinality(jobs \ ok)))
  /\ handed' = HandedOff(d, ok, jobs)
  /\ full' = 0
  /\ Meets(d, ok # jobs, FALSE)
  /\ UNCHANGED <<owner, ready, verdict, ailog, skilled, sent>>

\* A hook raises: the row is closed without counts, with what was written so far.
HookFails(d, s, some, ok) ==
  /\ Turn(d, s)
  /\ Close(d, s, [Missing EXCEPT !.status = "failed"])
  /\ ok \subseteq some
  /\ \/ /\ s = "enrich" /\ some \subseteq NormalizedRows(d) /\ ok = some
        /\ skilled' = IF Ai THEN skilled ELSE skilled \cup some
        /\ UNCHANGED <<sent, handed, full>>
     \/ /\ s = "sync" /\ some \subseteq SyncCandidatesOf(d)
        /\ sent' = Outcome(d, ok, some)
        /\ UNCHANGED <<skilled, handed, full>>
     \/ /\ s = "notify" /\ some \subseteq HandoffJobs(d)
        /\ handed' = HandedOff(d, ok, some)
        /\ full' = 0
        /\ UNCHANGED <<skilled, sent>>
  /\ Meets(d, TRUE, FALSE)
  /\ UNCHANGED <<owner, ready, verdict, ailog>>

\* The process dies in stage s: its row stays `started', with what it has
\* committed: the jobs of some sources, or the decisions and some rows.
CutOff(d, s, some, backend) ==
  /\ Turn(d, s)
  /\ Close(d, s, Begun)
  /\ IF s = "scrape"
     THEN owner' = [j \in Items |-> IF j \in some THEN d ELSE owner[j]] /\ UNCHANGED <<ready, verdict, ailog>>
     ELSE IF s = "normalize" /\ some # {}
     THEN /\ some \subseteq EligibleFor(d, backend)
          /\ ready' = ready \cup some
          /\ verdict' = Decided(d, ScopeOf(d), backend)
          /\ ailog' = [j \in Items |-> IF Ai /\ j \in some THEN ailog[j] \cup {"success"} ELSE ailog[j]]
          /\ UNCHANGED owner
     ELSE some = {} /\ UNCHANGED <<owner, ready, verdict, ailog>>
  /\ full' = 0
  /\ Meets(d, TRUE, FALSE)
  /\ UNCHANGED <<skilled, sent, handed>>

RNext ==
  \E d \in DayNumbers :
    \/ BeginFull(d)
    \/ \E jobs \in SUBSET Items, status \in {"completed", "partial"} : ScrapeStage(d, jobs, status)
    \/ \E done \in SUBSET ScopeOf(d), backend \in SUBSET ScopeOf(d) : NormalizeStage(d, done, backend)
    \/ EnrichStage(d)
    \/ \E tried \in SUBSET NormalizedRows(d) : \E ok \in SUBSET tried : SyncStage(d, ok, tried)
    \/ \E ok \in SUBSET HandoffJobs(d) : NotifyStage(d, ok)
    \/ \E s \in {"enrich", "sync", "notify"}, some \in SUBSET NormalizedRows(d) :
         \E ok \in SUBSET some : HookFails(d, s, some, ok)
    \/ \E s \in StageNames \ {"scrape"}, some \in SUBSET ScopeOf(d), backend \in SUBSET ScopeOf(d) :
         CutOff(d, s, some, backend)
    \/ \E some \in SUBSET Items : CutOff(d, "scrape", some, {})

RSpec == RInit /\ [][RNext]_reportVars

-----------------------------------------------------------------------------
(* Properties *)

ReportTypeOK ==
  /\ sheet \in [DayNumbers -> [StageNames ->
       [status : {"missing", "started", "completed", "partial", "failed"},
        fetched : 0..Cardinality(Items), persisted : 0..Cardinality(Items),
        skipped : 0..Cardinality(Items)]]]
  /\ owner \in [Items -> 0..MaxDay] /\ ready \subseteq Items /\ skilled \subseteq Items
  /\ verdict \in [Items -> [day : 0..MaxDay,
                            decision : {"none", "eligible", "existing", "existing_backend"}]]
  /\ ailog \in [Items -> SUBSET {"success", "failed"}]
  /\ sent \in [DayNumbers -> [Items -> {"none", "sent", "failed"}]]
  /\ handed \in [DayNumbers -> [Items -> {"none", "sent", "failed"}]]
  /\ full \in 0..MaxDay /\ faults \in 0..MaxFaults /\ calm \subseteq DayNumbers

\* A full run that met no failure and no job of an earlier day is verified, and
\* stays so although later days take its jobs over.
CalmRunVerifies(d, failed) ==
  d \in calm /\ sheet[d]["notify"].status = "completed" => Verified(d, failed)

\* No run, cut off or not, reports that nothing was sent without a reason.
ZeroSentIsExplained(failed) ==
  failed \cap {"syncZeroSentHasReason", "notifyZeroSentHasReason"} = {}

\* A run that is verified, and whose normalize stage was not cut off, has a
\* normalized row for each raw row but for those it has counted as skipped.
VerifiedIsAccounted(d, failed) ==
  Verified(d, failed) /\ sheet[d]["normalize"].status # "started" =>
    Cardinality(RawRows(d) \ ready) <= sheet[d]["normalize"].skipped

\* The rows that the report counts are those the stages have counted.
CountsAgree(d) ==
  /\ sheet[d]["sync"].status = "completed" =>
       Cardinality(SentEvents(d)) = sheet[d]["sync"].persisted
  /\ sheet[d]["notify"].status = "completed" =>
       Cardinality(SentHandoffs(d)) = sheet[d]["notify"].persisted

\* The report of each day can be relied upon, now and after later days.
ReportInv ==
  /\ ReportTypeOK
  /\ \A d \in DayNumbers :
       LET failed == FailedChecks(d) IN
         /\ CalmRunVerifies(d, failed)
         /\ ZeroSentIsExplained(failed)
         /\ VerifiedIsAccounted(d, failed)
         /\ CountsAgree(d)

\* docs/overview/data-flow.md:45: enrichment "stores skills/requirements in
\* staging tables"; with an AI client it reports so and stores none.
EnrichedIsStaged ==
  [][\A d \in DayNumbers :
       EnrichStage(d) => sheet'[d]["enrich"].persisted <= Cardinality(skilled')]_reportVars

\* cli/pipeline.py:2453: "normalized rows originate only from
\* normalization_eligible raw jobs" fails for rows that do.
NoFalseAlarm ==
  \A d \in DayNumbers : "normalizeRespectsEligibilityDecision" \notin FailedChecks(d)
=============================================================================

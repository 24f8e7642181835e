--------------------------- MODULE NormalizeStage ---------------------------
(***************************************************************************)
(* The normalize stage for one source: PipelineOrchestrator.run_normalize  *)
(* with the eligibility resolver, the quarantine and the AI client.        *)
(*                                                                         *)
(* A stage lists the raw rows of its scrape scope, decides for each row    *)
(* whether it may be normalized, and normalizes the eligible ones with the *)
(* source mapper alone ("mapper"), one AI request per row ("single") or    *)
(* one per batch ("batch").  All writes go through one database session:   *)
(* `work' is what the session sees, `db' what is committed.  An operation  *)
(* that loses its connection is repeated once, after a rollback.           *)
(*                                                                         *)
(* Rows are numbered in the order in which the stage lists them.  AI       *)
(* answers are taken to carry the identity of the row they are about.      *)
(***************************************************************************)
EXTENDS Integers, FiniteSets

CONSTANTS
  Rows,            \* raw rows of the source
  Key,             \* Key[r]: external id, trimmed and in lower case
  NoKey,           \* the key of a blank external id
  Lower,           \* rows whose external id is stored trimmed and in lower case
  Bare,            \* rows whose payload is empty, for which nothing can be asked
  Modes,           \* ways to normalize: "mapper", "single", "batch"
  Quarantine,      \* whether the orchestrator was given a quarantine
  Required,        \* whether the backend look-up must succeed
  AllowReprocess,  \* allow_normalization_reprocess
  BatchSize,       \* AI batch size
  MaxSyncAttempts, \* attempts after which the gate sees a conflict
  MaxStages,       \* bound: stages
  MaxReconnects    \* bound: connections lost during retried operations

ASSUME RowsAssumption == IsFiniteSet(Rows) /\ Rows \subseteq Nat
ASSUME KeysAssumption ==
  /\ DOMAIN Key = Rows
  /\ Lower \subseteq Rows
  /\ \A s, t \in Lower : Key[s] = Key[t] /\ Key[s] # NoKey => s = t
  /\ Bare \subseteq Rows
ASSUME SwitchesAssumption ==
  /\ Modes \subseteq {"mapper", "single", "batch"}
  /\ Quarantine \in BOOLEAN /\ Required \in BOOLEAN /\ AllowReprocess \in BOOLEAN
  /\ BatchSize \in Nat \ {0} /\ MaxSyncAttempts \in Nat
  /\ MaxStages \in Nat /\ MaxReconnects \in Nat

VARIABLES
  db,          \* the database: normalized rows, quarantine, decisions, AI logs
  work,        \* the same as the session of the stage sees it
  sync,        \* sync[r]: state of the latest sync event of r's normalized row
  backend,     \* rows that the Backend API has a job for
  stage,       \* number of the current stage, 0 before the first
  mode,        \* how this stage normalizes
  status,      \* status of the stage's row in scrape_runs
  pc,          \* where the stage is
  scope,       \* raw rows of the stage
  left,        \* eligible rows no batch has taken yet
  batch,       \* rows of the batch that are still to be prepared
  prompts,     \* rows prepared for a request
  asked,       \* rows of the last answer whose result is not recorded yet
  good,        \* rows the last answer has a job for
  tally,       \* the counts the stage will report
  outcome,     \* history: what the tally says of each row in this stage
  reconnects,  \* connections lost so far
  dropped      \* history: a rollback has discarded writes of this stage

storeVars == <<db, work>>
worldVars == <<sync, backend>>
runVars   == <<stage, mode, status, scope>>
queueVars == <<left, batch, prompts, asked, good>>
lineVars  == <<reconnects, dropped>>
vars == <<storeVars, worldVars, runVars, pc, queueVars, tally, outcome, lineVars>>

Reasons ==
  {"normalization_eligible", "duplicate_in_scrape_scope", "existing_backend",
   "existing_normalized_synced", "existing_normalized_unsynced",
   "missing_identity", "identity_conflict", "reprocess_required"}
SyncStates == {"none", "pending", "failed", "sent", "dead-letter"}
Places == {"idle", "gate", "map", "chunk", "prepare", "record", "close"}

\* norm[r]: the stage that wrote r's normalized row, 0 when there is none;
\* held: rows with an open quarantine record; logs: AI request log.
Store ==
  [norm    : [Rows -> 0..MaxStages],
   held    : SUBSET Rows,
   decided : [Rows -> Reasons \cup {"undecided"}],
   logs    : SUBSET (Rows \X (1..MaxStages) \X {"success", "failed"})]

Count == [fetched : Nat, normalized : Nat, skipped : Nat, errors : Nat]
NoCount == [fetched |-> 0, normalized |-> 0, skipped |-> 0, errors |-> 0]

-----------------------------------------------------------------------------
(* Helpers *)

Least(m, n) == IF m < n THEN m ELSE n

\* The first k rows of a list.
Prefixes(S, k) ==
  {P \in SUBSET S : /\ Cardinality(P) = Least(k, Cardinality(S))
                    /\ \A a \in P, b \in S \ P : a < b}

IsFirst(r, S) == r \in S /\ \A s \in S : r <= s

\* upsert_normalized_job
Write(d, r) == [d EXCEPT !.norm[r] = stage]

\* QuarantineRepository.record_raw_job_failure
Hold(d, r) == IF Quarantine THEN [d EXCEPT !.held = @ \cup {r}] ELSE d

\* Mutant of Release: open records of the row stay open.
ReleaseNothing(d, r) == d

\* QuarantineRepository.resolve_for_raw_job
Release(d, r) == IF Quarantine THEN [d EXCEPT !.held = @ \ {r}] ELSE d

\* AIRequestLogRepository.create
Log(d, r, s) == [d EXCEPT !.logs = @ \cup {<<r, stage, s>>}]

\* Mutant of Found: looks rows up by the identity they have in the backend only.
FoundNone(r) == {}

\* _normalized_by_identity: the query compares the stored external id, as it
\* is, with the ids of the scope in lower case.
Found(r) == {t \in Lower : Key[t] = Key[r] /\ work.norm[t] # 0}

\* BackendIdentityLookup.find_existing, which compares in the same way.
InBackend(r, known) == \E t \in known \cap Lower : Key[t] = Key[r]

\* What the gate makes of a row that is normalized already.  The map of sync
\* states has no attempt counts, so that a failed one counts as one attempt;
\* a raw payload never has the hash of a normalized one.
ExistingReason(s) ==
  IF s = "failed"
  THEN IF 1 < MaxSyncAttempts THEN "existing_normalized_unsynced" ELSE "identity_conflict"
  ELSE IF s \in {"pending", "dead-letter"} THEN "existing_normalized_unsynced"
  ELSE IF AllowReprocess THEN "reprocess_required" ELSE "existing_normalized_synced"

\* resolve_for_raw_jobs for one row of the scope.
Decide(r, known) ==
  CASE Key[r] = NoKey -> "missing_identity"
    [] Key[r] # NoKey /\ \E s \in scope : s < r /\ Key[s] = Key[r] ->
         "duplicate_in_scrape_scope"
    [] OTHER ->
         IF InBackend(r, known) THEN "existing_backend"
         ELSE IF Found(r) = {} THEN "normalization_eligible"
         ELSE ExistingReason(sync[CHOOSE t \in Found(r) : TRUE])

Eligible(known) == {r \in scope : Decide(r, known) = "normalization_eligible"}

-----------------------------------------------------------------------------
Init ==
  /\ db = [norm |-> [r \in Rows |-> 0], held |-> {},
           decided |-> [r \in Rows |-> "undecided"], logs |-> {}]
  /\ work = db
  /\ sync = [r \in Rows |-> "none"]
  /\ backend = {}
  /\ stage = 0
  /\ mode \in Modes
  /\ status = "none"
  /\ pc = "idle"
  /\ scope = {}
  /\ left = {} /\ batch = {} /\ prompts = {} /\ asked = {} /\ good = {}
  /\ tally = NoCount
  /\ outcome = [r \in Rows |-> "none"]
  /\ reconnects = 0
  /\ dropped = FALSE

\* Sync stages between two normalize stages.
Deliver(r) ==
  /\ pc = "idle"
  /\ db.norm[r] # 0
  /\ sync[r] \notin {"sent", "dead-letter"}
  /\ \E s \in SyncStates \ {"none"} :
       /\ sync' = [sync EXCEPT ![r] = s]
       /\ backend' \in IF s = "sent" THEN {backend \cup {r}} ELSE {backend, backend \cup {r}}
  /\ UNCHANGED <<storeVars, runVars, pc, queueVars, tally, outcome, lineVars>>

\* start_run commits the run row, and the stage lists the rows that its scrape
\* run captured last: any of them, since other runs may have captured some.
StartStage(m, S) ==
  /\ pc = "idle"
  /\ stage < MaxStages
  /\ stage' = stage + 1
  /\ mode' = m
  /\ scope' = S
  /\ status' = "started"
  /\ tally' = [NoCount EXCEPT !.fetched = Cardinality(S)]
  /\ outcome' = [r \in Rows |-> "none"]
  /\ dropped' = FALSE
  /\ pc' = "gate"
  /\ UNCHANGED <<storeVars, worldVars, queueVars, reconnects>>

\* The gate: one decision per row, in the session.  A look-up that fails ends
\* the stage when it is required (Abort), and finds nothing otherwise.
Gate ==
  /\ pc = "gate"
  /\ \E known \in IF Required THEN {backend} ELSE {backend, {}} :
       /\ work' = [work EXCEPT !.decided =
                     [r \in Rows |-> IF r \in scope THEN Decide(r, known) ELSE @[r]]]
       /\ left' = Eligible(known)
       /\ tally' = [tally EXCEPT !.skipped = @ + Cardinality(scope \ Eligible(known))]
  /\ pc' = IF mode = "mapper" THEN "map" ELSE "chunk"
  /\ UNCHANGED <<db, worldVars, runVars, batch, prompts, asked, good, outcome, lineVars>>

-----------------------------------------------------------------------------
(* Database operations that are repeated once after a lost connection *)

\* The store that the operation finally works on: the session, or the database
\* after the rollback.
Retried(base) ==
  \/ base = work /\ UNCHANGED lineVars
  \/ /\ reconnects < MaxReconnects
     /\ base = db
     /\ reconnects' = reconnects + 1
     /\ dropped' = (dropped \/ work # db)

\* _commit_normalize_progress: a repeated commit has nothing left to commit.
CommitProgress ==
  \/ db' = work /\ UNCHANGED <<work, lineVars>>
  \/ /\ reconnects < MaxReconnects
     /\ work' = db
     /\ reconnects' = reconnects + 1
     /\ dropped' = (dropped \/ work # db)
     /\ UNCHANGED db

-----------------------------------------------------------------------------
(* Outcomes of a row *)

CountSuccess(r) ==
  /\ tally' = [tally EXCEPT !.normalized = @ + 1]
  /\ outcome' = [outcome EXCEPT ![r] = "normalized"]

\* Mutant of CountFailure: an error is reported but the row not counted.
CountErrorOnly(r) ==
  /\ tally' = [tally EXCEPT !.errors = @ + 1]
  /\ outcome' = [outcome EXCEPT ![r] = "failed"]

\* The counts of _record_normalize_failure.
CountFailure(r) ==
  /\ tally' = [tally EXCEPT !.skipped = @ + 1, !.errors = @ + 1]
  /\ outcome' = [outcome EXCEPT ![r] = "failed"]

\* The row is mapped and written without a request.
WriteMapped(r) ==
  /\ \E base \in {work, db} : Retried(base) /\ work' = Release(Write(base, r), r)
  /\ CountSuccess(r)

\* The mapper rejects the row.
RejectRow(r) ==
  /\ work' = Hold(work, r)
  /\ CountFailure(r)
  /\ UNCHANGED lineVars

\* Mapper mode only: the write fails on the second attempt too, and the row
\* is treated as failed although it was mapped.
WriteTwiceLost(r) ==
  /\ reconnects < MaxReconnects
  /\ reconnects' = reconnects + 1
  /\ work' = Hold(db, r)
  /\ dropped' = (dropped \/ work # db)
  /\ CountFailure(r)

\* One row without AI.
MapRow(r) ==
  /\ pc = "map"
  /\ IsFirst(r, left)
  /\ WriteMapped(r) \/ RejectRow(r) \/ WriteTwiceLost(r)
  /\ left' = left \ {r}
  /\ UNCHANGED <<db, worldVars, runVars, pc, batch, prompts, asked, good>>

-----------------------------------------------------------------------------
(* Batches *)

TakeBatch ==
  /\ pc = "chunk"
  /\ left # {}
  /\ CommitProgress
  /\ \E P \in Prefixes(left, BatchSize) : batch' = P /\ left' = left \ P
  /\ pc' = "prepare"
  /\ UNCHANGED <<worldVars, runVars, prompts, asked, good, tally, outcome>>

\* Mutant of BatchDone: a batch of which no row could be prepared does not
\* return to the loop over the batches.
BatchDoneIfAsked ==
  /\ pc = "prepare"
  /\ batch = {} /\ prompts = {} /\ good # {}
  /\ CommitProgress
  /\ pc' = "chunk"
  /\ UNCHANGED <<worldVars, runVars, queueVars, tally, outcome>>

\* _normalize_batch, the loop over the rows of the batch.
PrepareRow(r) ==
  /\ pc = "prepare"
  /\ IsFirst(r, batch)
  /\ batch' = batch \ {r}
  /\ \/ RejectRow(r) /\ UNCHANGED prompts
     \/ r \in Bare /\ WriteMapped(r) /\ UNCHANGED prompts
     \/ /\ r \notin Bare
        /\ prompts' = prompts \cup {r}
        /\ UNCHANGED <<work, tally, outcome, lineVars>>
  /\ UNCHANGED <<db, worldVars, runVars, pc, left, asked, good>>

\* The request, for all rows of the batch or for the next one.  The answer has
\* a job for some of the rows; none when the client raised an error, when the
\* answer is not a valid batch, or when its items are not the rows in order.
Ask ==
  /\ pc = "prepare"
  /\ batch = {} /\ prompts # {}
  /\ CommitProgress
  /\ \E A \in Prefixes(prompts, IF mode = "batch" THEN Cardinality(prompts) ELSE 1) :
       /\ asked' = A
       /\ prompts' = prompts \ A
       /\ good' \in SUBSET A
  /\ pc' = "record"
  /\ UNCHANGED <<worldVars, runVars, left, batch, tally, outcome>>

\* Upsert, log and resolve.  A connection lost while the log is written takes
\* the row with it: its log entry then refers to nothing and the stage raises
\* (Abort), unless an earlier stage had written the row.
RecordJob(r) ==
  /\ \/ \E base \in {work, db} :
          Retried(base) /\ work' = Release(Log(Write(base, r), r, "success"), r)
     \/ /\ db.norm[r] # 0
        /\ reconnects < MaxReconnects
        /\ reconnects' = reconnects + 1
        /\ work' = Release(Log(db, r, "success"), r)
        /\ dropped' = TRUE
  /\ CountSuccess(r)

\* Quarantine and log; a connection lost while the log is written takes the
\* quarantine record with it.
RecordError(r) ==
  /\ \/ work' = Log(Hold(work, r), r, "failed") /\ UNCHANGED lineVars
     \/ /\ reconnects < MaxReconnects
        /\ reconnects' = reconnects + 1
        /\ work' = Log(db, r, "failed")
        /\ dropped' = (dropped \/ Hold(work, r) # db)
  /\ CountFailure(r)

RecordResult(r) ==
  /\ pc = "record"
  /\ IsFirst(r, asked)
  /\ IF r \in good THEN RecordJob(r) ELSE RecordError(r)
  /\ asked' = asked \ {r}
  /\ pc' = IF asked' = {} THEN "prepare" ELSE "record"
  /\ UNCHANGED <<db, worldVars, runVars, left, batch, prompts, good>>

BatchDone ==
  /\ pc = "prepare"
  /\ batch = {} /\ prompts = {}
  /\ CommitProgress
  /\ pc' = "chunk"
  /\ UNCHANGED <<worldVars, runVars, queueVars, tally, outcome>>

-----------------------------------------------------------------------------
(* End of the stage *)

\* Mutant of EndRows: the last commit is left out.
EndUncommitted ==
  /\ pc \in {"map", "chunk"}
  /\ left = {}
  /\ pc' = "close"
  /\ UNCHANGED <<storeVars, worldVars, runVars, queueVars, tally, outcome, lineVars>>

\* The commit after the last row of the source.
EndRows ==
  /\ pc \in {"map", "chunk"}
  /\ left = {}
  /\ db' = work
  /\ pc' = "close"
  /\ UNCHANGED <<work, worldVars, runVars, queueVars, tally, outcome, lineVars>>

\* Mutant of CloseRun: a stage with errors gets the status of a failed sync.
CloseFailed ==
  /\ pc = "close"
  /\ status' = IF tally.errors > 0 THEN "failed" ELSE "completed"
  /\ pc' = "idle"
  /\ UNCHANGED <<storeVars, worldVars, stage, mode, scope, queueVars, tally, outcome, lineVars>>

\* _finish_stage_run
CloseRun ==
  /\ pc = "close"
  /\ status' = IF tally.errors > 0 THEN "partial" ELSE "completed"
  /\ pc' = "idle"
  /\ UNCHANGED <<storeVars, worldVars, stage, mode, scope, queueVars, tally, outcome, lineVars>>

\* The process dies, or an exception leaves run_normalize: a required look-up
\* or an operation without retry failed, a retry failed too, a log entry
\* refers to a lost row.  Nothing closes the run row.
Abort ==
  /\ pc # "idle"
  /\ work' = db
  /\ pc' = "idle"
  /\ left' = {} /\ batch' = {} /\ prompts' = {} /\ asked' = {} /\ good' = {}
  /\ UNCHANGED <<db, worldVars, runVars, tally, outcome, lineVars>>

Step ==
  \/ Gate
  \/ \E r \in Rows : MapRow(r) \/ PrepareRow(r) \/ RecordResult(r)
  \/ TakeBatch \/ Ask \/ BatchDone \/ EndRows \/ CloseRun

Next ==
  \/ \E m \in Modes, S \in SUBSET Rows : StartStage(m, S)
  \/ \E r \in Rows : Deliver(r)
  \/ Step
  \/ Abort

Spec == Init /\ [][Next]_vars

\* The stage is one coroutine whose requests time out; it keeps moving.
FairSpec == Spec /\ WF_vars(Step)

-----------------------------------------------------------------------------
(* Properties *)

\* The stage's variables hold what the code keeps in them.
TypeOK ==
  /\ db \in Store /\ work \in Store
  /\ sync \in [Rows -> SyncStates] /\ backend \subseteq Rows
  /\ stage \in 0..MaxStages /\ mode \in Modes
  /\ status \in {"none", "started", "partial", "completed"}
  /\ pc \in Places
  /\ scope \subseteq Rows /\ left \subseteq Rows /\ batch \subseteq Rows
  /\ prompts \subseteq Rows /\ asked \subseteq Rows /\ good \subseteq Rows
  /\ tally \in Count
  /\ outcome \in [Rows -> {"none", "normalized", "failed"}]
  /\ reconnects \in Nat /\ dropped \in BOOLEAN

Closed == pc = "idle" /\ status \in {"partial", "completed"}

\* Whatever fails on the way (a mapper, a request, one item of an answer, a
\* connection), a stage that closes its run row has counted each of its raw
\* rows exactly once, as normalized or as skipped, and reports one error per
\* row that was eligible and failed.
EachRowCountedOnce ==
  Closed =>
    /\ tally.fetched = tally.normalized + tally.skipped
    /\ tally.normalized = Cardinality({r \in scope : outcome[r] = "normalized"})
    /\ tally.errors = Cardinality({r \in scope : outcome[r] = "failed"})

\* A raw row whose quarantine record is open has no normalized row, in the
\* session and in the database: quarantined records cannot reach the sync
\* stage, whatever was rolled back or repeated.  (For rows the gate can find.)
HeldIsUnnormalized ==
  \A r \in Lower : /\ r \in db.held => db.norm[r] = 0
                   /\ r \in work.held => work.norm[r] = 0

\* The gate: a normalized row that the gate can find is never written again,
\* whatever became of its delivery.
WrittenOnce ==
  [][\A r \in Lower : db.norm[r] # 0 => db'.norm[r] = db.norm[r]]_vars

\* If no rollback discarded anything, a closed stage left each row as it
\* counted it: a normalized row, no open quarantine record and a log of success,
\* or an open record and, if it was asked for, a log of failure.
ReportMatchesStore ==
  Closed /\ ~dropped =>
    \A r \in scope :
      /\ db.decided[r] # "undecided"
      /\ outcome[r] = "normalized" => db.norm[r] = stage /\ r \notin db.held
      /\ outcome[r] = "failed" /\ Quarantine => r \in db.held
      /\ outcome[r] = "normalized" /\ mode # "mapper" /\ r \notin Bare =>
           <<r, stage, "success">> \in db.logs /\ <<r, stage, "failed">> \notin db.logs
      /\ <<r, stage, "failed">> \in db.logs => outcome[r] = "failed"

\* A stage that was started ends.
StageEnds == pc # "idle" ~> pc = "idle"

\* A document's claim: items of a batch that were normalized persist.
SuccessesPersist ==
  Closed => \A r \in scope : outcome[r] = "normalized" => db.norm[r] # 0

\* A document's claim: the gate keeps identities that are already synced from
\* entering the AI normalization again.
GateBlocksSynced ==
  [][\A r \in Rows : sync[r] = "sent" => db'.norm[r] = db.norm[r]]_vars
=============================================================================

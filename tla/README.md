# A verification development of bisakerja-scraper

The scraper collects job postings from five sources, normalizes them in a
staging database, delivers them to the Backend API and hands the delivered ones
to the backend's notifications. This directory holds TLA+ modules of the parts
of it where order, concurrency, failure and boundary values matter,
configurations that model-check them with TLC, and proofs checked by TLAPS.
Paths in this text are relative to the repository; those of the implementation
start with `src/`. `PROJECT.json` maps every definition to the lines it stands
for, and lists the hazards that the properties are about.

## The system

| Component | State | Operations | Talks to | Module |
| --- | --- | --- | --- | --- |
| Command line (`src/cli/pipeline.py`, `src/config/settings.py`) | environment file, arguments, preview | run, wizard, preflight, verify, status, staging-report | everything below | Command |
| Pipeline runs: runner, orchestrator (`src/jobs/pipeline.py`), run tracker (`src/modules/runs/`) | run rows, `sync_run_id` of one invocation | scrape, normalize, enrich, sync, notify-handoff, one at a time or all in order | every other part, through one database session per invocation | PipelineRuns |
| Source HTTP client (`src/shared/http/`) | next slot, failure count, breaker; shared by the coroutines of a source | `request_json`, `request_text` | the job sources | SourceHttp |
| Page loops and adapters (`src/cli/pipeline.py`, `src/integrations/sources/`) | page cursor, jobs seen, challenge guard | list, detail, store | the HTTP client, persistence | SourcePages |
| Normalize stage (`src/jobs/pipeline.py`), eligibility, quarantine | counts, one session, decisions, quarantine records | gate, map, batch, single requests, retried database operations | AI client, persistence, backend look-up | NormalizeStage |
| AI clients (`src/integrations/ai/`) | model rotation, metrics, last model | one request for one job or a batch | the provider | AiClient |
| Enrichment service (`src/modules/enrichment/`) | request log, staging rows | `enrich_pending_batch` | AI client, database | Enrichment |
| Canonical job and payload (`src/modules/jobs/`, mappers, `src/integrations/backend/payloads.py`) | none that outlives a call | map, default, validate, build | - | JobContract |
| Sync worker (`src/modules/sync/`, `src/integrations/backend/client.py`) | `sync_events` | `sync_eligible_jobs` | the Backend API | SyncWorker, DeliveryLedger |
| Notify handoff (`src/modules/notifications/`) | `notification_handoff_events` | `handoff_synced_jobs` | sync events, the Backend API | PipelineRuns |
| Verification and staging reports (`src/cli/pipeline.py`) | what the tables say of a run | verify, staging-report | the databases, the Backend API | RunReport, StagingReport |
| Scheduler daemon (`src/jobs/scheduler.py`, `src/cli/daemon.py`) | guard, run ids of the day | cron triggers, skip, retry ids | the runner | DailyScheduler |
| Stage queue (`src/modules/queue/`) | `stage_jobs` | enqueue, claim, complete, fail | handlers | StageQueue |
| Freshness, deduplication (`src/modules/`) | job status and last sighting; identities seen | sweep, evaluate | the database | JobLifecycle |
| Schema, API, logging, dataset export, smoke checks | | | | none |

What is hard here:

* **One commit per sync run.** Requests go out chunk by chunk, but all event rows
  of a run are committed after the last one. A crash forgets what the backend
  already has; an exception that reaches the orchestrator commits what was
  merely flushed.
* **Adaptive chunks.** A chunk that fails is halved and attempted again, in the
  same loop that counts, records and moves the cursor.
* **One session, many operations.** The normalize stage repeats an operation
  after a lost connection; the rollback takes the uncommitted operations before
  it along. The sources of a scrape share a session across their awaits.
* **Shared clients.** Coroutines of a source share slots, failure count and
  breaker; AI clients share a rotation, and the model of a request is read back
  from an attribute.
* **Scope by run id.** Stages find their rows through the scrape run that last
  captured them; jobs move between runs, and run ids are taken once. Reports
  read the same rows later.
* **Several processes.** The trigger guard is local to a process, queue workers
  claim without a row lock; the database is shared.
* **Retries on top of each other.** SDK, service, client, worker and next run
  each repeat what has failed.

## Modules

Definitions whose comment starts with "Mutant of" are faulty variants of the
definition they name; they are in no next-state relation and serve to show that
a property notices such a fault. Modules named `MC...` extend the
specifications with sets for the constants, modules named `...Proofs` hold the
theorems.

### DeliveryLedger and SyncWorker

DeliveryLedger is the abstract specification of delivery: `stored`, the payloads
the backend has, and `ledger`, the durable verdict on every payload. Verdicts
change together when a run settles, `sent` is only written for stored payloads,
`sent` and `dead-letter` are final. SyncWorker is `sync_eligible_jobs`, the event
repository and the retry loop of `BackendSyncClient`, over several runs, and is
shown to implement the ledger.

| TLA+ | Code |
| --- | --- |
| `run`, `scope`, `version` | the pipeline run; the scrape run id of each raw row; the payload that each normalized row gives |
| `events`, `committed` | `sync_events` as the session sees it, and as the database has it |
| `pending`, `chunk`, `chunkSize`, `tries`, `tally` | `jobs[cursor:]`, `chunk_jobs`, `chunk_size`, the attempt in `sync_payload`, the counts of `BackendSyncWorkerResult` |
| `accepted`, `refused` | the backend's store; which payloads were in a call that failed |
| `Capture` | the stages before sync |
| `SelectCandidates`, `TakeChunk`, `PrepareChunk` | the listing, the slice, `_sync_chunk` up to the request |
| `PostAccepted`, `PostRetried`, `PostFailed`, `PostRejected` | the answers and what client and worker do with them |
| `Finish`, `HookRaises`, `Crash` | `sync_hook`'s commit; `fail_run`'s commit; rollback |

A payload is a pair of job and version, which is what the payload hash tells
apart. Each capture of a job changes its payload, because the payload names the run
that captured the raw row (`ingestionRun.sourceRunId`). `Capture` changes the
payloads of any part of the jobs it captures, which includes all of them; the
other parts are those of a payload without the run.

### SourceHttp

`SourceHttpClient` with its `SourceRateLimiter`, several callers, discrete time.
A step is what a coroutine does between two awaits. `failures`, `open`, `cool`,
`slotIn` are the limiter's fields (the times as ticks passed or remaining);
`pc`, `attempt`, `wait` belong to each caller; `quiet` and `probes` are history.
A caller may oversleep by any number of ticks.

### SourcePages

One scrape stage of one platform with several keywords. `f[k]` is the fetcher of
a keyword with the local variables of its page loop (`PaginatedFetchResult`),
`site[k]` what the site lists, `session` and `db` the raw rows. There is one
action per page loop (`DeallsPage`, `GlintsPage`, `JobStreetPage`,
`KalibrrPage`, `KitalulusPage`), with the page counts as each adapter derives
them: Dealls and Kitalulus from the site's own, JobStreet from the total and
the page size of the settings, Kalibrr by offsets. `Details` are the detail
requests of a page, `PageFails` and `PageEscapes` the two ways in which a page
is lost, `Store` and `StoreFails` the upserts with their commit or rollback.
`SiteMoves` and wrong answers (a repeated first page, an empty page) are the
site's. Which fields a raw row has is not modelled, only whether its detail is
complete; the recency filter is left out.

### NormalizeStage

`run_normalize` for one source, with the eligibility resolver, the quarantine
and the AI request log, in its three modes. `db` and `work` are the committed
tables and the session's view of them. `Gate` writes a decision for each row of
the scope; `MapRow`, `PrepareRow`, `Ask` and `RecordResult` are the loops over
rows, batches and results; `CommitProgress` and `Retried` are the operations
that are repeated once after a lost connection, where the second try works on
what was committed. `Deliver` stands for the sync stages between two normalize
stages, `Abort` for a death of the process and for exceptions that leave the
stage. `Key`, `Lower` and `NoKey` say how external ids compare: the gate
compares identities in lower case with ids as they are stored. A row of an AI
answer is taken to carry the identity it was asked for.

### AiClient

The normalization and the enrichment client over one rotator, which has a model
at least and none called `none`. `Send` takes the
next model and counts a request; `Fails` is an entry of `Errors`, which has what
the except clauses make of each failure and what they count; `Succeeds` checks
the items of a batch against the request. `journal` is what the callers log,
under the model that the client names by then.

### Enrichment

`enrich_pending_batch` in one session: `Unenriched` and `Pending`, the batches
it may return, are `list_unenriched_jobs`, `TakeJob`, `Answered`, `Refused` are `enrich_one`,
`CommitBatch` and `DropBatch` its caller. `EnrichFromSource` is what the
pipeline command's hook does without a client.

### JobContract

One job from its raw payload to the backend payload: `Mapped` (the five
mappers), `Defaulted` (defaults and guards on an AI answer), `Salary`
(`normalize_salary`), `Canonical` (the canonical schema), `StageRows`, `Built`
(`build_backend_job_payload`), `Sendable` (the payload schema with its limits).
Texts are kinds that the code and the limits tell apart: missing, a placeholder, short,
good, a list of more items than are sent, and beyond the limit of a text
(`long`), of one requirement (`wide`), of the summary of the requirements
(`bulky`), or of all of them (`endless`, which has no place to be cut).
`names` stands for category, industry, province and city, which share a limit,
`Unwieldy` for skills that are longer than a skill may be; the rows that an AI
answer has staged may hold such requirements and skills too. Amounts are small
numbers. `PayloadAssumption` gives the kinds of payloads and answers: an answer
is one that the canonical schema accepts, as the client parses it by that schema.
Payloads may have any amounts, labels and skills. Two refusals of the payload schema
are left out because no row of the program meets them: staged requirements of a
type that the backend does not know (the staging repository writes its types only), and
rows of another job (they are read by their job).

### PipelineRuns

Invocations by several processes on one database: run rows, scope, normalized
rows, sync events, handoff rows, and for each process its
session. Each base run id `b` gives the rows `<<b, stage>>`. A process that has
written an event row keeps it locked until it commits or ends. `mem` holds event
rows as SQLAlchemy does: as they were read, with only changed columns written
back (`Committed`).

An event row is found by the hash of the payload, and the payload names the run
that captured the job. So the events are kept by version (`Keys`): a job and the base
run id of a capture. A job that is captured again is a new version, without an event,
and is posted again whether or not an earlier version was delivered. A job that
no payload can be built of (`Unbuildable`) has one event for all its captures,
found by its normalized content.

| TLA+ | Code |
| --- | --- |
| `call` | the arguments of an invocation: stages, the jobs of the executed sources, the number of jobs that sync takes |
| `Eligible`, `Consider`, `IsCandidate` | `list_eligible_jobs` with its filters by source, status and scope; the loop of `_list_backend_payload_candidates` with its limit; `find_event` and `is_retryable_event` |
| `ReadEvent`, `WriteEvent`, `InsertConflict` | `prepare_event` in two steps, and the unique constraint |
| `PostJob`, `RefuseJob` | the request and its outcome; a job that has no payload |
| `CommitSync`, `ReportRaises`, `FinishHook` | the commit of `sync_hook`; what may raise between it and `sync_run_id["value"] = run_id`; that assignment and `complete_run` |
| `SyncRaises` | the hook raises before its commit: `fail_run` commits what was flushed |
| `HandoffSource` | `sync_run_id.get("value", run_id)` |

Chunks are single jobs here, event rows carry no attempt counts, and a capture has
one content; SyncWorker has all three. A run row that is closed as partial
counts as completed.

### RunReport and StagingReport

RunReport has a run of five stages a day, each stage one step with its counts
(the inside of the stages is in the modules above), and `FailedChecks`, the
strict checks that `verify` makes of the rows it reads back. Raw rows and
decisions go over to a later day that captures their jobs again; sync events do
not, each capture having its own (`sent[d]`), so that a later day delivers the job again
and both days have their rows. StagingReport is
`staging-report`: percentiles over durations, completeness of Glints details,
reading back jobs source by source, and the gates. Evidence comes as counts of
values (`HowMany` counts value and occurrence pairs), and sources are read back
in any order. Rates are in ten-thousandths, to which the code rounds the share of
partial jobs; a share half way between two is rounded up here, which `StagingInv`
does not depend on. Thresholds with more than four decimals are not modelled.

### Command

From the command line to the systems a run reaches: options as the values
of each flag in the order they are given, which is all that the parser looks at
(the order of different flags means nothing to it), `Accepted` (the parser), `Loadable` (the validators of `Settings`),
`BeginWizard`, `AskArguments`, `Confirm`, `RunPipeline`, `Preflight`. The
environment file may change between any two steps, because the command reads it
again. `Plan`, `Reach` and `Risks` are what the run does, what it touches and
what the wizard asks to confirm. `marked` and `delivered` compare what an
executed sync leaves in the database with what the backend got.

### DailyScheduler, StageQueue, JobLifecycle

DailyScheduler: cron triggers, run-on-start triggers (which are awaited, and end the
daemon when their stage raises), guard, skip and retry ids,
kills, operators, midnight. `RunnerStarts` is FALSE for the code as it is (see
below); with TRUE, the rest of the daemon is checked as it would run. StageQueue:
workers with a transaction each; `copy` is a row as a session has it, `locks`
whether it is written and not committed, and a commit writes back only changed
columns. JobLifecycle: the freshness sweep and the identities of the
deduplication engine. No stage of the pipeline uses queue, sweep or engine; their
callers are external, so every order of calls is considered.

## Runs

| Run | Instance | Result |
| --- | --- | --- |
| `SyncSafety.cfg` | two sync runs, four jobs, two payloads of each, limit 3, chunks of 2, dead-letter at 2 attempts, one client retry, one payload that cannot be built | outcomes, counts, coverage and the refinement of DeliveryLedger hold |
| `SyncLiveness.cfg` | one run, a chunk of four | a sync stage ends |
| `HttpCalls.cfg` | three callers, two retries, threshold 3 | breaker and slots are exact; a request returns or raises |
| `RunsSolo.cfg` | one process, two run ids, three invocations: a full run with limit 1 or 2, of two jobs or of two others, or any stage alone; of the three jobs one has no payload and one is closed | what is announced was captured and delivered by the run, once; a sync decides on all its jobs |
| `RunsPair.cfg` | two processes, two jobs, one without a payload, two run ids, two invocations: full runs with limit 1 or 2, scrape or sync alone | life of run rows, agreement with the backend, no delivery forgotten after a completed sync, no circle of waiting transactions |
| `NormalizeSafety.cfg` | two stages, three rows, two of one identity, batches of 2, one lost connection, all modes | counts, store, quarantine, no second normalization, termination |
| `Pages.cfg` | all platforms, two keywords, lists of one and three jobs out of four, pages of 1 or 2, four pages at most, one wrong answer or move | reports of fetchers, exactness of the store, termination |
| `Background.cfg` | queue with two workers, two jobs, one death; daemon with two stages and two retries; sweeps over two jobs and four hours; three candidates; twenty-five command lines and seven environment files | attempts, settling, retry ids, guard, ages, identities, command promises |
| `Reports.cfg` | two enrichment jobs and four logs; four AI requests over three models; two days of two jobs with two faults; staging evidence around the thresholds; about two hundred raw jobs | books of batches and clients, reports, gates, contract |
| `SchedulerStages.cfg` | the daemon with the runner as it is | a triggered stage runs: violated |
| `EnrichStaged.cfg` | RunReport with AI clients | what enrich reports is staged: violated |
| `RecordedSent.cfg` | Command | `sent` means accepted by the backend: violated |

`Background.cfg` and `Reports.cfg` put parts without common state into one state
space: the variable `part` chooses one of them at the start, and the others stand
still, so that each is explored as though it were alone.

Deadlock checking is off where a bound (`MaxRuns`, `MaxStages`, `MaxInvocations`
and the like) ends the behaviour, or where the system may come to rest; SourceHttp
never stops and is checked for deadlock.

### Why the bounds are enough

* SyncSafety: the second run meets every status the first can leave, for the
  same and for newer content. Four jobs against a limit of three leave one
  behind, three candidates make a chunk of two and a chunk of one, so that one
  chunk fails while others are to come; the payload that cannot be built is
  second in its chunk and so travels with a valid one. SyncLiveness has a chunk
  of four, halved twice.
* HttpCalls: with three callers one can be waiting for a slot, one on the wire
  and one rejected; `MaxFailures` is the first count above the threshold, beyond
  which counts act alike because the backoff is capped.
* Runs: two run ids are needed for a job to be captured again, two jobs for one
  of them to be forgotten, to be behind the limit or for a circle of locks, and two
  invocations for one to meet, or to follow, whatever another has left. With
  three, a run can capture a job, lose it to another run, and sync or hand off
  after that; two processes with two invocations have that as well. The limit of 1
  leaves the second job for a later sync.
* NormalizeSafety: three rows make a full and a short batch, and a duplicate in
  either; the second stage meets what the first has committed, lost or left
  half done; one lost connection at any operation is what the code repeats, and
  a second failure of the same operation ends the stage, which is `Abort`.
* Pages: lists shorter and longer than the target, a job in both lists, a job
  without slug, a page that is short of the served size. A fetcher may see two
  empty pages in a row, its page limit, and the end of the list. One move of the
  list is enough for a job to be skipped or repeated.
* Background: two workers can claim one job; two attempts have a retry and a
  dead letter; one death leaves a row behind. Two retries of a stage are the
  least that can take one another's id. Four hours pass both ages. Three
  candidates are one that is known, one that drifts and one that collides.
* Reports: two jobs for a batch with a failure and a success; two days for a job
  to be taken over; percentiles are checked with 0, 1, 18 to 22 values, where
  19 of 20 changes; one pair of rates is met by a share only once it is rounded; amounts 0, 2 and 3 and a negative one give every order of a
  range; every raw field has each kind of value in one of three groups.
  The two jobs of the report are alike, and the first is captured no later than
  the second (`FirstFirst`), which leaves out only what another order repeats.

Symmetry is used for processes and run ids in the safety runs of PipelineRuns
only, and never for jobs, which are ordered.

### Fairness

* SyncWorker, NormalizeStage, Enrichment (`BatchStep`): weak fairness of the
  stage's own steps. A stage is one coroutine and its requests time out. Nothing
  is assumed of captures, crashes, aborts or exceptions.
* SourceHttp: weak fairness of time and of each caller's steps after it has
  begun a request; asyncio runs ready coroutines, `httpx` answers or times out.
  Nothing forces a caller to begin.
* SourcePages: weak fairness of each fetcher and of the stage's start and end,
  for the same reasons. Sites need not stop changing, apart from the bound.
* StageQueue: weak fairness of each worker: it polls, its handler returns or
  raises, and rows are unlocked by commits and deaths. Commits inside of a
  handler and deaths are not assumed.
* DailyScheduler: weak fairness of the end of a stage, which returns or raises in
  the end. Nothing is assumed of triggers.
* PipelineRuns: its safety runs assume none.

## What the violated properties mean

1. **The daemon runs no stage.** `DeploymentStageRunner` builds
   `ManualPipelineRunner` without `source_selection`
   (`src/cli/daemon.py:102`); each trigger of an unfinished stage raises before a
   run row exists. With `--run-on-start` the daemon ends.
2. **Enrichment with AI stages nothing.** `enrich_hook` returns before the
   service is used (`src/cli/pipeline.py:3112-3130`) and reports every job as
   persisted.
3. **`sent` without a backend.** An executed run with sync disabled marks its
   jobs as sent because the recording client answers 202.

### Known disagreements without a run

The following claims of documents, comments and tests do not hold either. Most
of them have a definition in the module named; adding it to a configuration as
an INVARIANT or PROPERTY shows the trace.

| Definition (module) | What the repository says | What the code does |
| --- | --- | --- |
| AttemptsWithinLimit (SyncWorker) | `docs/operations/failure-scenarios.md:146`: retried "within the configured limit" | the limit is looked at when candidates are listed; a chunk of five halved three times attempts its first job four times |
| HalfOpenAdmitsOne (SourceHttp) | `src/shared/http/rate_limit.py:71`: "allowing one new request" | the breaker closes completely; every caller is admitted |
| RecoversAfterCooldown (SourceHttp) | `docs/operations/verification-matrix.md:21`: "auto-recovers after cooldown" | each rejection is recorded as a failure and restarts the cooldown |
| OneStageAtATime (PipelineRuns) | `docs/operations/deployment.md:273`: manual triggers share the guard | the guard is private to a process |
| OnlyUnfinishedPosted (PipelineRuns) | `docs/operations/failure-scenarios.md:150`: only pending and retryable events | the status is looked at when candidates are listed, not when they are posted |
| SyncCanBeRerun (PipelineRuns) | `docs/operations/deployment-overview.md:74`: "Re-run sync from staging" | the run id is taken, and another run id has other jobs in scope |
| EveryDeliveryHandsOff (PipelineRuns) | `docs/integrations/recommendation-email-handoff.md:27`: eligible when `sent` for the same run | a notify stage alone looks under its own run id, which no event carries |
| FullRunAlwaysHandsOff (PipelineRuns) | the same, for full runs | when the sync hook raises, `fail_run` commits what was delivered (`src/jobs/pipeline.py:857`), the sync run id stays unset, and the handoff finds nothing |
| JobAnnouncedOnce (PipelineRuns) | `docs/integrations/recommendation-email-handoff.md:37`: "Sent handoff events are not sent again" | true of one run; a delivered job that is captured again has another payload, is sent again and announced again under the new run |
| FailedIsRetried (PipelineRuns) | `docs/operations/failure-scenarios.md:150`: retryable failed events are processed on resume | the event of an earlier capture is never looked up again; the new capture's is another row |
| FailedSourceIsPartial (SourcePages) | `docs/modules/ingestion.md:69`: "mark run partial" | errors of a page end its loop and leave the run completed |
| OneRequestMeetsChallenge (SourcePages) | `tests/unit/cli/test_pipeline_jobstreet_challenge_guard.py:97` | the guard is read when a fetcher starts, and all start at once |
| GateBlocksSynced (NormalizeStage) | `docs/overview/data-flow.md:41` | ids with capitals, which Kitalulus has, are never found by the gate and are normalized again |
| SuccessesPersist (NormalizeStage) | `docs/modules/parsing-normalization.md:21`: "successful items in same batch still persist" | the rollback before a repeated operation discards rows already counted as normalized |
| CompletedIsTerminal (StageQueue) | `docs/operations/queue.md:36`: `completed` is terminal | two workers may claim one job; the later commit overwrites the earlier |
| UnstagedAreRead (Enrichment) | `docs/overview/data-flow.md:45` | a successful normalization request excludes a job |
| NoFalseAlarm (RunReport) | `src/cli/pipeline.py:2437-2453` | a known job that is scraped again fails the check |
| RetriesAreBounded (AiClient) | `docs/environment.md:130`: "Bounded retry count" | the retries of the SDK and of the service multiply |
| EveryRequestHasOutcome (AiClient) | diagnostics of requests, successes and failures by model | malformed answers and unnamed exceptions are counted as neither |
| CutStageFails (StagingReport) | `docs/references/staging-e2e-validation.md`, "Pass Criteria" | a stage without an end has no duration and no threshold holds it back |

Without a definition of their own: log statuses are written as `success` and
compared with `succeeded` in the reports' error counts; a salary with a minimum
of 0 and no maximum is displayed as an amount; `--limit` takes 1 to 5000 where
the runbook says 100, and the wizard's prompts have no upper bound; preflight
passes an executed normalize stage without AI clients, which then refuses to
start; `--yes` is ignored at a terminal; an attempt count in eligibility
is always taken as 1; the command never passes a quarantine to the orchestrator;
the limit of a run is applied per keyword; the count of persisted raw rows keeps
rows that were rolled back; a partial answer overwrites a complete raw payload.

AnnouncedOnce and SyncCoversScope are checked for one process at a time only: with
two, a session writes back what it read before the other committed, and another
process may capture a job between the listing and the commit. FullRunHandsOff is
stated for full runs whose sync completed; FullRunAlwaysHandsOff shows what
becomes of the others. ReportMatchesStore is stated for
stages without a rollback, and WrittenOnce and HeldIsUnnormalized for ids in
lower case, for the reasons given in the table. StageQueue's SettledOnce excepts
jobs that two workers had at once.

## Proofs

TLAPS checks, for every value of the constants that satisfies the named
assumptions:

* `TypeCorrect`, `DeliveryIsSafe`, `WorkerImplementsLedger`, `CountedOnce`
  (SyncWorkerProofs). `DeliveryInv` is the inductive invariant: that `sent`
  implies stored and that failures are a job's own is not inductive by itself;
  added to it are that a pending row never had an outcome, that a payload that
  cannot be built is only dead-lettered, that rows do not disappear, and that a
  final row of the database is final in the session and not among the candidates
  still to come (`FinalFrozen`, from `is_retryable_event` at selection). From it
  each step of the worker maps to `Store`, `Settle` or a stutter of the ledger.
  `CountedOnce` rests on lemmas about `Prefixes` and the cardinality of a chunk.
* `TallyIsRows`, `NoneIsLeftBehind` (SyncWorkerProofs). `RunInv` relates the rows
  of a run to the loop that writes them: the run's rows belong to its candidates,
  none of them is delivered ahead of the cursor, the counts are those of the rows
  behind it, and what it has passed is decided. A chunk that shrinks leaves the
  rows of its failed attempt ahead of the cursor, to be written again; that is
  why counts and rows agree only at the loop's end.
* `HttpTypeCorrect`, `BreakerIsExact`, `RequestsAreSpaced` (SourceHttpProofs).
  The breaker's exactness and the types are proved together, since
  the count's cap must not hide the threshold. Spacing and the absence of gaps
  are inductive with each other: the next free slot comes after every waiting
  one, and each slot either is within one spacing from now or follows a taken one.
* `TypeCorrect`, `HeldUnnormalized`, `NormalizedOnce` (NormalizeStageProofs).
  `IInv` adds to the types the `Shape` of the queue (rows left, in the batch,
  prompted and asked are disjoint parts of the scope), that no row still to be
  handled is normalized in the session or the database (`Sound`), and that the
  session sees every committed row (`Agree`). Lemmas about `Write`, `Hold`,
  `Release` and `Log` say that each operation on a store keeps it sound, on
  the session and on the rolled-back database alike.
  `RowsCountedOnce` adds `CountInv` (the counts are the sizes of the sets of rows
  that each outcome was given to, and these sets and the open rows make up the
  scope), `ReportIsTrue` adds `ToldInv` (a row that was counted has in the
  session what its outcome says, as long as nothing was rolled back).
* `QueueEarns`, `QueueSettlesOnce` (StageQueueProofs). `AllEarned` says of every
  row, committed or still in a worker's session, what `SettledIsEarned` says of
  the committed ones: a commit only moves rows, so that a lost update loses an
  attempt and never invents one. `Sole` describes the jobs no two workers had at
  once: the worker that has one is a single attempt ahead of the table at most,
  and a job nobody has was failed once for each attempt and each death.
* `RowsAreSound`, `HandoffAfterSync`, `LocksAreOrdered`, `RowsNeverReopen`
  (PipelineRunsProofs), for any number of processes. `IInv` adds to the types
  that a process in a stage owns the row of that stage (`RowsOwned`), that what
  a row, a session or a candidate list calls sent is stored (`Backed`,
  `HandedBacked`), and that a process locks jobs in their order (`LocksInOrder`):
  in a circle of waiting processes the locks would have to grow for ever.
* `FullRunForgetsNone` (PipelineRunsProofs), for any number of processes as well.
  In a full run whose sync completed the process carries its own run id
  (`FullCarries`). No other sync of that id is under way, as run rows have one owner
  (`RowsOwned`), and a session takes the events that it writes over to its own run
  (`HeldRuns`), so that others add no delivery of this one: what the handoff has
  listed, or has handed off before, is still all of them when it commits
  (`NotifyHas`).
* `SoloAnnouncesOnce`, `SoloCoversScope` (PipelineRunsProofs).
  These assume one process, as their run does: with two, both are violated.
  `SoloInv` says that a sync or notify stage knows the committed rows
  (`SyncKnows`, `NotifyKnows`) and that the event of a version belongs to the run
  that captured it (`EventsOfCaptures`), from which a sent version is never written
  again: a later run finds the jobs under versions of its own.
* `RetriesAreFresh`, `LifecycleHolds` (BackgroundProofs). `ScheduleInv`: the
  retries of a stage that have a row are the first n, and an active retry is the
  next, so that counting them gives a fresh id. `FreshInv` ties the age of a job
  to the time between its last observation and the last run that missed it;
  `DedupInv` says that the engine holds the latest candidate of each key and that
  every decision is explained by the earlier ones.
* `PagesAlwaysPay`, `FetchersTellTheTruth`, `StoreHolds` (SourcePagesProofs).
  `Books` relates the requests, answers and collected jobs of a fetcher: but for
  the last two, no two answers in a row are without a new job. `Coverage` says what
  a fetcher knows of an unchanged list: it has seen a first part that ends within
  the next page, so that a page without a new job was past the end. From
  it `FetchersTellTheTruth` follows if JobStreet's pages are no shorter than
  `JOBSTREET_PAGE_SIZE` (`JobStreetPagesSuffice`), by which
  `src/integrations/sources/jobstreet/list.py:281` counts pages. The default
  is 32, but the setting takes up to 100; when the site serves shorter pages
  than that, its total is reached too early and the fetcher reports an exhausted
  source that it has not read. The other adapters need no such condition.
  `StoreHolds` rests on there being nothing uncommitted between two steps.

* `EnrichmentHolds` (ReportsProofs). A staged row leads to the last request that
  named its value (`Traced`), for the stored rows, the session's, and the log that
  is cut back where a batch is dropped. The rest of the inductive invariant says that
  the batch under way is made of jobs without a success in the log, so that
  none is enriched twice, and that the counts of a batch are its log entries.
* `ClientsAreExact` (ReportsProofs). The rotator's position is the number of
  requests of both clients modulo the models, from which taking turns follows by
  division with remainder; the client in flight has as its last model the one it
  asked, and has sent at most (attempt - 1) times (retries + 1) requests before.
  `BooksBalance` counts the requests of each model apart.
* `ContractIsKept` (ReportsProofs). One lemma for each step of a job, about all
  payloads and all answers: what a mapper may give, that the guards leave
  what the source has stated, that `normalize_salary` gives ordered bounds of a known
  currency (and that normalizing again changes nothing), and when the payload
  is refused: for the company or the title, for a name, text, requirement,
  summary or skill beyond its limit, or for the number of skills.
* `ReportIsReliable` (ReportsProofs). `RInv` speaks of one day at a time: before
  its sync no event has its day, before its notify stage no handoff has it, and a
  row that counts has the cardinality of the set read back. `OthersKeep` is the
  reason that reports stay true: a later day only takes jobs over that the
  report then no longer counts, and writes events of its own captures only.
* `StagingIsSound` (ReportsProofs): a report is ok if the evidence is all there,
  and not without it. `PercentileWithin` shows that the nearest rank of the 95th
  percentile is within a limit just when one value in twenty at most is above
  it: the values up to a value and those above it add up to all (`CountsAddUp`),
  and `Rank` is the least number that is 19 twentieths of the values
  (`RankIs`, `RankReached`). `ShareWithin` bounds what rounding does to the share of partial
  jobs: half a ten-thousandth, and nothing at the rates the command takes by
  default as long as there are less than a thousand Glints jobs. With more, a
  share just below 0.95 is rounded up to it and passes. `GInv` relates the checks
  of the sources read back to those unread.
* `StagedWithoutClients`, `NothingStagedWithClients`, `SentBySyncIsAccepted`
  (ReportsProofs, BackgroundProofs) say how far two of the refuted claims above
  do hold: without AI clients the enrich stage reports no more than it staged,
  and with them it stages nothing; while the settings enable the sync, what is
  marked as sent has been accepted.
* `LoopAlwaysShrinks`, `CallsAlwaysShrink`, `StagesAlwaysShrink`,
  `BatchesAlwaysShrink` (SyncWorkerProofs, SourceHttpProofs, NormalizeStageProofs,
  ReportsProofs): the measures behind `RunEnds`, `CallEnds`, NormalizeStage's
  `StageEnds`, and `BatchEnds`. Each step of a chunk loop, a call, a stage or a batch reduces natural
  numbers in a fixed order (jobs ahead, jobs in the chunk, answers to come; attempts
  and places; ways of rows and places; jobs and tries), for any sizes, limits
  and numbers of callers, and nothing else raises them. What remains for liveness is that
  the next step is taken.
* `CommandIsKept` (BackgroundProofs). `CmdInv` says what each step may rely on:
  what was confirmed (`Confirmed`), that what has run is the plan of the file as it
  is (`AsRead`, the file being read again by the run), that a preflight speaks of
  the file until that changes (`StillCleared`), and that the arguments shown are
  complete (`Showing`), from which the equivalent command is the same run.

What `dedupe_new_jobs` selects is defined by recursion. The induction it needs
is `SetInduction`: a set of natural numbers that has 0 and with each number the
next has them all. It is stated for sets, not for predicates, and follows from
the least element of a set of numbers (`LeastNumber`), which the well-foundedness
of finite sets under inclusion gives.

The proofs assume of the constants what the `ASSUME`s of the modules say, apart
from `OneProcess`, `JobStreetPagesSuffice` and the value of `Ai`, which the
statements name.

Only model-checked: liveness (`RunEnds`, `CallEnds`, `StageEnds`, `JobsSettle`,
`GuardIsReleased`, `BatchEnds`), because the provers have no rule for fairness and
ENABLED. Each safety invariant and action property that a passing run checks is
also a theorem, under the assumptions just named.

## Not modelled

* Locations, dates, education and seniority of a job, prompts, and the wording of
  previews and summaries: data without control that no property tells apart.
* Recency filters, fixtures, and the orchestrator's own `run()`, which only
  tests call.
* Attempt counts of handoff rows: the command hands off a sync run at most once.
* Conflicts of two processes on raw and normalized rows.
* Migrations and column types, the API's health routes, log formatting, smoke
  checks, and the dataset export, which reads the tables once and writes files.
* The contents of the backend database, which are inputs of StagingReport, and
  the AI provider, which may answer anything that AiClient's `Errors` and
  `Results` list.

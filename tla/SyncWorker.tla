----------------------------- MODULE SyncWorker -----------------------------
(***************************************************************************)
(* The backend sync stage: BackendSyncWorker.sync_eligible_jobs, the sync  *)
(* event repository and the BackendSyncClient retry loop, run once per     *)
(* pipeline run by the sync hook of cli/pipeline.py.                       *)
(*                                                                         *)
(* A run selects the candidates of its scrape scope, walks them in chunks, *)
(* posts every chunk and records an outcome per event.  All event rows of  *)
(* a run live in one database session that is committed once, after the    *)
(* last chunk: `events' is what the session sees, `committed' is what a    *)
(* crash leaves behind.                                                    *)
(*                                                                         *)
(* A payload <<j, v>> is version v of the content of job j; the payload    *)
(* hash of the code identifies exactly that.  Jobs are numbered in the     *)
(* order in which list_eligible_jobs returns them.                         *)
(***************************************************************************)
EXTENDS Integers, FiniteSets

CONSTANTS
  Jobs,         \* normalized jobs, numbered in listing order
  MaxVersion,   \* bound: content versions of a job
  MaxRuns,      \* bound: pipeline runs
  Unsendable,   \* payloads that build_backend_job_payload rejects
  Limit,        \* jobs a run may sync
  BatchSize,    \* configured batch size
  MaxBatch,     \* BACKEND_SYNC_MAX_BATCH_SIZE
  MinBatch,     \* smallest chunk adaptive batching goes down to
  MaxAttempts,  \* attempts before an event is dead-lettered
  MaxRetries    \* HTTP retries inside one client call

Payloads == Jobs \X (1..MaxVersion)

ASSUME JobsAssumption == IsFiniteSet(Jobs) /\ Jobs \subseteq Nat
ASSUME BoundsAssumption ==
  /\ MaxVersion \in Nat /\ MaxRuns \in Nat
  /\ Unsendable \subseteq Payloads
ASSUME SizesAssumption ==
  /\ Limit \in Nat \ {0} /\ BatchSize \in Nat
  /\ MaxBatch \in Nat \ {0} /\ MinBatch \in Nat \ {0}
  /\ MaxAttempts \in Nat \ {0} /\ MaxRetries \in Nat

VARIABLES
  run,         \* number of the current pipeline run, 0 before the first
  version,     \* version[j]: content of the normalized row, 0 when there is none
  scope,       \* scope[j]: the run whose scrape last captured the job's raw row
  committed,   \* sync_events as of the last commit
  events,      \* sync_events as the worker's session sees them
  phase,       \* where the worker is
  pending,     \* candidates the cursor has not passed
  chunk,       \* jobs of the chunk being attempted
  chunkSize,   \* current chunk size, shrunk by adaptive batching
  tries,       \* HTTP attempts already failed for this chunk
  tally,       \* the result the worker will report: attempted, sent, failed
  accepted,    \* payloads the Backend API has stored
  refused      \* payloads that were part of a call that ended in an error

stagingVars == <<run, version, scope>>
workerVars  == <<phase, pending, chunk, chunkSize, tries, tally>>
wireVars    == <<accepted, refused>>
vars == <<stagingVars, committed, events, workerVars, wireVars>>

Statuses == {"none", "pending", "sent", "failed", "dead-letter"}
Event == [status : Statuses, attempts : Nat, run : Nat]
NoEvent == [status |-> "none", attempts |-> 0, run |-> 0]

-----------------------------------------------------------------------------
(* Helpers *)

Least(m, n) == IF m < n THEN m ELSE n
Greatest(m, n) == IF m < n THEN n ELSE m

\* The first k jobs of a listing (a slice of the ordered job list).
Prefixes(S, k) ==
  {P \in SUBSET S : /\ Cardinality(P) = Least(k, Cardinality(S))
                    /\ \A a \in P, b \in S \ P : a < b}

Current(j) == <<j, version[j]>>
Sendable(j) == Current(j) \notin Unsendable

\* Mutant of Retryable: dead-letter rows are picked up again.
RetryableOrDead(e) ==
  e.status \in {"pending", "dead-letter"} \/ (e.status = "failed" /\ e.attempts < MaxAttempts)

\* is_retryable_event
Retryable(e) ==
  \/ e.status = "pending"
  \/ e.status = "failed" /\ e.attempts < MaxAttempts

\* Mutant of Candidates: looks a sync event up by job only, not by payload hash.
CandidatesByJob ==
  {j \in Jobs :
     /\ version[j] > 0 /\ scope[j] = run
     /\ \A v \in 1..MaxVersion : events[<<j, v>>].status \in {"none", "pending", "failed"}}

\* _list_backend_payload_candidates before the limit: jobs of this run's
\* scrape scope whose payload is invalid, has no event, or has a retryable one.
Candidates ==
  {j \in Jobs :
     /\ version[j] > 0
     /\ scope[j] = run
     /\ \/ ~Sendable(j)
        \/ events[Current(j)].status = "none"
        \/ Retryable(events[Current(j)])}

\* record_failure
Failure(e, limit) ==
  [e EXCEPT !.attempts = @ + 1,
            !.status = IF e.attempts + 1 >= limit THEN "dead-letter" ELSE "failed"]

\* record_success
Success(e) == [e EXCEPT !.attempts = @ + 1, !.status = "sent"]

\* prepare_event: a new row is pending, an old one keeps its status.
Prepared(e) ==
  [e EXCEPT !.run = run, !.status = IF @ = "none" THEN "pending" ELSE @]

ValidJobs == {j \in chunk : Sendable(j)}
Posted == {Current(j) : j \in ValidJobs}

-----------------------------------------------------------------------------
Init ==
  /\ run = 0
  /\ version = [j \in Jobs |-> 0]
  /\ scope = [j \in Jobs |-> 0]
  /\ committed = [p \in Payloads |-> NoEvent]
  /\ events = committed
  /\ phase = "idle"
  /\ pending = {}
  /\ chunk = {}
  /\ chunkSize = 1
  /\ tries = 0
  /\ tally = [attempted |-> 0, sent |-> 0, failed |-> 0]
  /\ accepted = {}
  /\ refused = {}

\* The stages before sync: the next run captures the jobs in Seen, which moves
\* their raw rows into its scope, and those in Changed get another payload
\* (always a job that had no normalized row).  The payload names the run of the
\* raw row (ingestionRun.sourceRunId), so that the code gives every job of Seen
\* another payload; Changed may be fewer, as if the payload were built without
\* it.
Capture ==
  /\ phase = "idle"
  /\ run < MaxRuns
  /\ run' = run + 1
  /\ \E Seen \in SUBSET Jobs : \E Changed \in SUBSET Seen :
       /\ \A j \in Seen : version[j] = 0 => j \in Changed
       /\ \A j \in Changed : version[j] < MaxVersion
       /\ scope' = [j \in Jobs |-> IF j \in Seen THEN run + 1 ELSE scope[j]]
       /\ version' = [j \in Jobs |-> IF j \in Changed THEN version[j] + 1 ELSE version[j]]
  /\ phase' = "captured"
  /\ UNCHANGED <<committed, events, pending, chunk, chunkSize, tries, tally, wireVars>>

\* Mutant of InitialSize: an unset batch size is taken literally.
InitialSizeUnset == Least(BatchSize, MaxBatch)

\* min(max(batch_size or limit, 1), BACKEND_SYNC_MAX_BATCH_SIZE)
InitialSize == Least(IF BatchSize = 0 THEN Limit ELSE BatchSize, MaxBatch)

\* sync_eligible_jobs up to the loop.
SelectCandidates ==
  /\ phase = "captured"
  /\ \E P \in Prefixes(Candidates, Limit) :
       /\ pending' = P
       /\ tally' = [attempted |-> Cardinality(P), sent |-> 0, failed |-> 0]
  /\ chunkSize' = InitialSize
  /\ phase' = "next"
  /\ UNCHANGED <<stagingVars, committed, events, chunk, tries, wireVars>>

\* jobs[cursor : cursor + current_chunk_size]
TakeChunk ==
  /\ phase = "next"
  /\ pending # {}
  /\ chunk' \in Prefixes(pending, chunkSize)
  /\ phase' = "send"
  /\ UNCHANGED <<stagingVars, committed, events, pending, chunkSize, tries, tally, wireVars>>

\* What the outer loop does with the result of one _sync_chunk call: a
\* retryable failure of more than MinBatch jobs is attempted again with its
\* first half, everything else is counted and the cursor moves on.
Shrinks(sentNow, retryable) ==
  retryable /\ sentNow = 0 /\ Cardinality(chunk) > MinBatch

HalvedSize == Greatest(MinBatch, (Cardinality(chunk) + 1) \div 2)

\* Mutant of ChunkDone: a chunk that shrinks is counted as failed as well.
ChunkDoneCountsTwice(sentNow, failedNow, retryable) ==
  \/ /\ Shrinks(sentNow, retryable)
     /\ tally' = [tally EXCEPT !.failed = @ + failedNow]
     /\ chunkSize' = HalvedSize
     /\ chunk' \in Prefixes(chunk, HalvedSize)
     /\ phase' = "send"
     /\ UNCHANGED pending
  \/ /\ ~Shrinks(sentNow, retryable)
     /\ tally' = [tally EXCEPT !.sent = @ + sentNow, !.failed = @ + failedNow]
     /\ pending' = pending \ chunk
     /\ chunk' = {}
     /\ phase' = "next"
     /\ UNCHANGED chunkSize

\* The outcome of one attempt at the chunk in hand.
ChunkDone(sentNow, failedNow, retryable) ==
  \/ /\ Shrinks(sentNow, retryable)
     /\ chunkSize' = HalvedSize
     /\ chunk' \in Prefixes(chunk, HalvedSize)
     /\ phase' = "send"
     /\ UNCHANGED <<pending, tally>>
  \/ /\ ~Shrinks(sentNow, retryable)
     /\ tally' = [tally EXCEPT !.sent = @ + sentNow, !.failed = @ + failedNow]
     /\ pending' = pending \ chunk
     /\ chunk' = {}
     /\ phase' = "next"
     /\ UNCHANGED chunkSize

\* _sync_chunk up to the request: invalid payloads are dead-lettered at once
\* (max_attempts=1), the others get their event row.
PreparedEvents ==
  [p \in Payloads |->
     IF p[1] \in chunk /\ p = Current(p[1])
     THEN IF p \in Unsendable THEN Failure(Prepared(events[p]), 1)
                              ELSE Prepared(events[p])
     ELSE events[p]]

PrepareChunk ==
  /\ phase = "send"
  /\ events' = PreparedEvents
  /\ tries' = 0
  /\ \/ /\ ValidJobs # {}
        /\ phase' = "post"
        /\ UNCHANGED <<pending, chunk, chunkSize, tally>>
     \/ /\ ValidJobs = {}
        /\ ChunkDone(0, Cardinality(chunk), FALSE)
  /\ UNCHANGED <<stagingVars, committed, wireVars>>

\* A 2xx answer.
PostAccepted ==
  /\ phase = "post"
  /\ accepted' = accepted \cup Posted
  /\ events' = [p \in Payloads |-> IF p \in Posted THEN Success(events[p]) ELSE events[p]]
  /\ ChunkDone(Cardinality(ValidJobs), Cardinality(chunk \ ValidJobs), FALSE)
  /\ UNCHANGED <<stagingVars, committed, tries, refused>>

\* 429, 5xx or a transport error.  The backend may have stored the jobs before
\* the answer was lost.
BackendMayHaveStored ==
  accepted' \in {accepted, accepted \cup Posted}

\* sync_payload retries inside the client; no event row is touched.
PostRetried ==
  /\ phase = "post"
  /\ tries < MaxRetries
  /\ tries' = tries + 1
  /\ BackendMayHaveStored
  /\ UNCHANGED <<stagingVars, committed, events, phase, pending, chunk, chunkSize, tally, refused>>

FailPosted(limit) ==
  events' = [p \in Payloads |-> IF p \in Posted THEN Failure(events[p], limit) ELSE events[p]]

\* The last retry failed too: BackendSyncServerError reaches the worker.
PostFailed ==
  /\ phase = "post"
  /\ tries = MaxRetries
  /\ BackendMayHaveStored
  /\ refused' = refused \cup Posted
  /\ FailPosted(MaxAttempts)
  /\ ChunkDone(0, Cardinality(chunk), TRUE)
  /\ UNCHANGED <<stagingVars, committed, tries>>

\* Any other status is a BackendSyncClientError: 404 may be retried, the rest
\* dead-letters the whole chunk.
PostRejected ==
  /\ phase = "post"
  /\ refused' = refused \cup Posted
  /\ \E notFound \in BOOLEAN :
       /\ FailPosted(IF notFound THEN MaxAttempts ELSE 1)
       /\ ChunkDone(0, Cardinality(chunk), notFound)
  /\ UNCHANGED <<stagingVars, committed, tries, accepted>>

\* The loop ends and the sync hook commits the session.
Finish ==
  /\ phase = "next"
  /\ pending = {}
  /\ committed' = events
  /\ phase' = "idle"
  /\ UNCHANGED <<stagingVars, events, pending, chunk, chunkSize, tries, tally, wireVars>>

\* The process dies: the open transaction is rolled back.  The run row keeps
\* the run id, so this run's sync stage cannot be started a second time.
Crash ==
  /\ phase # "idle"
  /\ events' = committed
  /\ phase' = "idle"
  /\ pending' = {}
  /\ chunk' = {}
  /\ UNCHANGED <<stagingVars, committed, chunkSize, tries, tally, wireVars>>

\* Any other exception of the request (a body that cannot be encoded, a URL
\* that cannot be parsed) escapes the worker.  fail_run marks the run as failed
\* and, in the same session, commits the rows the worker had flushed.
HookRaises ==
  /\ phase = "post"
  /\ committed' = events
  /\ phase' = "idle"
  /\ pending' = {}
  /\ chunk' = {}
  /\ UNCHANGED <<stagingVars, events, chunkSize, tries, tally, wireVars>>

WorkerStep ==
  \/ SelectCandidates \/ TakeChunk \/ PrepareChunk
  \/ PostAccepted \/ PostRetried \/ PostFailed \/ PostRejected
  \/ Finish

Next == Capture \/ WorkerStep \/ HookRaises \/ Crash

Spec == Init /\ [][Next]_vars

\* The HTTP client has a timeout, so a request is always answered, and the
\* worker is one coroutine that runs until it returns or the process dies.
FairSpec == Spec /\ WF_vars(WorkerStep)
-----------------------------------------------------------------------------
(* Properties *)

TypeOK ==
  /\ run \in 0..MaxRuns
  /\ version \in [Jobs -> 0..MaxVersion]
  /\ scope \in [Jobs -> 0..MaxRuns]
  /\ committed \in [Payloads -> Event]
  /\ events \in [Payloads -> Event]
  /\ phase \in {"idle", "captured", "next", "send", "post"}
  /\ pending \in SUBSET {j \in Jobs : version[j] > 0}
  /\ chunk \in SUBSET pending
  /\ phase \notin {"send", "post"} => chunk = {}
  /\ chunkSize \in Nat \ {0}
  /\ tries \in 0..MaxRetries
  /\ tally \in [attempted : Nat, sent : Nat, failed : Nat]
  /\ accepted \in SUBSET Payloads
  /\ refused \in SUBSET Payloads

\* A row says `sent' only for a payload the backend has stored: no interleaving
\* of chunks, shrunk chunks, client retries and crashes marks a job delivered
\* that is not (record_success after sync_jobs returned).
SentWasAccepted ==
  \A p \in Payloads :
    "sent" \in {events[p].status, committed[p].status} => p \in accepted

\* "a failed chunk should not mark later chunks failed": a row is failed or
\* dead-lettered only if its own payload was in a request that failed, or could
\* not be built.
FailureIsOwn ==
  \A p \in Payloads :
    {events[p].status, committed[p].status} \cap {"failed", "dead-letter"} # {} =>
      p \in refused \cup Unsendable

RowsOfRun(S) == {p \in Payloads : events[p].run = run /\ events[p].status \in S}

\* Every candidate is counted exactly once, as sent or as failed, although a
\* chunk that shrinks is attempted several times and a chunk may mix payloads
\* that cannot be built with ones that can (BackendSyncWorkerResult).
EachCandidateCountedOnce ==
  phase \in {"next", "send", "post"} =>
    tally.attempted = tally.sent + tally.failed + Cardinality(pending)

\* When the loop ends, the counts the stage reports are the rows it wrote: the
\* last outcome recorded for a job is the one that was counted.
TallyMatchesRows ==
  phase = "next" /\ pending = {} =>
    /\ tally.sent = Cardinality(RowsOfRun({"sent"}))
    /\ tally.failed = Cardinality(RowsOfRun({"failed", "dead-letter"}))

\* A run that is not cut off by its limit leaves no job of its scope undecided:
\* every one has a committed row that is sent, dead-lettered, or failed by this
\* very run.
NoneLeftBehind ==
  [][Finish /\ tally.attempted < Limit =>
       \A j \in Jobs :
         version[j] > 0 /\ scope[j] = run =>
           LET e == committed'[Current(j)]
           IN  \/ e.status \in {"sent", "dead-letter"}
               \/ e.status = "failed" /\ (e.run = run \/ e.attempts >= MaxAttempts)]_vars

\* Why the ledger holds, as one inductive invariant: a row that is `pending' never
\* had an outcome, a payload that cannot be built is only ever dead-lettered,
\* rows never disappear, and a row that is final in the database is final in the
\* session and not a candidate of the running stage.
PendingIsNew ==
  \A p \in Payloads :
    events[p].status = "pending" => committed[p].status \in {"none", "pending"}

UnsendableNeverSent ==
  \A p \in Unsendable :
    events[p].status \in {"none", "dead-letter"} /\ committed[p].status \in {"none", "dead-letter"}

RowsKept ==
  \A p \in Payloads : events[p].status = "none" => committed[p].status = "none"

FinalFrozen ==
  \A p \in Payloads :
    committed[p].status \in {"sent", "dead-letter"} =>
      /\ events[p].status = committed[p].status
      /\ p \notin Unsendable /\ phase \in {"next", "send", "post"} /\ p = Current(p[1])
           => p[1] \notin pending

DeliveryInv ==
  /\ SentWasAccepted
  /\ FailureIsOwn
  /\ PendingIsNew
  /\ UnsendableNeverSent
  /\ RowsKept
  /\ FinalFrozen

\* The worker implements the delivery ledger: seen through commits, verdicts
\* change together when a run ends, final ones never change, and `sent'
\* follows the backend.
Verdict(e) == IF e.status = "pending" THEN "none" ELSE e.status

Ledger == INSTANCE DeliveryLedger
            WITH stored <- accepted,
                 ledger <- [p \in Payloads |-> Verdict(committed[p])]

ImplementsLedger == Ledger!LedgerSpec

\* Adaptive batching terminates: a sync stage that starts comes to an end, with
\* every chunk shrunk at most down to MinBatch, whatever the backend answers.
RunEnds == (phase = "captured") ~> (phase = "idle")

\* "429 and 5xx responses may be retried within the configured limit": no row
\* of a payload that can be sent counts more attempts than the limit.
AttemptsWithinLimit ==
  \A p \in Payloads \ Unsendable : committed[p].attempts <= MaxAttempts
=============================================================================

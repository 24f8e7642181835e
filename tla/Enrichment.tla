----------------------------- MODULE Enrichment -----------------------------
(***************************************************************************)
(* The enrichment service of modules/enrichment: batches of normalized     *)
(* jobs without staged skills or requirements, an AI request for each of   *)
(* them, the log of the requests and the staging rows.                     *)
(*                                                                         *)
(* A batch works in one session, which its caller commits or drops.  A     *)
(* later scrape moves a job to the front of the list; a job enriched       *)
(* without AI gets what its source has said.                               *)
(***************************************************************************)
EXTENDS Integers, Sequences, SequencesExt, FiniteSets

CONSTANTS
  EJobs,        \* normalized jobs, numbered in the order of their row ids
  Values,       \* values that a job may have staged: skills and requirements
  Skills,       \* the values that are skills
  Unbuildable,  \* jobs for which no request can be built
  BatchLimit,   \* batch_size
  MaxTries,     \* max_attempts of a request
  MaxSeen,      \* bound: scrapes
  MaxLogs       \* bound: requests that are logged

ASSUME EnrichmentAssumption ==
  /\ IsFiniteSet(EJobs) /\ EJobs \subseteq Nat
  /\ Skills \subseteq Values /\ Unbuildable \subseteq EJobs
  /\ BatchLimit \in Nat \ {0} /\ MaxTries \in Nat \ {0}
  /\ MaxSeen \in Nat /\ MaxLogs \in Nat

VARIABLES
  seen,    \* seen[j]: the scrape that saw j last, 0 while j is not normalized
  logs,    \* ai_request_logs in the order of their making; ids are positions
  kept,    \* how many of them are committed
  staged,  \* staged[j][v]: the staging row of value v
  saved,   \* the same as it is committed
  ebatch,  \* jobs of the batch that are still to be enriched
  tries,   \* attempts of the request under way, 0 when there is none
  result,  \* EnrichmentBatchResult
  busy     \* a batch is under way

enrichVars == <<seen, logs, kept, staged, saved, ebatch, tries, result, busy>>

\* A staging row; log is the ai_request_log_id, 0 for none.
Row == [source : {"none", "source", "ai"}, log : Nat]
NoRow == [source |-> "none", log |-> 0]
LogEntry == [job : EJobs, by : {"normalize", "enrich"}, status : {"success", "failed"},
             named : SUBSET Values]
NoResult == [processed |-> 0, succeeded |-> 0, failed |-> 0]

EInit ==
  /\ seen = [j \in EJobs |-> 0]
  /\ logs = <<>> /\ kept = 0
  /\ staged = [j \in EJobs |-> [v \in Values |-> NoRow]]
  /\ saved = staged
  /\ ebatch = <<>> /\ tries = 0 /\ result = NoResult
  /\ busy = FALSE

-----------------------------------------------------------------------------
(* Helpers *)

Normalized == {j \in EJobs : seen[j] # 0}

\* AIRequestLogRepository.create
Logged(j, by, status, named) ==
  Append(logs, [job |-> j, by |-> by, status |-> status, named |-> named])

HasSuccess(j) == \E i \in DOMAIN logs : logs[i].job = j /\ logs[i].status = "success"

\* upsert_output: a row for each value, new or updated.
Upserted(j, named, row) ==
  [staged EXCEPT ![j] = [v \in Values |-> IF v \in named THEN row ELSE @[v]]]

\* Mutant of Unenriched: the log is not asked.
UnenrichedByRows(j) ==
  /\ seen[j] # 0
  /\ \/ \A v \in Skills : staged[j][v] = NoRow
     \/ \A v \in Values \ Skills : staged[j][v] = NoRow

\* The condition of list_unenriched_jobs: any successful request about the job
\* counts, and otherwise that it has no skill or no requirement.
Unenriched(j) ==
  /\ seen[j] # 0
  /\ ~HasSuccess(j)
  /\ \/ \A v \in Skills : staged[j][v] = NoRow
     \/ \A v \in Values \ Skills : staged[j][v] = NoRow

\* Its order: the job seen last is first.
Ahead(i, j) == seen[i] > seen[j] \/ (seen[i] = seen[j] /\ i < j)

\* The batch: the first jobs of the list, no more than batch_size.
Pending ==
  LET all == {j \in EJobs : Unenriched(j)}
      Sorted(b) == \A i, k \in DOMAIN b : i < k => Ahead(b[i], b[k])
      Foremost(b) ==
        \A j \in all \ ToSet(b) : Len(b) = BatchLimit /\ \A i \in DOMAIN b : Ahead(b[i], j)
  IN {b \in UNION {[1..n -> all] : n \in 1..BatchLimit} : Sorted(b) /\ Foremost(b)}

Succeeded(r) == [r EXCEPT !.processed = @ + 1, !.succeeded = @ + 1]
Failed(r) == [r EXCEPT !.processed = @ + 1, !.failed = @ + 1]

-----------------------------------------------------------------------------
(* Around the batches *)

\* A scrape sees j once more, or for the first time: the normalize stage then
\* commits its row, with the log of an AI request or without.
See(j, time) ==
  /\ ~busy
  /\ time > seen[j] /\ \A i \in EJobs : time >= seen[i]
  /\ seen' = [seen EXCEPT ![j] = time]
  /\ \/ logs' = logs
     \/ seen[j] = 0 /\ Len(logs) < MaxLogs /\ logs' = Logged(j, "normalize", "success", {})
  /\ kept' = Len(logs')
  /\ UNCHANGED <<staged, saved, ebatch, tries, result, busy>>

\* The enrich stage without an AI client: the jobs of its scope are staged with
\* what their sources say, under one commit.
EnrichFromSource(scope, named) ==
  /\ ~busy
  /\ staged' = [j \in EJobs |->
                  IF j \in scope
                  THEN Upserted(j, named[j], [source |-> "source", log |-> 0])[j]
                  ELSE staged[j]]
  /\ saved' = staged'
  /\ UNCHANGED <<seen, logs, kept, ebatch, tries, result, busy>>

-----------------------------------------------------------------------------
(* enrich_pending_batch *)

StartBatch ==
  /\ ~busy
  /\ Len(logs) + BatchLimit <= MaxLogs
  /\ ebatch' \in Pending
  /\ result' = NoResult
  /\ busy' = TRUE
  /\ UNCHANGED <<seen, logs, kept, staged, saved, tries>>

\* enrich_one up to its first request, or to its end when none can be built.
TakeJob ==
  /\ busy /\ ebatch # <<>> /\ tries = 0
  /\ LET j == Head(ebatch) IN
       IF j \in Unbuildable
       THEN /\ logs' = Logged(j, "enrich", "failed", {})
            /\ result' = Failed(result)
            /\ ebatch' = Tail(ebatch)
            /\ UNCHANGED tries
       ELSE tries' = 1 /\ UNCHANGED <<logs, result, ebatch>>
  /\ UNCHANGED <<seen, kept, staged, saved, busy>>

\* The provider answers with the values the job names.
Answered(named) ==
  /\ tries # 0
  /\ LET j == Head(ebatch)
         row == [source |-> "ai", log |-> Len(logs')]
     IN /\ logs' = Logged(j, "enrich", "success", named)
        /\ staged' = Upserted(j, named, row)
  /\ result' = Succeeded(result)
  /\ ebatch' = Tail(ebatch) /\ tries' = 0
  /\ UNCHANGED <<seen, kept, saved, busy>>

\* Mutant of Refused: after the last attempt the retryable error starts over.
RefusedForever(retryable) ==
  /\ tries # 0
  /\ IF retryable
     THEN tries' = 1 + (tries % MaxTries) /\ UNCHANGED <<logs, result, ebatch>>
     ELSE /\ logs' = Logged(Head(ebatch), "enrich", "failed", {})
          /\ result' = Failed(result)
          /\ ebatch' = Tail(ebatch) /\ tries' = 0
  /\ UNCHANGED <<seen, kept, staged, saved, busy>>

\* The request fails, and is repeated while it may be.
Refused(retryable) ==
  /\ tries # 0
  /\ IF retryable /\ tries < MaxTries
     THEN tries' = tries + 1 /\ UNCHANGED <<logs, result, ebatch>>
     ELSE /\ logs' = Logged(Head(ebatch), "enrich", "failed", {})
          /\ result' = Failed(result)
          /\ ebatch' = Tail(ebatch) /\ tries' = 0
  /\ UNCHANGED <<seen, kept, staged, saved, busy>>

\* The batch returns, and its caller commits.
CommitBatch ==
  /\ busy /\ ebatch = <<>>
  /\ kept' = Len(logs) /\ saved' = staged
  /\ busy' = FALSE
  /\ UNCHANGED <<seen, logs, staged, ebatch, tries, result>>

\* A database error leaves enrich_one, or the process dies: nothing is kept.
DropBatch ==
  /\ busy
  /\ logs' = SubSeq(logs, 1, kept) /\ staged' = saved
  /\ ebatch' = <<>> /\ tries' = 0 /\ result' = NoResult /\ busy' = FALSE
  /\ UNCHANGED <<seen, kept, saved>>

BatchStep ==
  \/ TakeJob \/ CommitBatch
  \/ \E named \in SUBSET Values : Answered(named)
  \/ \E retryable \in BOOLEAN : Refused(retryable)

ENext ==
  \/ \E j \in EJobs, time \in 1..MaxSeen : See(j, time)
  \/ \E scope \in SUBSET Normalized \ {{}} : \E named \in [scope -> SUBSET Values] :
       EnrichFromSource(scope, named)
  \/ StartBatch \/ BatchStep \/ DropBatch

\* Requests have time-outs, and one coroutine runs the batch.
EFairness == WF_enrichVars(BatchStep)

ESpec == EInit /\ [][ENext]_enrichVars /\ EFairness

-----------------------------------------------------------------------------
(* Properties *)

\* A staging row leads to the request that last named its value: one about the
\* same job, that has succeeded, and whose log is committed if the row is.
Traceable(rows, n) ==
  \A j \in EJobs, v \in Values :
    LET row == rows[j][v]
        naming == {i \in 1..n : logs[i].job = j /\ v \in logs[i].named}
    IN /\ row.source = "ai" => /\ row.log \in naming
                               /\ \A i \in naming : i <= row.log
       /\ row.source # "ai" => row.log = 0
       /\ row.source = "none" => naming = {}

\* The books of the batch: each job it has dealt with has one new log, which
\* says what was counted.
NewLogs(status) == {i \in kept + 1..Len(logs) : logs[i].status = status}
Balanced ==
  busy => /\ result.processed = Len(logs) - kept
          /\ result.succeeded = Cardinality(NewLogs("success"))
          /\ result.failed = Cardinality(NewLogs("failed"))
          /\ \A i, k \in kept + 1..Len(logs) : logs[i].job = logs[k].job => i = k

\* However batches fail, are dropped and are repeated, no job is enriched twice,
\* nor after its normalization was done by AI.
EnrichedOnce ==
  \A i, k \in DOMAIN logs :
    logs[i].job = logs[k].job /\ logs[i].status = "success" /\ i < k => FALSE

\* The enrichment tables are consistent at every step of a batch and after it.
EnrichmentInv ==
  /\ seen \in [EJobs -> 0..MaxSeen]
  /\ logs \in Seq(LogEntry) /\ kept \in 0..Len(logs)
  /\ staged \in [EJobs -> [Values -> Row]] /\ saved \in [EJobs -> [Values -> Row]]
  /\ ebatch \in Seq(EJobs) /\ tries \in 0..MaxTries
  /\ (~busy => ebatch = <<>> /\ tries = 0 /\ kept = Len(logs) /\ saved = staged)
  /\ Traceable(staged, Len(logs)) /\ Traceable(saved, kept)
  /\ Balanced
  /\ EnrichedOnce

\* A batch comes to its end, whatever the provider answers.
BatchEnds == busy ~> ~busy

\* docs/overview/data-flow.md:45: "Enrichment batch work reads normalized jobs
\* without skill staging rows"; the query asks any successful request.
UnstagedAreRead ==
  \A j \in Normalized :
    ~busy /\ (\A v \in Skills : saved[j][v] = NoRow) => Unenriched(j)
=============================================================================

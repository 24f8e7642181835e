----------------------------- MODULE StageQueue -----------------------------
(***************************************************************************)
(* The stage queue of modules/queue: jobs of one type in the table         *)
(* stage_jobs, and workers that call process_next_stage_job, each in its   *)
(* own database session.  The repository flushes and never commits: the    *)
(* worker's caller commits when the call returns, and a handler that gets  *)
(* the session may commit in between.                                      *)
(*                                                                         *)
(* claim_next selects without a row lock.  Under PostgreSQL's default      *)
(* isolation it sees what is committed, and its update waits for the row   *)
(* while another transaction has written it.                               *)
(***************************************************************************)
EXTENDS Naturals, FiniteSetsExt

CONSTANTS
  Workers,     \* processes that work on the queue
  QJobs,       \* jobs that are ever enqueued, numbered
  MaxAttempts, \* max_attempts of every job
  MaxDeaths    \* bound: workers that die while they have a job

ASSUME QueueAssumption ==
  /\ IsFiniteSet(QJobs) /\ QJobs \subseteq Nat
  /\ MaxAttempts \in Nat \ {0} /\ MaxDeaths \in Nat

VARIABLES
  table,   \* table[j]: the committed row; available is 0 unless it can be claimed
  place,   \* where a worker is
  hand,    \* hand[w]: the job that w selected
  copy,    \* copy[w]: the row of that job as w's session has it
  locks,   \* locks[w]: whether w has written its row and not committed
  fails,   \* history: handler calls for a job that raised
  good,    \* history: jobs a handler call succeeded for
  raced,   \* history: jobs that were selected while another worker had them
  deaths   \* workers that have died

queueVars == <<table, place, hand, copy, locks, fails, good, raced, deaths>>

Absent == [status |-> "none", attempts |-> 0, available |-> 0]
Settled == {"completed", "dead-letter"}

QInit ==
  /\ table = [j \in QJobs |-> Absent]
  /\ place = [w \in Workers |-> "idle"]
  /\ hand = [w \in Workers |-> 0]
  /\ copy = [w \in Workers |-> Absent]
  /\ locks = [w \in Workers |-> FALSE]
  /\ fails = [j \in QJobs |-> 0]
  /\ good = {} /\ raced = {} /\ deaths = 0

\* Mutant of Claimable: any job with attempts left.
ClaimableWhileAttempts(j) == table[j].status # "none" /\ table[j].attempts < MaxAttempts

\* The conditions of claim_next.
Claimable(j) ==
  table[j].status \in {"pending", "failed"} /\ table[j].attempts < MaxAttempts

\* Now, as far as the order of available_at goes: after all that can be claimed.
Later == 1 + Max({0} \cup {table[j].available : j \in {i \in QJobs : Claimable(i)}})

\* enqueue, with the default available_at.
Enqueue(j) ==
  /\ table[j].status = "none"
  /\ table' = [table EXCEPT ![j] =
                 [status |-> "pending", attempts |-> 0, available |-> Later]]
  /\ UNCHANGED <<place, hand, copy, locks, fails, good, raced, deaths>>

\* claim_next up to its flush: the longest available job.
Select(w, j) ==
  /\ place[w] = "idle"
  /\ Claimable(j)
  /\ \A i \in QJobs : Claimable(i) => \/ table[j].available < table[i].available
                                      \/ table[j].available = table[i].available /\ j <= i
  /\ place' = [place EXCEPT ![w] = "selected"]
  /\ hand' = [hand EXCEPT ![w] = j]
  /\ copy' = [copy EXCEPT ![w] = [table[j] EXCEPT !.available = 0]]
  /\ raced' = IF \E v \in Workers : place[v] # "idle" /\ hand[v] = j
              THEN raced \cup {j} ELSE raced
  /\ UNCHANGED <<table, locks, fails, good, deaths>>

RowFree(w) == \A v \in Workers \ {w} : ~(locks[v] /\ hand[v] = hand[w])

\* Mutant of Claim: a claim counts as an attempt.
ClaimCounts(w) ==
  /\ place[w] = "selected"
  /\ RowFree(w)
  /\ copy' = [copy EXCEPT ![w].status = "running", ![w].attempts = @ + 1]
  /\ locks' = [locks EXCEPT ![w] = TRUE]
  /\ place' = [place EXCEPT ![w] = "handling"]
  /\ UNCHANGED <<table, hand, fails, good, raced, deaths>>

\* The flush of claim_next: only status and locked_at are written, so that the
\* rest of the row stays as others have committed it.
Claim(w) ==
  /\ place[w] = "selected"
  /\ RowFree(w)
  /\ copy' = [copy EXCEPT ![w].status = "running"]
  /\ locks' = [locks EXCEPT ![w] = TRUE]
  /\ place' = [place EXCEPT ![w] = "handling"]
  /\ UNCHANGED <<table, hand, fails, good, raced, deaths>>

\* The handler commits the session it was given.
HandlerCommits(w) ==
  /\ place[w] = "handling" /\ locks[w]
  /\ table' = [table EXCEPT ![hand[w]] = [@ EXCEPT !.status = "running", !.available = 0]]
  /\ copy' = [copy EXCEPT ![w] = table'[hand[w]]]
  /\ locks' = [locks EXCEPT ![w] = FALSE]
  /\ UNCHANGED <<place, hand, fails, good, raced, deaths>>

\* The handler returns, and complete is called.
Complete(w) ==
  /\ place[w] = "handling"
  /\ RowFree(w)
  /\ copy' = [copy EXCEPT ![w].status = "completed"]
  /\ locks' = [locks EXCEPT ![w] = TRUE]
  /\ good' = good \cup {hand[w]}
  /\ place' = [place EXCEPT ![w] = "done"]
  /\ UNCHANGED <<table, hand, fails, raced, deaths>>

\* The row as w's session has it: a commit makes the session read it again.
Known(w) == IF locks[w] THEN copy[w] ELSE table[hand[w]]

\* Mutant of Fail: a job without attempts left stays `failed'.
FailNeverDead(w) ==
  /\ place[w] = "handling"
  /\ RowFree(w)
  /\ copy' = [copy EXCEPT ![w] =
                [status |-> "failed", attempts |-> Known(w).attempts + 1, available |-> Later]]
  /\ locks' = [locks EXCEPT ![w] = TRUE]
  /\ fails' = [fails EXCEPT ![hand[w]] = @ + 1]
  /\ place' = [place EXCEPT ![w] = "done"]
  /\ UNCHANGED <<table, hand, good, raced, deaths>>

\* The handler raises, and fail is called, without a retry delay.
Fail(w) ==
  /\ place[w] = "handling"
  /\ RowFree(w)
  /\ LET n == Known(w).attempts + 1 IN
       copy' = [copy EXCEPT ![w] =
                  IF n >= MaxAttempts
                  THEN [status |-> "dead-letter", attempts |-> n, available |-> 0]
                  ELSE [status |-> "failed", attempts |-> n, available |-> Later]]
  /\ locks' = [locks EXCEPT ![w] = TRUE]
  /\ fails' = [fails EXCEPT ![hand[w]] = @ + 1]
  /\ place' = [place EXCEPT ![w] = "done"]
  /\ UNCHANGED <<table, hand, good, raced, deaths>>

Idle(w) ==
  /\ place' = [place EXCEPT ![w] = "idle"]
  /\ hand' = [hand EXCEPT ![w] = 0]
  /\ copy' = [copy EXCEPT ![w] = Absent]
  /\ locks' = [locks EXCEPT ![w] = FALSE]

\* The caller commits; what complete did not touch keeps its committed value.
Commit(w) ==
  /\ place[w] = "done"
  /\ table' = [table EXCEPT ![hand[w]] =
                 IF copy[w].status = "completed" THEN [@ EXCEPT !.status = "completed", !.available = 0]
                                                 ELSE copy[w]]
  /\ Idle(w)
  /\ UNCHANGED <<fails, good, raced, deaths>>

\* A worker dies; its transaction is rolled back, and nothing reads locked_at.
Die(w) ==
  /\ place[w] # "idle"
  /\ deaths < MaxDeaths
  /\ deaths' = deaths + 1
  /\ Idle(w)
  /\ UNCHANGED <<table, fails, good, raced>>

Work(w) ==
  \/ \E j \in QJobs : Select(w, j)
  \/ Claim(w) \/ Complete(w) \/ Fail(w) \/ Commit(w)

QNext ==
  \/ \E j \in QJobs : Enqueue(j)
  \/ \E w \in Workers : Work(w) \/ HandlerCommits(w) \/ Die(w)

\* Workers poll, handlers return, and a free row is locked in the end.
QFairness == \A w \in Workers : WF_queueVars(Work(w))

QSpec == QInit /\ [][QNext]_queueVars /\ QFairness

-----------------------------------------------------------------------------
(* Properties *)

\* A job is only dead-lettered after as many handler calls have raised as it
\* has attempts, and is only completed after one has returned, even when two
\* workers have claimed it and one's count overwrites the other's.
SettledIsEarned ==
  \A j \in QJobs :
    /\ table[j].status = "dead-letter" => fails[j] >= MaxAttempts
    /\ table[j].status = "completed" => j \in good

\* A job that no second worker selected while it was in hand is settled for
\* good, and its handler raised at most MaxAttempts times, plus once for each
\* worker that died before its result was committed.
SettledOnce ==
  [][\A j \in QJobs \ raced' :
       /\ table[j].status \in Settled => table'[j] = table[j]
       /\ fails'[j] <= MaxAttempts + deaths']_queueVars

\* A row left `running' by a worker that died.
Orphan(j) == table[j].status = "running" /\ \A w \in Workers : hand[w] # j

\* Every job that was enqueued is settled in the end, unless a worker died
\* after its handler had committed the claim.
JobsSettle ==
  \A j \in QJobs : table[j].status = "pending" ~> table[j].status \in Settled \/ Orphan(j)

\* A document's claim: completed rows are terminal.
CompletedIsTerminal ==
  [][\A j \in QJobs : table[j].status = "completed" => table'[j].status = "completed"]_queueVars
=============================================================================

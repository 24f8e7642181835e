---------------------------- MODULE PipelineRuns ----------------------------
(***************************************************************************)
(* Pipeline runs of operator processes against one staging database:       *)
(* run_pipeline and ManualPipelineRunner of cli/pipeline.py, the stages of *)
(* PipelineOrchestrator, RunStateTracker, and the sync and handoff workers *)
(* as far as several runs, or several processes, meet in their tables.     *)
(*                                                                         *)
(* An invocation runs one stage, or all five, under a base run id b.  Each *)
(* stage has the row <<b, stage>> in scrape_runs and sees the jobs whose   *)
(* raw row was last captured by <<b, "scrape">>.  Every process has its    *)
(* own database session; PostgreSQL's default isolation lets a session     *)
(* read what others have committed and makes it wait for rows that others  *)
(* have written and not yet committed.                                     *)
(*                                                                         *)
(* Chunks of the sync worker are single jobs here; module SyncWorker has   *)
(* the chunks, the retries and the attempt counts.  Jobs are numbered in   *)
(* the order in which list_eligible_jobs returns them, taken as fixed.     *)
(*                                                                         *)
(* An event row is found by the hash of the payload, and the payload names *)
(* the run that captured the raw row (ingestionRun.sourceRunId): every     *)
(* capture of a job is a version of its own, with an event of its own.     *)
(* What is posted, delivered and announced is such a version.              *)
(***************************************************************************)
EXTENDS Naturals, Sequences, FiniteSets

CONSTANTS
  Procs,   \* processes that run the pipeline command
  Bases,   \* base run ids
  Jobs,    \* source jobs, numbered in listing order
  None,    \* no run id
  Calls,   \* what is invoked: stages, the jobs that the executed sources
           \* have, and how many of them sync takes, see CallsAssumption
  Closed,       \* jobs whose normalized status sync does not take
  Unbuildable,  \* jobs of which no backend payload can be built
  MaxInvocations  \* bound: invocations, of all processes together

Stages == {"scrape", "normalize", "enrich", "sync", "notify"}
Full == <<"scrape", "normalize", "enrich", "sync", "notify">>

ASSUME SetsAssumption == IsFiniteSet(Procs) /\ IsFiniteSet(Bases)
ASSUME JobsAssumption == IsFiniteSet(Jobs) /\ Jobs \subseteq Nat
ASSUME NoneAssumption == None \notin Bases
ASSUME CallsAssumption ==
  Calls \subseteq [plan : {Full} \cup {<<s>> : s \in Stages}, jobs : SUBSET Jobs, limit : Nat \ {0}]
ASSUME KindsAssumption == Closed \subseteq Jobs /\ Unbuildable \subseteq Jobs
ASSUME BoundAssumption == MaxInvocations \in Nat

VARIABLES
  (* the database, as committed *)
  rows,      \* rows[b, s]: status of the run row, "none" when there is no row
  scope,     \* scope[j]: base of the run that last captured the raw row
  norm,      \* jobs that have a normalized row
  event,     \* event[k]: the sync event of a version of a job, and its run
  handoff,   \* handoff[j, b]: status of the handoff row of sync run b
  (* the processes *)
  at,        \* where each process is
  base,      \* base run id of the invocation
  call,      \* what was invoked
  todo,      \* stages still to run
  carried,   \* sync_run_id: base of the sync this process has reported
  work,      \* jobs the stage has listed and not yet looked at
  picked,    \* versions that are candidates of sync or handoff, not yet handled
  cur,       \* the version in hand; after a handoff, those that went out
  mem,       \* mem[p][k]: the event row in the session, `was' as it was read
  held,      \* versions whose event row the open transaction has written
  invoked,   \* invocations so far
  (* the outside *)
  synced,    \* versions the Backend API has accepted
  notified   \* <<k, b>>: versions the backend got in the handoff of run b

dbVars   == <<rows, scope, norm, event, handoff>>
procVars == <<at, base, call, todo, carried, work, picked, cur, mem, held>>
outVars  == <<synced, notified>>
vars == <<dbVars, procVars, invoked, outVars>>

\* The versions of a job, as its event rows tell them apart: by the run that
\* captured it, or by the normalized content alone when no payload can be built.
\* (A process may enrich a job between two syncs of the same capture, which makes
\* further versions of it: rows are shared more here than in the code.)
Keys == Jobs \X (Bases \cup {None})
Version(j) == <<j, IF j \in Unbuildable THEN None ELSE scope[j]>>

NoCall == [plan |-> <<>>, jobs |-> {}, limit |-> 0]
NoEvent == [status |-> "none", run |-> None]
NotRead == [status |-> "none", run |-> None, was |-> "none"]

\* No event row, or is_retryable_event.
Retryable(e) == e.status \in {"none", "pending", "failed"}

Stage(p) == Head(todo[p])
Row(p) == <<base[p], Stage(p)>>
InStage(p, s) == at[p] = "stage" /\ Stage(p) = s
InScope(p) == {j \in Jobs : scope[j] = base[p]}

Init ==
  /\ rows = [r \in Bases \X Stages |-> "none"]
  /\ scope = [j \in Jobs |-> None]
  /\ norm = {}
  /\ event = [k \in Keys |-> NoEvent]
  /\ handoff = [k \in Jobs \X Bases |-> "none"]
  /\ at = [p \in Procs |-> "idle"]
  /\ base = [p \in Procs |-> None]
  /\ call = [p \in Procs |-> NoCall]
  /\ todo = [p \in Procs |-> <<>>]
  /\ carried = [p \in Procs |-> None]
  /\ work = [p \in Procs |-> {}]
  /\ picked = [p \in Procs |-> {}]
  /\ cur = [p \in Procs |-> {}]
  /\ mem = [p \in Procs |-> [k \in Keys |-> NotRead]]
  /\ held = [p \in Procs |-> {}]
  /\ synced = {}
  /\ invoked = 0
  /\ notified = {}

-----------------------------------------------------------------------------
(* Invocations and run rows *)

\* run_pipeline: the guard it takes is its own, so it is always free.
Invoke(p, b, c) ==
  /\ at[p] = "idle"
  /\ invoked < MaxInvocations
  /\ invoked' = invoked + 1
  /\ at' = [at EXCEPT ![p] = "start"]
  /\ base' = [base EXCEPT ![p] = b]
  /\ call' = [call EXCEPT ![p] = c]
  /\ todo' = [todo EXCEPT ![p] = c.plan]
  /\ carried' = [carried EXCEPT ![p] = None]
  /\ UNCHANGED <<dbVars, work, picked, cur, mem, held, synced, notified>>

\* Mutant of StartStage: a row that did not complete is taken over.
RestartStage(p) ==
  /\ at[p] = "start"
  /\ rows[Row(p)] # "completed"
  /\ rows' = [rows EXCEPT ![Row(p)] = "started"]
  /\ at' = [at EXCEPT ![p] = "list"]
  /\ UNCHANGED <<scope, norm, event, handoff, base, call, todo, carried, work, picked, cur, mem, held, invoked, outVars>>

\* start_run
StartStage(p) ==
  /\ at[p] = "start"
  /\ rows[Row(p)] = "none"
  /\ rows' = [rows EXCEPT ![Row(p)] = "started"]
  /\ at' = [at EXCEPT ![p] = "list"]
  /\ UNCHANGED <<scope, norm, event, handoff, base, call, todo, carried, work, picked, cur, mem, held, invoked, outVars>>

\* A commit expires what the session holds.
EmptySession(p) ==
  /\ work' = [work EXCEPT ![p] = {}]
  /\ picked' = [picked EXCEPT ![p] = {}]
  /\ cur' = [cur EXCEPT ![p] = {}]
  /\ held' = [held EXCEPT ![p] = {}]
  /\ mem' = [mem EXCEPT ![p] = [k \in Keys |-> NotRead]]

\* The end of an invocation, in whatever way: the session is closed.
Leave(p) ==
  /\ at' = [at EXCEPT ![p] = "idle"]
  /\ base' = [base EXCEPT ![p] = None]
  /\ call' = [call EXCEPT ![p] = NoCall]
  /\ todo' = [todo EXCEPT ![p] = <<>>]
  /\ carried' = [carried EXCEPT ![p] = None]
  /\ EmptySession(p)

\* start_run inserts a row whose primary key is taken: the error ends the
\* invocation.
RefuseStage(p) ==
  /\ at[p] = "start"
  /\ rows[Row(p)] # "none"
  /\ Leave(p)
  /\ UNCHANGED <<dbVars, invoked, outVars>>

\* The process dies, or an error escapes the stage (the database raises, the
\* look-up of backend identities before normalize fails): what the session has
\* not committed is rolled back and the run row stays `started'.
Die(p) ==
  /\ at[p] # "idle"
  /\ Leave(p)
  /\ UNCHANGED <<dbVars, invoked, outVars>>

\* complete_run, partial_run or fail_run, and on to the next stage, which sees the
\* sync run id `known'.
Close(p, status, known) ==
  /\ rows' = [rows EXCEPT ![Row(p)] = status]
  /\ \/ /\ Len(todo[p]) > 1
        /\ todo' = [todo EXCEPT ![p] = Tail(@)]
        /\ at' = [at EXCEPT ![p] = "start"]
        /\ carried' = [carried EXCEPT ![p] = known]
        /\ EmptySession(p)
        /\ UNCHANGED <<base, call>>
     \/ /\ Len(todo[p]) = 1
        /\ Leave(p)

-----------------------------------------------------------------------------
(* What each stage lists when it begins *)

\* list_eligible_jobs, with the sources that the command executes
Eligible(p) == (InScope(p) \cap norm \cap call[p].jobs) \ Closed

\* Mutant of HandoffSource: the handoff looks under its own run id always.
HandoffSourceOwn(p) == None

\* sync_run_id.get("value", run_id): a notify stage that runs alone, or after a
\* sync that failed, looks for events under its own run id, which no sync event
\* carries.
HandoffSource(p) == carried[p]

\* Mutant of HandoffCandidates: events of any outcome are candidates.
HandoffCandidatesAny(p) ==
  {k \in Keys : HandoffSource(p) # None /\ event[k].run = HandoffSource(p)}

\* Mutant of HandoffCandidates: the events of every run are candidates.
HandoffCandidatesAllRuns(p) ==
  {k \in Keys : /\ HandoffSource(p) # None
                /\ event[k].status = "sent"
                /\ handoff[<<k[1], HandoffSource(p)>>] # "sent"}

\* list_synced_jobs_for_run, and the handoff rows that are not sent yet
HandoffCandidates(p) ==
  {k \in Keys : /\ HandoffSource(p) # None
                /\ event[k] = [status |-> "sent", run |-> HandoffSource(p)]
                /\ handoff[<<k[1], HandoffSource(p)>>] # "sent"}

\* A normalized row is found by its source identity and left as it is; one whose
\* id has capitals is not, and is normalized again, which changes nothing here.
Listed(p) ==
  CASE Stage(p) = "scrape"    -> call[p].jobs
    [] Stage(p) = "normalize" -> (InScope(p) \cap call[p].jobs) \ norm
    [] Stage(p) = "sync"      -> Eligible(p)
    [] OTHER                  -> {}

List(p) ==
  /\ at[p] = "list"
  /\ work' = [work EXCEPT ![p] = Listed(p)]
  /\ picked' = [picked EXCEPT ![p] = IF Stage(p) = "notify" THEN HandoffCandidates(p) ELSE {}]
  /\ at' = [at EXCEPT ![p] = "stage"]
  /\ UNCHANGED <<dbVars, base, call, todo, carried, cur, mem, held, invoked, outVars>>

-----------------------------------------------------------------------------
(* Scrape, normalize, enrich *)

\* One source commits the raw rows it captured (_scrape_source), jobs that no
\* other source of the stage has.
ScrapeSource(p) ==
  /\ InStage(p, "scrape")
  /\ \E S \in SUBSET work[p] \ {{}} :
       /\ scope' = [j \in Jobs |-> IF j \in S THEN base[p] ELSE scope[j]]
       /\ work' = [work EXCEPT ![p] = @ \ S]
  /\ UNCHANGED <<rows, norm, event, handoff, at, base, call, todo, carried, picked, cur, mem, held, invoked, outVars>>

\* A batch of raw rows is normalized and committed; a row that fails is left for
\* a later run that captures it again.
NormalizeBatch(p) ==
  /\ InStage(p, "normalize")
  /\ \E batch \in SUBSET work[p] \ {{}} : \E ok \in SUBSET batch :
       /\ work' = [work EXCEPT ![p] = @ \ batch]
       /\ norm' = norm \cup ok
  /\ UNCHANGED <<rows, scope, event, handoff, at, base, call, todo, carried, picked, cur, mem, held, invoked, outVars>>

\* _finish_stage_run for scrape and normalize, complete_run for enrich, whose
\* hook changes nothing.  A row that is closed as partial counts as completed: the
\* two differ in nothing that follows.
FinishStage(p) ==
  /\ at[p] = "stage"
  /\ Stage(p) \in {"scrape", "normalize", "enrich"}
  /\ Stage(p) # "scrape" => work[p] = {}
  /\ Close(p, "completed", carried[p])
  /\ UNCHANGED <<scope, norm, event, handoff, invoked, outVars>>

-----------------------------------------------------------------------------
(* Sync *)

FreeFrom(p, k) == \A q \in Procs \ {p} : k \notin held[q]

\* Mutant of IsCandidate: a job that has an event for some version has been dealt
\* with, unless that event is retryable.
IsCandidateByJob(j) == \A k \in Keys : k[1] = j => Retryable(event[k])

\* The payload is built and its event looked up; a job of which none can be built
\* is a candidate always.
IsCandidate(j) == j \in Unbuildable \/ Retryable(event[Version(j)])

\* The listed jobs are looked at in their order, until as many candidates are
\* found as the command takes.
Consider(p) ==
  /\ InStage(p, "sync")
  /\ \E j \in work[p] :
       /\ \A i \in work[p] : j <= i
       /\ LET found == picked[p] \cup (IF IsCandidate(j) THEN {Version(j)} ELSE {})
          IN /\ picked' = [picked EXCEPT ![p] = found]
             /\ work' = [work EXCEPT ![p] = IF Cardinality(found) >= call[p].limit THEN {} ELSE @ \ {j}]
  /\ UNCHANGED <<dbVars, at, base, call, todo, carried, cur, mem, held, invoked, outVars>>

\* Mutant of NextVersions: the candidates come in no particular order.
AnyVersions(p) == picked[p]

\* The worker walks its candidates in listing order.
NextVersions(p) == {k \in picked[p] : \A l \in picked[p] : k[1] <= l[1]}

\* prepare_event looks the row up ...
ReadEvent(p) ==
  /\ InStage(p, "sync")
  /\ work[p] = {}
  /\ \E k \in NextVersions(p) :
       /\ cur' = [cur EXCEPT ![p] = {k}]
       /\ mem' = [mem EXCEPT ![p][k] =
                    [status |-> event[k].status, run |-> event[k].run, was |-> event[k].status]]
  /\ at' = [at EXCEPT ![p] = "write"]
  /\ UNCHANGED <<dbVars, base, call, todo, carried, work, picked, held, invoked, outVars>>

\* ... and inserts it, or takes it over for this run; both wait while another
\* session has written the row.  A row is there already when no payload can be
\* built, or when another process has synced the version that this one found.
WriteEvent(p) ==
  /\ at[p] = "write"
  /\ \E k \in cur[p] :
       /\ FreeFrom(p, k)
       /\ \/ /\ mem[p][k].status = "none"
             /\ event[k].status = "none"
             /\ mem' = [mem EXCEPT ![p][k].status = "pending", ![p][k].run = base[p]]
          \/ /\ mem[p][k].status # "none"
             /\ mem' = [mem EXCEPT ![p][k].run = base[p]]
       /\ held' = [held EXCEPT ![p] = @ \cup {k}]
  /\ at' = [at EXCEPT ![p] = "post"]
  /\ UNCHANGED <<dbVars, base, call, todo, carried, work, picked, cur, invoked, outVars>>

\* The insert finds the row of another session that has committed meanwhile: the
\* unique constraint ends the invocation, with the session unusable.
InsertConflict(p) ==
  /\ at[p] = "write"
  /\ \E k \in cur[p] :
       FreeFrom(p, k) /\ mem[p][k].status = "none" /\ event[k].status # "none"
  /\ Leave(p)
  /\ UNCHANGED <<dbVars, invoked, outVars>>

\* The outcome of the version in hand goes into the session.
Record(p, status) ==
  /\ mem' = [mem EXCEPT ![p] = [k \in Keys |-> IF k \in cur[p] THEN [@[k] EXCEPT !.status = status]
                                                           ELSE @[k]]]
  /\ picked' = [picked EXCEPT ![p] = @ \ cur[p]]
  /\ cur' = [cur EXCEPT ![p] = {}]
  /\ at' = [at EXCEPT ![p] = "stage"]

\* Mutant of PostJob: an answer that never comes is taken for a delivery.
PostJobAssumesDelivery(p) ==
  /\ at[p] = "post"
  /\ \A k \in cur[p] : k[1] \notin Unbuildable
  /\ Record(p, "sent")
  /\ synced' \in {synced, synced \cup cur[p]}
  /\ UNCHANGED <<dbVars, base, call, todo, carried, work, held, invoked, notified>>

\* The request is accepted, or it fails (and may have been stored all the same).
PostJob(p) ==
  /\ at[p] = "post"
  /\ \A k \in cur[p] : k[1] \notin Unbuildable
  /\ \/ Record(p, "sent") /\ synced' = synced \cup cur[p]
     \/ /\ \E status \in {"failed", "dead-letter"} : Record(p, status)
        /\ synced' \in {synced, synced \cup cur[p]}
  /\ UNCHANGED <<dbVars, base, call, todo, carried, work, held, invoked, notified>>

\* No payload, no request: the event is dead-lettered.
RefuseJob(p) ==
  /\ at[p] = "post"
  /\ \E k \in cur[p] : k[1] \in Unbuildable
  /\ Record(p, "dead-letter")
  /\ UNCHANGED <<dbVars, base, call, todo, carried, work, held, invoked, outVars>>

\* What a commit makes of the event rows.  The session writes the columns that
\* it changed: a status that ends as it was read is left as it is by now.
Committed(p) ==
  [k \in Keys |->
     IF k \notin held[p] THEN event[k]
     ELSE [status |-> IF mem[p][k].status = mem[p][k].was THEN event[k].status
                                                          ELSE mem[p][k].status,
           run |-> mem[p][k].run]]

\* The sync hook commits the session.
CommitSync(p) ==
  /\ InStage(p, "sync")
  /\ work[p] = {} /\ picked[p] = {}
  /\ event' = Committed(p)
  /\ EmptySession(p)
  /\ at' = [at EXCEPT ![p] = "close"]
  /\ UNCHANGED <<rows, scope, norm, handoff, base, call, todo, carried, invoked, outVars>>

\* The hook raises before it commits: fail_run commits the rows written so far,
\* and the next stage of the invocation starts.
SyncRaises(p) ==
  /\ InStage(p, "sync") \/ at[p] = "post"
  /\ event' = Committed(p)
  /\ Close(p, "failed", carried[p])
  /\ UNCHANGED <<scope, norm, handoff, invoked, outVars>>

\* The hook raises after its commit, over the summary of the failures: the
\* deliveries stand, and the sync run id is not set.
ReportRaises(p) ==
  /\ at[p] = "close" /\ Stage(p) = "sync"
  /\ Close(p, "failed", carried[p])
  /\ UNCHANGED <<scope, norm, event, handoff, invoked, outVars>>

-----------------------------------------------------------------------------
(* Notify handoff *)

\* The candidates go out in chunks of which any may fail; a chunk that fails may
\* have reached the backend.
HandOff(p) ==
  /\ InStage(p, "notify")
  /\ \E ok \in SUBSET picked[p] : \E lost \in SUBSET (picked[p] \ ok) :
       /\ cur' = [cur EXCEPT ![p] = ok]
       /\ notified' = notified \cup ((ok \cup lost) \X {HandoffSource(p)})
  /\ at' = [at EXCEPT ![p] = "handed"]
  /\ UNCHANGED <<dbVars, base, call, todo, carried, work, picked, mem, held, invoked, synced>>

JobsOf(K) == {k[1] : k \in K}

\* The handoff hook commits the outcomes.
CommitHandoff(p) ==
  /\ at[p] = "handed"
  /\ handoff' = [h \in Jobs \X Bases |->
                   IF h[1] \in JobsOf(picked[p]) /\ h[2] = HandoffSource(p)
                   THEN IF h[1] \in JobsOf(cur[p]) THEN "sent" ELSE "failed"
                   ELSE handoff[h]]
  /\ EmptySession(p)
  /\ at' = [at EXCEPT ![p] = "close"]
  /\ UNCHANGED <<rows, scope, norm, event, base, call, todo, carried, invoked, outVars>>

\* The hook of sync or notify returns and complete_run closes the row; that of
\* sync has set the sync run id for the handoff.
FinishHook(p) ==
  /\ at[p] = "close"
  /\ Close(p, "completed", IF Stage(p) = "sync" THEN base[p] ELSE carried[p])
  /\ UNCHANGED <<scope, norm, event, handoff, invoked, outVars>>

-----------------------------------------------------------------------------
Work(p) ==
  \/ StartStage(p) \/ RefuseStage(p) \/ List(p)
  \/ ScrapeSource(p) \/ NormalizeBatch(p) \/ FinishStage(p)
  \/ Consider(p) \/ ReadEvent(p) \/ WriteEvent(p) \/ InsertConflict(p)
  \/ PostJob(p) \/ RefuseJob(p) \/ CommitSync(p) \/ SyncRaises(p) \/ ReportRaises(p)
  \/ HandOff(p) \/ CommitHandoff(p) \/ FinishHook(p)

Next ==
  \E p \in Procs :
    \/ \E b \in Bases, c \in Calls : Invoke(p, b, c)
    \/ Work(p)
    \/ Die(p)

Spec == Init /\ [][Next]_vars
-----------------------------------------------------------------------------
(* Properties *)

RowStatuses == {"none", "started", "completed", "failed"}
EventStatuses == {"none", "pending", "sent", "failed", "dead-letter"}
Events == [status : EventStatuses, run : Bases \cup {None}]
MemRows == [status : EventStatuses, run : Bases \cup {None}, was : EventStatuses]
Todos == {c.plan : c \in Calls} \cup {SubSeq(Full, i, 5) : i \in 2..6}

TypeOK ==
  /\ rows \in [Bases \X Stages -> RowStatuses]
  /\ scope \in [Jobs -> Bases \cup {None}]
  /\ norm \in SUBSET Jobs
  /\ event \in [Keys -> Events]
  /\ handoff \in [Jobs \X Bases -> {"none", "failed", "sent"}]
  /\ at \in [Procs -> {"idle", "start", "list", "stage", "write", "post", "handed", "close"}]
  /\ base \in [Procs -> Bases \cup {None}]
  /\ call \in [Procs -> Calls \cup {NoCall}]
  /\ todo \in [Procs -> Todos]
  /\ \A p \in Procs : /\ (at[p] = "idle") = (todo[p] = <<>>)
                      /\ (at[p] = "idle") = (base[p] = None)
  /\ carried \in [Procs -> Bases \cup {None}]
  /\ work \in [Procs -> SUBSET Jobs]
  /\ picked \in [Procs -> SUBSET Keys]
  /\ cur \in [Procs -> SUBSET Keys]
  /\ mem \in [Procs -> [Keys -> MemRows]]
  /\ held \in [Procs -> SUBSET Keys]
  /\ synced \in SUBSET Keys
  /\ notified \in SUBSET (Keys \X Bases)
  /\ invoked \in 0..MaxInvocations

\* A run row is started once and closed once: no invocation, of whichever
\* process, reopens or overwrites the row of a stage that another has begun.
RowsCloseOnce ==
  [][\A r \in Bases \X Stages :
       rows'[r] # rows[r] =>
         \/ rows[r] = "none" /\ rows'[r] = "started"
         \/ rows[r] = "started" /\ rows'[r] \in {"completed", "failed"}]_vars

\* p waits for q: q's open transaction has written the row that p is to write.
WaitsFor(p, q) == p # q /\ at[p] = "write" /\ cur[p] \cap held[q] # {}

\* Sync stages keep the event rows of all their jobs locked until the one commit
\* at the end, requests to the backend included; two that share rows never wait
\* for each other in a circle (sync_eligible_jobs, list_eligible_jobs).
NoLockCycle == \A p, q \in Procs : ~(WaitsFor(p, q) /\ WaitsFor(q, p))

\* The Backend API has every version that any run reports as sent, whichever
\* process wrote the row last.
SentIsSynced == \A k \in Keys : event[k].status = "sent" => k \in synced

\* The database stays well typed, and its sent rows are backed by the backend,
\* whichever stages of however many processes overlap (_sync_chunk, start_run).
RowsInv == TypeOK /\ SentIsSynced

\* "A job is eligible when its sync event is sent for the same run": what is handed
\* to notifications is what the backend already has, and a candidate of a run
\* whose sync stage has begun (list_synced_jobs_for_run).
HandoffFollowsSync ==
  \A n \in notified : n[1] \in synced /\ rows[<<n[2], "sync">>] # "none"

\* What is announced under a run is what that run captured and delivered, and the
\* delivery stands: however often a job is captured again, synced again and handed
\* off again, and wherever processes die in between, no version of it is announced
\* for two runs and none that is announced turns into a failed one (find_event,
\* prepare_event, list_synced_jobs_for_run).
AnnouncedOnce ==
  \A n \in notified : n[1][2] = n[2] /\ event[n[1]] = [status |-> "sent", run |-> n[2]]

Decided == {"sent", "failed", "dead-letter"}

\* The versions with an outcome of the run that b is the base of.
DecidedBy(b) == {k \in Keys : event[k].status \in Decided /\ event[k].run = b}

\* When the sync of a run commits, no eligible job that the run has captured and
\* still owns is left without an outcome of this run, whatever earlier runs made of
\* it, unless as many jobs as the command takes come before it
\* (_list_backend_payload_candidates).
SyncCoversScope ==
  [][\A p \in Procs :
       CommitSync(p) =>
         \A j \in Eligible(p) :
           \/ Version(j) \in DecidedBy(base[p])'
           \/ Cardinality({k \in DecidedBy(base[p])' : k[1] < j}) >= call[p].limit]_vars

\* When the handoff of a full run whose sync completed commits, everything that
\* was delivered under this run has a handoff row, whatever other processes capture
\* or sync in between: nothing is forgotten from one stage to the next.
FullRunHandsOff ==
  [][\A p \in Procs :
       CommitHandoff(p) /\ call[p].plan = Full /\ rows[<<base[p], "sync">>] = "completed" =>
         \A k \in Keys : event[k] = [status |-> "sent", run |-> base[p]] =>
           handoff'[<<k[1], base[p]>>] # "none"]_vars

\* "operators cannot start a second stage while another stage is still active".
OneStageAtATime ==
  \A p, q \in Procs : {at[p], at[q]} \cap {"idle", "start"} = {} => p = q

\* "Resume should process only pending events and retryable failed events": no
\* request is sent for a version whose committed event is already sent.
OnlyUnfinishedPosted ==
  \A p \in Procs : at[p] = "post" => \A k \in cur[p] : event[k].status # "sent"

\* "Sync fails | Re-run sync from staging": a sync stage that failed or was cut
\* off can be started again.
SyncCanBeRerun ==
  [][\A p \in Procs :
       RefuseStage(p) /\ Stage(p) = "sync" => rows[Row(p)] \notin {"failed", "started"}]_vars

\* The sentence about eligibility, whatever was invoked and however the sync of the
\* run ended: when a handoff commits, what its run has delivered has handoff rows.
EveryDeliveryHandsOff ==
  [][\A p \in Procs :
       CommitHandoff(p) =>
         \A k \in Keys : event[k] = [status |-> "sent", run |-> base[p]] =>
           handoff'[<<k[1], base[p]>>] # "none"]_vars

\* The same for full runs alone, the only ones whose handoff looks for the events
\* of its own sync.
FullRunAlwaysHandsOff ==
  [][\A p \in Procs :
       CommitHandoff(p) /\ call[p].plan = Full =>
         \A k \in Keys : event[k] = [status |-> "sent", run |-> base[p]] =>
           handoff'[<<k[1], base[p]>>] # "none"]_vars

\* A job that the backend has is not announced again when a later run captures it.
JobAnnouncedOnce ==
  \A m, n \in notified : m[1][1] = n[1][1] => m[2] = n[2]

\* A sync finishes what an earlier run has failed to deliver: when it commits, no
\* version of a job it lists has a retryable event.
FailedIsRetried ==
  [][\A p \in Procs :
       CommitSync(p) =>
         \A k \in Keys : k[1] \in Eligible(p) => event'[k].status \notin {"pending", "failed"}
                                                \/ event'[k].run = base[p]]_vars
=============================================================================

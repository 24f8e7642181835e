---------------------------- MODULE ReportsProofs ----------------------------
(***************************************************************************)
(* Proofs about the enrichment service, the clients of the AI provider,    *)
(* the way of one job to the backend, the report of a run and the evidence *)
(* of a release, for any jobs, values, batch sizes, models, payloads, days *)
(* and findings.                                                           *)
(***************************************************************************)
EXTENDS Enrichment, AiClient, JobContract, RunReport, StagingReport, FiniteSetTheorems, TLAPS

-----------------------------------------------------------------------------
(* The log and what leads to it *)

\* Traceable and EnrichedOnce, of the log l.
Naming(l, n, j, v) == {i \in 1..n : l[i].job = j /\ v \in l[i].named}
Leads(l, n, row, j, v) ==
  /\ row.source = "ai" => row.log \in Naming(l, n, j, v) /\ \A i \in Naming(l, n, j, v) : i <= row.log
  /\ row.source # "ai" => row.log = 0
  /\ row.source = "none" => Naming(l, n, j, v) = {}
Traced(l, table, n) == \A j \in EJobs, v \in Values : Leads(l, n, table[j][v], j, v)
OnceIn(l) ==
  \A i, k \in DOMAIN l : l[i].job = l[k].job /\ l[i].status = "success" => ~(i < k)

\* Traceable and EnrichedOnce are these.
LEMMA LogForms ==
  /\ \A table, n : Traceable(table, n) <=> Traced(logs, table, n)
  /\ EnrichedOnce <=> OnceIn(logs)
BY DEF Traceable, Traced, Leads, Naming, EnrichedOnce, OnceIn

Entry(j, by, status, named) == [job |-> j, by |-> by, status |-> status, named |-> named]

\* A log with one more entry.
LEMMA Logging ==
  ASSUME NEW l \in Seq(LogEntry), NEW e \in LogEntry
  PROVE  /\ Append(l, e) \in Seq(LogEntry) /\ Len(Append(l, e)) = Len(l) + 1 /\ Len(l) \in Nat
         /\ DOMAIN l = 1..Len(l) /\ DOMAIN Append(l, e) = 1..Len(l) + 1
         /\ \A i \in 1..Len(l) : Append(l, e)[i] = l[i]
         /\ Append(l, e)[Len(l) + 1] = e
OBVIOUS

\* Rows lead to the entries that they led to, whatever is logged after those.
LEMMA TracedPrefix ==
  ASSUME NEW l, NEW m, NEW table, NEW n \in Nat, Traced(l, table, n), \A i \in 1..n : m[i] = l[i]
  PROVE  Traced(m, table, n)
<1>1. \A j, v : Naming(m, n, j, v) = Naming(l, n, j, v)
  BY DEF Naming
<1> QED BY <1>1 DEF Traced, Leads

\* An entry that names values of its job becomes their last one.
LEMMA TracedNaming ==
  ASSUME NEW l \in Seq(LogEntry), NEW e \in LogEntry, NEW table, NEW next,
         Traced(l, table, Len(l)),
         \A j \in EJobs, v \in Values :
           next[j][v] = IF j = e.job /\ v \in e.named
                        THEN [source |-> "ai", log |-> Len(l) + 1] ELSE table[j][v]
  PROVE  Traced(Append(l, e), next, Len(l) + 1)
<1> DEFINE m == Append(l, e)
           n == Len(l)
<1>1. /\ n \in Nat /\ \A i \in 1..n : m[i] = l[i]
      /\ m[n + 1] = e
  BY Logging
<1> HIDE DEF m, n
<1>2. \A i : i \in 1..n + 1 <=> i \in 1..n \/ i = n + 1
  BY <1>1
<1> SUFFICES ASSUME NEW j \in EJobs, NEW v \in Values
             PROVE  Leads(m, n + 1, next[j][v], j, v)
  BY DEF Traced, m, n
<1>3. CASE j = e.job /\ v \in e.named
  <2>1. next[j][v] = [source |-> "ai", log |-> n + 1]
    BY <1>3 DEF n
  <2>2. n + 1 \in Naming(m, n + 1, j, v)
    BY <1>1, <1>2, <1>3 DEF Naming
  <2>3. \A i \in Naming(m, n + 1, j, v) : i <= n + 1
    BY <1>1 DEF Naming
  <2> QED BY <2>1, <2>2, <2>3 DEF Leads
<1>4. CASE ~(j = e.job /\ v \in e.named)
  <2>1. next[j][v] = table[j][v]
    BY <1>4
  <2>2. Naming(m, n + 1, j, v) = Naming(l, n, j, v)
    BY <1>1, <1>2, <1>4 DEF Naming
  <2>3. Leads(l, n, table[j][v], j, v)
    BY DEF Traced, n
  <2> QED BY <2>1, <2>2, <2>3 DEF Leads
<1> QED BY <1>3, <1>4

\* An entry that names no value leaves the rows traceable.
LEMMA TracedSilent ==
  ASSUME NEW l \in Seq(LogEntry), NEW e \in LogEntry, e.named = {}, NEW table,
         Traced(l, table, Len(l))
  PROVE  Traced(Append(l, e), table, Len(l) + 1)
BY TracedNaming

\* A job whose requests have not succeeded may be asked for once more.
LEMMA OnceMore ==
  ASSUME NEW l \in Seq(LogEntry), NEW e \in LogEntry, OnceIn(l),
         \A i \in DOMAIN l : ~(l[i].job = e.job /\ l[i].status = "success")
  PROVE  OnceIn(Append(l, e))
<1> DEFINE m == Append(l, e)
           n == Len(l)
<1>1. /\ n \in Nat /\ DOMAIN l = 1..n /\ DOMAIN m = 1..n + 1
      /\ \A i \in 1..n : m[i] = l[i]
      /\ m[n + 1] = e
  BY Logging
<1> HIDE DEF m, n
<1> SUFFICES ASSUME NEW i \in 1..n + 1, NEW k \in 1..n + 1, i < k,
                    m[i].job = m[k].job, m[i].status = "success"
             PROVE  FALSE
  BY <1>1 DEF OnceIn, m
<1>2. i \in 1..n /\ m[i] = l[i]
  BY <1>1
<1>3. CASE k \in 1..n
  BY <1>1, <1>2, <1>3 DEF OnceIn
<1>4. CASE k = n + 1
  BY <1>1, <1>2, <1>4
<1> QED BY <1>1, <1>3, <1>4

-----------------------------------------------------------------------------
(* The books of a batch, and its queue *)

Counts == [processed : Nat, succeeded : Nat, failed : Nat]
News(l, n, status) == {i \in n + 1..Len(l) : l[i].status = status}
Apart(l, n) == \A i, k \in n + 1..Len(l) : l[i].job = l[k].job => i = k
Books(l, n, r) ==
  /\ r.processed = Len(l) - n
  /\ r.succeeded = Cardinality(News(l, n, "success"))
  /\ r.failed = Cardinality(News(l, n, "failed"))
  /\ Apart(l, n)

\* The books of a batch that has done nothing.
LEMMA NoBooks == ASSUME NEW l \in Seq(LogEntry) PROVE Books(l, Len(l), NoResult) /\ NoResult \in Counts
<1>1. Len(l) \in Nat /\ Len(l) + 1..Len(l) = {}
  OBVIOUS
<1>2. \A status : News(l, Len(l), status) = {}
  BY <1>1 DEF News
<1>3. /\ NoResult.processed = 0 /\ NoResult.succeeded = 0 /\ NoResult.failed = 0
      /\ NoResult \in Counts
  BY DEF NoResult, Counts
<1>4. Apart(l, Len(l))
  BY <1>1 DEF Apart
<1>5. Len(l) - Len(l) = 0
  BY <1>1
<1>6. Cardinality({}) = 0
  BY FS_EmptySet
<1> QED BY <1>2, <1>3, <1>4, <1>5, <1>6 DEF Books

\* The new logs of a status, with one more entry.
LEMMA OneMoreNew ==
  ASSUME NEW l \in Seq(LogEntry), NEW e \in LogEntry, NEW n \in 0..Len(l), NEW status
  PROVE  LET c == Cardinality(News(l, n, status))
         IN /\ c \in Nat
            /\ Cardinality(News(Append(l, e), n, status)) = IF e.status = status THEN c + 1 ELSE c
<1> DEFINE m == Append(l, e)
           k == Len(l)
           was == News(l, n, status)
           is == News(m, n, status)
<1>1. /\ k \in Nat /\ n \in Nat /\ n <= k /\ Len(m) = k + 1
      /\ \A i \in 1..k : m[i] = l[i]
      /\ m[k + 1] = e
  BY Logging
<1>2. IsFiniteSet(was) /\ k + 1 \notin was
  <2>1. n + 1 \in Int /\ k \in Int
    BY <1>1
  <2>2. IsFiniteSet(n + 1..k)
    BY <2>1, FS_Interval
  <2>3. was \subseteq n + 1..k /\ k + 1 \notin was
    BY <1>1 DEF News
  <2> QED BY <2>2, <2>3, FS_Subset
<1>3. \A i : i \in n + 1..k + 1 <=> i \in n + 1..k \/ i = k + 1
  BY <1>1
<1>4. \A i \in n + 1..k : m[i] = l[i]
  BY <1>1
<1> HIDE DEF m, k
<1>5. \A i : i \in is <=> i \in was \/ (i = k + 1 /\ e.status = status)
  BY <1>1, <1>3, <1>4 DEF News, k
<1> HIDE DEF was, is
<1>6. CASE e.status = status
  <2>1. is = was \cup {k + 1}
    BY <1>5, <1>6
  <2> QED BY <1>2, <1>6, <2>1, FS_AddElement, FS_CardinalityType DEF was, is, m
<1>7. CASE e.status # status
  <2>1. is = was
    BY <1>5, <1>7
  <2> QED BY <1>2, <1>7, <2>1, FS_CardinalityType DEF was, is, m
<1> QED BY <1>6, <1>7

\* A batch that logs a job it has not dealt with, and counts it.
LEMMA OneMoreInBooks ==
  ASSUME NEW l \in Seq(LogEntry), NEW e \in LogEntry, NEW n \in 0..Len(l), NEW r \in Counts,
         Books(l, n, r), \A i \in n + 1..Len(l) : l[i].job # e.job, NEW next,
         next = IF e.status = "success" THEN Succeeded(r) ELSE Failed(r)
  PROVE  Books(Append(l, e), n, next) /\ next \in Counts
<1> DEFINE m == Append(l, e)
           k == Len(l)
<1>1. /\ k \in Nat /\ n \in Nat /\ n <= k /\ Len(m) = k + 1
      /\ \A i \in 1..k : m[i] = l[i]
      /\ m[k + 1] = e
  BY Logging
<1>2. /\ next \in Counts /\ next.processed = r.processed + 1
      /\ e.status = "success" => next.succeeded = r.succeeded + 1 /\ next.failed = r.failed
      /\ e.status # "success" => next.succeeded = r.succeeded /\ next.failed = r.failed + 1
  <2>1. r.processed \in Nat /\ r.succeeded \in Nat /\ r.failed \in Nat
    BY DEF Counts
  <2>2. /\ Succeeded(r) \in Counts /\ Succeeded(r).processed = r.processed + 1
        /\ Succeeded(r).succeeded = r.succeeded + 1 /\ Succeeded(r).failed = r.failed
    <3>1. Succeeded(r) = [r EXCEPT !.processed = r.processed + 1, !.succeeded = r.succeeded + 1]
      BY DEF Succeeded, Counts
    <3>2. r.processed + 1 \in Nat /\ r.succeeded + 1 \in Nat
      BY <2>1
    <3> QED BY <3>1, <3>2 DEF Counts
  <2>3. /\ Failed(r) \in Counts /\ Failed(r).processed = r.processed + 1
        /\ Failed(r).succeeded = r.succeeded /\ Failed(r).failed = r.failed + 1
    <3>1. Failed(r) = [r EXCEPT !.processed = r.processed + 1, !.failed = r.failed + 1]
      BY DEF Failed, Counts
    <3>2. r.processed + 1 \in Nat /\ r.failed + 1 \in Nat
      BY <2>1
    <3> QED BY <3>1, <3>2 DEF Counts
  <2>4. CASE e.status = "success"
    BY <2>2, <2>4
  <2>5. CASE e.status # "success"
    BY <2>3, <2>5
  <2> QED BY <2>4, <2>5
<1>3. e.status \in {"success", "failed"}
  BY DEF LogEntry
<1>4. next.succeeded = Cardinality(News(m, n, "success"))
  BY <1>2, OneMoreNew DEF Books
<1>5. next.failed = Cardinality(News(m, n, "failed"))
  BY <1>2, <1>3, OneMoreNew DEF Books
<1>6. \A i \in n + 1..k + 1 : (i \in n + 1..k /\ m[i] = l[i]) \/ (i = k + 1 /\ m[i] = e)
  BY <1>1
<1>7. next.processed = Len(m) - n
  BY <1>1, <1>2 DEF Books
<1> HIDE DEF m, k
<1>8. Apart(m, n)
  <2>1. \A i, j \in n + 1..k : l[i].job = l[j].job => i = j
    BY DEF Books, Apart, k
  <2>2. \A i \in n + 1..k : l[i].job # e.job
    BY DEF k
  <2> QED BY <1>1, <1>6, <2>1, <2>2 DEF Apart
<1> QED BY <1>2, <1>4, <1>5, <1>7, <1>8 DEF Books, m

\* A queue without its head.
LEMMA QueueLeft ==
  ASSUME NEW q \in Seq(EJobs), q # <<>>
  PROVE  /\ Head(q) \in EJobs /\ Head(q) = q[1] /\ 1 \in DOMAIN q
         /\ Tail(q) \in Seq(EJobs)
         /\ \A i \in DOMAIN Tail(q) : i + 1 \in DOMAIN q /\ Tail(q)[i] = q[i + 1] /\ i + 1 # 1
         /\ \A i, k \in DOMAIN Tail(q) : i + 1 = k + 1 => i = k
OBVIOUS

\* The jobs that a batch has still to enrich: each is normalized, there once,
\* was never enriched, and has no request in this batch.
Open(l, n, j) ==
  /\ \A k \in DOMAIN l : ~(l[k].job = j /\ l[k].status = "success")
  /\ \A k \in n + 1..Len(l) : l[k].job # j
Queue(q, l, n, se) ==
  /\ \A i, k \in DOMAIN q : q[i] = q[k] => i = k
  /\ \A i \in DOMAIN q : se[q[i]] # 0 /\ Open(l, n, q[i])

\* A request about the first of them leaves the others as they are.
LEMMA QueueAfter ==
  ASSUME NEW l \in Seq(LogEntry), NEW e \in LogEntry, NEW n \in 0..Len(l), NEW se,
         NEW q \in Seq(EJobs), q # <<>>, Queue(q, l, n, se), e.job = Head(q)
  PROVE  Queue(Tail(q), Append(l, e), n, se) /\ Open(l, n, e.job) /\ se[e.job] # 0
<1> DEFINE m == Append(l, e)
           t == Tail(q)
           k == Len(l)
<1>1. /\ 1 \in DOMAIN q /\ Head(q) = q[1]
      /\ \A i \in DOMAIN t : i + 1 \in DOMAIN q /\ t[i] = q[i + 1] /\ i + 1 # 1
      /\ \A i, j \in DOMAIN t : i + 1 = j + 1 => i = j
  BY QueueLeft
<1>2. /\ DOMAIN l = 1..k /\ DOMAIN m = 1..k + 1 /\ Len(m) = k + 1 /\ k \in Nat /\ n \in Nat /\ n <= k
      /\ \A i \in 1..k : m[i] = l[i]
      /\ m[k + 1] = e
  BY Logging
<1>3. \A i \in 1..k + 1 : i \in 1..k \/ i = k + 1
  BY <1>2
<1>4. \A i \in n + 1..k + 1 : i \in 1..k + 1 /\ (i \in 1..k => i \in n + 1..k)
  BY <1>2
<1> HIDE DEF m, t, k
<1>5. \A i, j \in DOMAIN t : t[i] = t[j] => i = j
  BY <1>1 DEF Queue
<1>6. ASSUME NEW i \in DOMAIN t
      PROVE  se[t[i]] # 0 /\ Open(m, n, t[i])
  <2>1. t[i] # e.job /\ se[t[i]] # 0 /\ Open(l, n, t[i])
    BY <1>1 DEF Queue
  <2>2. ASSUME NEW x \in 1..k + 1 PROVE ~(m[x].job = t[i] /\ m[x].status = "success")
    BY <1>2, <1>3, <2>1 DEF Open
  <2>3. ASSUME NEW x \in n + 1..k + 1 PROVE m[x].job # t[i]
    <3>1. CASE x \in 1..k
      BY <1>2, <1>4, <2>1, <3>1 DEF Open, k
    <3>2. CASE x = k + 1
      BY <1>2, <2>1, <3>2
    <3> QED BY <1>3, <1>4, <3>1, <3>2
  <2> QED BY <1>2, <2>1, <2>2, <2>3 DEF Open
<1>7. Open(l, n, e.job) /\ se[e.job] # 0
  BY <1>1 DEF Queue
<1> QED BY <1>5, <1>6, <1>7 DEF Queue, m, t

-----------------------------------------------------------------------------
(* The invariant *)

EType ==
  /\ seen \in [EJobs -> 0..MaxSeen]
  /\ logs \in Seq(LogEntry) /\ kept \in 0..Len(logs)
  /\ staged \in [EJobs -> [Values -> Row]] /\ saved \in [EJobs -> [Values -> Row]]
  /\ ebatch \in Seq(EJobs) /\ tries \in 0..MaxTries /\ result \in Counts
  /\ busy \in BOOLEAN

Idle == ~busy => ebatch = <<>> /\ tries = 0 /\ kept = Len(logs) /\ saved = staged

\* Requests are about normalized jobs.
LogsInv == \A i \in DOMAIN logs : seen[logs[i].job] # 0

EInv ==
  /\ EType /\ Idle
  /\ Traced(logs, staged, Len(logs)) /\ Traced(logs, saved, kept)
  /\ busy => Books(logs, kept, result)
  /\ OnceIn(logs)
  /\ LogsInv
  /\ tries # 0 => ebatch # <<>>
  /\ Queue(ebatch, logs, kept, seen)

\* The invariant gives what the runs check.
LEMMA EInvIsEnough == EInv => EnrichmentInv
<1> SUFFICES ASSUME EInv PROVE EnrichmentInv
  OBVIOUS
<1>1. Traceable(staged, Len(logs)) /\ Traceable(saved, kept) /\ EnrichedOnce
  BY LogForms DEF EInv
<1>2. Balanced
  BY DEF EInv, Balanced, Books, News, NewLogs, Apart
<1> QED BY <1>1, <1>2 DEF EInv, EType, Idle, EnrichmentInv

\* It holds at first.
LEMMA EInvInit == EInit => EInv
<1> SUFFICES ASSUME EInit PROVE EInv
  OBVIOUS
<1> USE DEF EInit
<1>1. /\ logs = <<>> /\ logs \in Seq(LogEntry) /\ Len(logs) = 0 /\ DOMAIN logs = {}
      /\ ebatch = <<>> /\ ebatch \in Seq(EJobs) /\ DOMAIN ebatch = {}
  OBVIOUS
<1>2. NoRow \in Row /\ NoRow.source = "none" /\ NoRow.log = 0
  BY DEF NoRow, Row
<1>3. \A j \in EJobs, v \in Values : staged[j][v] = NoRow /\ saved[j][v] = NoRow
  OBVIOUS
<1>4. NoResult \in Counts
  BY <1>1, NoBooks
<1>5. EType
  <2>1. seen \in [EJobs -> 0..MaxSeen] /\ kept \in 0..Len(logs) /\ tries \in 0..MaxTries
    BY <1>1, EnrichmentAssumption
  <2>2. staged \in [EJobs -> [Values -> Row]] /\ saved \in [EJobs -> [Values -> Row]]
    BY <1>2
  <2> QED BY <1>1, <1>4, <2>1, <2>2 DEF EType
<1>6. 1..0 = {}
  OBVIOUS
<1>7. \A j, v : Naming(logs, 0, j, v) = {}
  BY <1>6 DEF Naming
<1>8. Traced(logs, staged, 0) /\ Traced(logs, saved, 0)
  BY <1>2, <1>3, <1>7 DEF Traced, Leads
<1>9. OnceIn(logs) /\ LogsInv /\ Queue(ebatch, logs, kept, seen)
  BY <1>1 DEF OnceIn, LogsInv, Queue
<1>10. Idle
  BY <1>1 DEF Idle
<1> QED BY <1>1, <1>5, <1>8, <1>9, <1>10 DEF EInv

\* A request of a batch comes to its end: the job has a log and is counted.
LEMMA RequestEnds ==
  ASSUME EInv, busy, ebatch # <<>>, NEW e \in LogEntry, e.job = Head(ebatch),
         logs' = Append(logs, e), ebatch' = Tail(ebatch), tries' = 0,
         result' = IF e.status = "success" THEN Succeeded(result) ELSE Failed(result),
         UNCHANGED <<seen, kept, saved, busy>>,
         staged' \in [EJobs -> [Values -> Row]], Traced(logs', staged', Len(logs) + 1)
  PROVE  EInv'
<1> USE DEF EInv, EType
<1>1. /\ logs' \in Seq(LogEntry) /\ Len(logs') = Len(logs) + 1
      /\ DOMAIN logs = 1..Len(logs) /\ DOMAIN logs' = 1..Len(logs) + 1
      /\ \A i \in 1..Len(logs) : logs'[i] = logs[i]
      /\ logs'[Len(logs) + 1] = e
      /\ Len(logs) \in Nat
  BY Logging
<1>2. /\ Queue(ebatch', logs', kept, seen)
      /\ Open(logs, kept, e.job) /\ seen[e.job] # 0
  BY QueueAfter
<1>3. Tail(ebatch) \in Seq(EJobs)
  BY QueueLeft
<1>4. Books(logs', kept, result') /\ result' \in Counts
  BY <1>2, OneMoreInBooks DEF Open
<1>5. OnceIn(logs')
  BY <1>2, OnceMore DEF Open
<1>6. kept \in Nat /\ \A i \in 1..kept : i \in 1..Len(logs)
  BY <1>1
<1>7. Traced(logs', saved, kept)
  BY <1>1, <1>6, TracedPrefix
<1>8. LogsInv'
  <2>1. \A i \in 1..Len(logs) + 1 : i \in 1..Len(logs) \/ i = Len(logs) + 1
    BY <1>1
  <2>2. \A i \in 1..Len(logs) : seen[logs[i].job] # 0
    BY <1>1 DEF LogsInv
  <2>3. \A i \in 1..Len(logs) + 1 : seen[logs'[i].job] # 0
    BY <1>1, <1>2, <2>1, <2>2
  <2> QED BY <1>1, <2>3 DEF LogsInv
<1>9. kept' \in 0..Len(logs') /\ tries' \in 0..MaxTries
  BY <1>1, EnrichmentAssumption
<1>10. EType'
  BY <1>1, <1>3, <1>4, <1>9
<1>11. Idle'
  BY DEF Idle
<1> QED BY <1>1, <1>2, <1>4, <1>5, <1>7, <1>8, <1>10, <1>11

\* A request that names values stages them, and leads to itself.
LEMMA EntryIs ==
  ASSUME NEW j \in EJobs, NEW by \in {"normalize", "enrich"}, NEW status \in {"success", "failed"},
         NEW named \in SUBSET Values
  PROVE  Entry(j, by, status, named) \in LogEntry /\ Logged(j, by, status, named) = Append(logs, Entry(j, by, status, named))
BY DEF Entry, LogEntry, Logged

\* Rows for some values of a job.
LEMMA UpsertedIs ==
  ASSUME NEW j \in EJobs, NEW named, NEW row \in Row, staged \in [EJobs -> [Values -> Row]]
  PROVE  /\ Upserted(j, named, row) \in [EJobs -> [Values -> Row]]
         /\ \A i \in EJobs, v \in Values :
              Upserted(j, named, row)[i][v] = IF i = j /\ v \in named THEN row ELSE staged[i][v]
BY DEF Upserted

-----------------------------------------------------------------------------
(* The steps *)

\* Steps of a request.
LEMMA TakeJobKeeps == EInv /\ TakeJob => EInv'
<1> SUFFICES ASSUME EInv, TakeJob PROVE EInv'
  OBVIOUS
<1> DEFINE j == Head(ebatch)
           e == Entry(j, "enrich", "failed", {})
<1>1. /\ j \in EJobs /\ e \in LogEntry /\ e.job = j /\ e.status = "failed" /\ e.named = {}
      /\ Logged(j, "enrich", "failed", {}) = Append(logs, e)
  <2>1. j \in EJobs
    BY QueueLeft DEF TakeJob, EInv, EType
  <2> QED BY <2>1, EntryIs DEF Entry
<1>2. CASE j \in Unbuildable
  <2>1. /\ logs' = Append(logs, e) /\ result' = Failed(result) /\ ebatch' = Tail(ebatch)
        /\ tries = 0 /\ busy /\ ebatch # <<>>
        /\ UNCHANGED <<tries, seen, kept, staged, saved, busy>>
    BY <1>1, <1>2 DEF TakeJob
  <2>2. Traced(logs', staged', Len(logs) + 1)
    BY <1>1, <2>1, TracedSilent DEF EInv, EType
  <2>3. staged' \in [EJobs -> [Values -> Row]]
    BY <2>1 DEF EInv, EType
  <2>4. result' = IF e.status = "success" THEN Succeeded(result) ELSE Failed(result)
    BY <1>1, <2>1
  <2> HIDE DEF e
  <2> QED BY <1>1, <2>1, <2>2, <2>3, <2>4, RequestEnds
<1>3. CASE j \notin Unbuildable
  <2>1. /\ tries' = 1 /\ busy /\ ebatch # <<>>
        /\ UNCHANGED <<logs, result, ebatch, seen, kept, staged, saved, busy>>
    BY <1>3 DEF TakeJob
  <2>2. 1 \in 0..MaxTries
    BY EnrichmentAssumption
  <2> QED BY <2>1, <2>2 DEF EInv, EType, Idle, LogsInv
<1> QED BY <1>2, <1>3

\* The last attempt of a request is logged, an earlier one is repeated.
LEMMA RefusedKeeps == ASSUME NEW retryable \in BOOLEAN, EInv, Refused(retryable) PROVE EInv'
<1> DEFINE j == Head(ebatch)
           e == Entry(j, "enrich", "failed", {})
<1>1. ebatch # <<>> /\ busy
  BY DEF Refused, EInv, EType, Idle
<1>2. /\ j \in EJobs /\ e \in LogEntry /\ e.job = j /\ e.status = "failed" /\ e.named = {}
      /\ Logged(j, "enrich", "failed", {}) = Append(logs, e)
  <2>1. j \in EJobs
    BY <1>1, QueueLeft DEF EInv, EType
  <2> QED BY <2>1, EntryIs DEF Entry
<1>3. CASE retryable /\ tries < MaxTries
  <2>1. /\ tries' = tries + 1
        /\ UNCHANGED <<logs, result, ebatch, seen, kept, staged, saved, busy>>
    BY <1>3 DEF Refused
  <2>2. tries' \in 0..MaxTries
    BY <1>3, <2>1, EnrichmentAssumption DEF EInv, EType
  <2> QED BY <1>1, <2>1, <2>2 DEF EInv, EType, Idle, LogsInv
<1>4. CASE ~(retryable /\ tries < MaxTries)
  <2>1. /\ logs' = Append(logs, e) /\ result' = Failed(result) /\ ebatch' = Tail(ebatch) /\ tries' = 0
        /\ UNCHANGED <<seen, kept, staged, saved, busy>>
    BY <1>2, <1>4 DEF Refused
  <2>2. Traced(logs', staged', Len(logs) + 1)
    BY <1>2, <2>1, TracedSilent DEF EInv, EType
  <2>3. staged' \in [EJobs -> [Values -> Row]]
    BY <2>1 DEF EInv, EType
  <2>4. result' = IF e.status = "success" THEN Succeeded(result) ELSE Failed(result)
    BY <1>2, <2>1
  <2> HIDE DEF e
  <2> QED BY <1>1, <1>2, <2>1, <2>2, <2>3, <2>4, RequestEnds
<1> QED BY <1>3, <1>4

\* An answer is logged and staged.
LEMMA AnsweredKeeps == ASSUME NEW named \in SUBSET Values, EInv, Answered(named) PROVE EInv'
<1> DEFINE j == Head(ebatch)
           e == Entry(j, "enrich", "success", named)
           row == [source |-> "ai", log |-> Len(logs) + 1]
<1>1. ebatch # <<>> /\ busy
  BY DEF Answered, EInv, EType, Idle
<1>2. /\ j \in EJobs /\ e \in LogEntry /\ e.job = j /\ e.status = "success" /\ e.named = named
      /\ Logged(j, "enrich", "success", named) = Append(logs, e)
  <2>1. j \in EJobs
    BY <1>1, QueueLeft DEF EInv, EType
  <2> QED BY <2>1, EntryIs DEF Entry
<1>3. logs' = Append(logs, e)
  BY <1>2 DEF Answered
<1>4. Len(logs') = Len(logs) + 1 /\ Len(logs) \in Nat
  BY <1>2, <1>3, Logging DEF EInv, EType
<1>5. staged' = Upserted(j, named, row)
  BY <1>4 DEF Answered
<1>6. row \in Row
  BY <1>4 DEF Row
<1>7. /\ staged' \in [EJobs -> [Values -> Row]]
      /\ \A i \in EJobs, v \in Values : staged'[i][v] = IF i = j /\ v \in named THEN row ELSE staged[i][v]
  <2> HIDE DEF row
  <2>1. staged \in [EJobs -> [Values -> Row]]
    BY DEF EInv, EType
  <2> QED BY <1>2, <1>5, <1>6, <2>1, UpsertedIs
<1>8. Traced(logs', staged', Len(logs) + 1)
  <2>1. Traced(logs, staged, Len(logs)) /\ logs \in Seq(LogEntry)
    BY DEF EInv, EType
  <2> HIDE DEF e
  <2>2. \A i \in EJobs, v \in Values :
          staged'[i][v] = IF i = e.job /\ v \in e.named
                          THEN [source |-> "ai", log |-> Len(logs) + 1] ELSE staged[i][v]
    BY <1>2, <1>7
  <2>3. e \in LogEntry
    BY <1>2
  <2> HIDE DEF j, row
  <2>4. Traced(Append(logs, e), staged', Len(logs) + 1)
    BY <2>1, <2>2, <2>3, TracedNaming
  <2> QED BY <1>3, <2>4
<1>9. /\ result' = IF e.status = "success" THEN Succeeded(result) ELSE Failed(result)
      /\ ebatch' = Tail(ebatch) /\ tries' = 0 /\ UNCHANGED <<seen, kept, saved, busy>>
  BY <1>2 DEF Answered
<1> HIDE DEF e
<1> QED BY <1>1, <1>2, <1>3, <1>7, <1>8, <1>9, RequestEnds

\* Between batches there is nothing in the queue.
LEMMA QueueOfNone == \A l, n, se : Queue(<<>>, l, n, se)
BY DEF Queue

\* A scrape, and the row that the normalize stage commits.
LEMMA SeeKeeps == ASSUME NEW j \in EJobs, NEW time \in 1..MaxSeen, EInv, See(j, time) PROVE EInv'
<1> DEFINE e == Entry(j, "normalize", "success", {})
<1>1. /\ ~busy /\ ebatch = <<>> /\ tries = 0 /\ kept = Len(logs) /\ saved = staged
      /\ time \in 0..MaxSeen /\ time # 0
  BY EnrichmentAssumption DEF See, EInv, Idle
<1>2. /\ seen' = [seen EXCEPT ![j] = time] /\ kept' = Len(logs')
      /\ UNCHANGED <<staged, saved, ebatch, tries, result, busy>>
  BY DEF See
<1>3. /\ e \in LogEntry /\ e.job = j /\ e.named = {}
      /\ Logged(j, "normalize", "success", {}) = Append(logs, e)
  BY EntryIs DEF Entry
<1>4. seen' \in [EJobs -> 0..MaxSeen] /\ \A i \in EJobs : seen[i] # 0 \/ i = j => seen'[i] # 0
  BY <1>1, <1>2 DEF EInv, EType
<1>5. logs \in Seq(LogEntry) /\ Len(logs) \in Nat /\ \A i \in DOMAIN logs : logs[i].job \in EJobs /\ seen[logs[i].job] # 0
  <2>1. logs \in Seq(LogEntry) /\ \A i \in DOMAIN logs : seen[logs[i].job] # 0
    BY DEF EInv, EType, LogsInv
  <2>2. Len(logs) \in Nat /\ \A i \in DOMAIN logs : logs[i] \in LogEntry
    BY <2>1
  <2>3. \A x \in LogEntry : x.job \in EJobs
    BY DEF LogEntry
  <2> QED BY <2>1, <2>2, <2>3
<1>6. logs' \in Seq(LogEntry) /\ Traced(logs', staged, Len(logs')) /\ OnceIn(logs') /\ LogsInv'
  <2>1. CASE logs' = logs
    <3>1. LogsInv'
      BY <1>4, <1>5, <2>1 DEF LogsInv
    <3> QED BY <2>1, <3>1 DEF EInv, EType
  <2>2. CASE seen[j] = 0 /\ logs' = Append(logs, e)
    <3>1. /\ logs' \in Seq(LogEntry) /\ Len(logs') = Len(logs) + 1
          /\ DOMAIN logs = 1..Len(logs) /\ DOMAIN logs' = 1..Len(logs) + 1
          /\ \A i \in 1..Len(logs) : logs'[i] = logs[i]
          /\ logs'[Len(logs) + 1] = e
      BY <1>3, <1>5, <2>2, Logging
    <3>2. \A i \in 1..Len(logs) + 1 : i \in 1..Len(logs) \/ i = Len(logs) + 1
      BY <1>5
    <3>3. \A i \in DOMAIN logs : logs[i].job # j
      BY <1>5, <2>2
    <3> HIDE DEF e
    <3>4. OnceIn(logs')
      BY <1>3, <2>2, <3>3, OnceMore DEF EInv, EType
    <3>5. Traced(logs', staged, Len(logs'))
      <4>1. Traced(logs, staged, Len(logs))
        BY DEF EInv
      <4>2. Traced(Append(logs, e), staged, Len(logs) + 1)
        BY <1>3, <1>5, <4>1, TracedSilent
      <4> QED BY <2>2, <3>1, <4>2
    <3>6. LogsInv'
      BY <1>3, <1>4, <1>5, <3>1, <3>2 DEF LogsInv
    <3> QED BY <3>1, <3>4, <3>5, <3>6
  <2> QED BY <1>3, <2>1, <2>2 DEF See
<1>7. kept' \in 0..Len(logs')
  BY <1>2, <1>6
<1>8. EType' /\ Idle'
  BY <1>1, <1>2, <1>4, <1>6, <1>7 DEF EInv, EType, Idle
<1> QED BY <1>1, <1>2, <1>6, <1>8, QueueOfNone DEF EInv

\* What the sources say about the jobs of a scope is staged.
LEMMA EnrichFromSourceKeeps ==
  ASSUME NEW scope, NEW named, EInv, EnrichFromSource(scope, named)
  PROVE  EInv'
<1> DEFINE row == [source |-> "source", log |-> 0]
<1>1. /\ ~busy /\ saved' = staged'
      /\ UNCHANGED <<seen, logs, kept, ebatch, tries, result, busy>>
      /\ staged' = [j \in EJobs |-> IF j \in scope THEN Upserted(j, named[j], row)[j] ELSE staged[j]]
  BY DEF EnrichFromSource
<1>2. row \in Row /\ row.source = "source" /\ row.log = 0
  BY DEF Row
<1>3. staged \in [EJobs -> [Values -> Row]] /\ kept = Len(logs)
  BY <1>1 DEF EInv, EType, Idle
<1> HIDE DEF row
<1>4. \A j \in EJobs : /\ Upserted(j, named[j], row) \in [EJobs -> [Values -> Row]]
                       /\ \A v \in Values : Upserted(j, named[j], row)[j][v] \in {row, staged[j][v]}
  BY <1>2, <1>3, UpsertedIs
<1>5. /\ staged' \in [EJobs -> [Values -> Row]]
      /\ \A j \in EJobs, v \in Values : staged'[j][v] \in {row, staged[j][v]}
  BY <1>1, <1>3, <1>4
<1>6. Traced(logs, staged', Len(logs))
  <2> SUFFICES ASSUME NEW j \in EJobs, NEW v \in Values
               PROVE  Leads(logs, Len(logs), staged'[j][v], j, v)
    BY DEF Traced
  <2>1. CASE staged'[j][v] = row
    BY <1>2, <2>1 DEF Leads
  <2>2. CASE staged'[j][v] = staged[j][v]
    BY <2>2 DEF EInv, Traced
  <2> QED BY <1>5, <2>1, <2>2
<1>7. EType' /\ Idle' /\ LogsInv'
  BY <1>1, <1>5 DEF EInv, EType, Idle, LogsInv
<1> QED BY <1>1, <1>3, <1>6, <1>7 DEF EInv

\* A batch is made of jobs without a successful request.
LEMMA StartBatchKeeps == EInv /\ StartBatch => EInv'
<1> SUFFICES ASSUME EInv, StartBatch PROVE EInv'
  OBVIOUS
<1>1. /\ ~busy /\ busy' = TRUE /\ result' = NoResult /\ tries = 0 /\ kept = Len(logs)
      /\ UNCHANGED <<seen, logs, kept, staged, saved, tries>>
  BY DEF StartBatch, EInv, Idle
<1>2. Books(logs, kept, NoResult) /\ NoResult \in Counts
  BY <1>1, NoBooks DEF EInv, EType
<1>3. kept + 1..Len(logs) = {}
  BY <1>1 DEF EInv, EType
<1> DEFINE all == {j \in EJobs : Unenriched(j)}
           b == ebatch'
<1>4. PICK n \in 1..BatchLimit : b \in [1..n -> all]
  BY DEF StartBatch, Pending
<1>5. \A i, k \in DOMAIN b : i < k => Ahead(b[i], b[k])
  BY DEF StartBatch, Pending
<1>6. b \in Seq(EJobs) /\ DOMAIN b = 1..n /\ n \in Nat
  BY <1>4, EnrichmentAssumption
<1>7. \A i \in DOMAIN b : b[i] \in EJobs /\ Unenriched(b[i])
  BY <1>4, <1>6
<1> HIDE DEF all, b
<1>8. \A i \in DOMAIN b : seen[b[i]] # 0 /\ Open(logs, kept, b[i])
  BY <1>3, <1>7 DEF Unenriched, HasSuccess, Open
<1>9. \A j \in EJobs : ~Ahead(j, j)
  BY EnrichmentAssumption DEF Ahead, EInv, EType
<1>10. \A i, k \in DOMAIN b : b[i] = b[k] => i = k
  <2>1. \A i, k \in DOMAIN b : i < k \/ k < i \/ i = k
    BY <1>6
  <2> QED BY <1>5, <1>7, <1>9, <2>1
<1>11. Queue(b, logs, kept, seen)
  BY <1>8, <1>10 DEF Queue
<1>12. EType' /\ Idle' /\ LogsInv'
  BY <1>1, <1>2, <1>6 DEF EInv, EType, Idle, LogsInv, b
<1> QED BY <1>1, <1>2, <1>11, <1>12 DEF EInv, b

\* The caller commits.
LEMMA CommitBatchKeeps == EInv /\ CommitBatch => EInv'
<1> SUFFICES ASSUME EInv, CommitBatch PROVE EInv'
  OBVIOUS
<1>1. /\ ebatch = <<>> /\ kept' = Len(logs) /\ saved' = staged /\ busy' = FALSE /\ tries = 0
      /\ UNCHANGED <<seen, logs, staged, ebatch, tries, result>>
  BY DEF CommitBatch, EInv
<1>2. kept' \in 0..Len(logs)
  BY <1>1 DEF EInv, EType
<1>3. EType' /\ Idle' /\ LogsInv'
  BY <1>1, <1>2 DEF EInv, EType, Idle, LogsInv
<1> QED BY <1>1, <1>3, QueueOfNone DEF EInv

\* A batch that is dropped leaves what was committed before it.
LEMMA DropBatchKeeps == EInv /\ DropBatch => EInv'
<1> SUFFICES ASSUME EInv, DropBatch PROVE EInv'
  OBVIOUS
<1>1. /\ logs' = SubSeq(logs, 1, kept) /\ staged' = saved /\ ebatch' = <<>> /\ tries' = 0
      /\ result' = NoResult /\ busy' = FALSE
      /\ UNCHANGED <<seen, kept, saved>>
  BY DEF DropBatch
<1>2. kept \in Nat /\ kept <= Len(logs) /\ Len(logs) \in Nat
  BY DEF EInv, EType
<1>3. /\ logs' \in Seq(LogEntry) /\ Len(logs') = kept /\ DOMAIN logs' = 1..kept
      /\ \A i \in 1..kept : i \in DOMAIN logs /\ logs'[i] = logs[i]
  BY <1>1, <1>2 DEF EInv, EType
<1>4. Traced(logs', saved, kept)
  BY <1>2, <1>3, TracedPrefix DEF EInv
<1>5. OnceIn(logs')
  BY <1>3 DEF EInv, OnceIn
<1>6. LogsInv'
  BY <1>1, <1>3 DEF EInv, LogsInv
<1>7. NoResult \in Counts
  BY NoBooks, <1>3
<1>8. EType'
  <2>1. kept' \in 0..Len(logs') /\ tries' \in 0..MaxTries
    BY <1>1, <1>2, <1>3, EnrichmentAssumption
  <2>2. ebatch' \in Seq(EJobs)
    BY <1>1
  <2>3. /\ seen' \in [EJobs -> 0..MaxSeen] /\ result' \in Counts /\ busy' \in BOOLEAN
        /\ staged' \in [EJobs -> [Values -> Row]] /\ saved' \in [EJobs -> [Values -> Row]]
    BY <1>1, <1>7 DEF EInv, EType
  <2> QED BY <1>3, <2>1, <2>2, <2>3 DEF EType
<1>9. Idle'
  BY <1>1, <1>3 DEF Idle
<1> QED BY <1>1, <1>3, <1>4, <1>5, <1>6, <1>8, <1>9, QueueOfNone DEF EInv

-----------------------------------------------------------------------------
(* The theorem *)

\* Every step keeps the invariant.
LEMMA EInvKept == EInv /\ [ENext]_enrichVars => EInv'
<1> SUFFICES ASSUME EInv, [ENext]_enrichVars PROVE EInv'
  OBVIOUS
<1>1. CASE \E j \in EJobs, time \in 1..MaxSeen : See(j, time)
  BY <1>1, SeeKeeps
<1>2. CASE \E scope \in SUBSET Normalized \ {{}} : \E named \in [scope -> SUBSET Values] :
             EnrichFromSource(scope, named)
  BY <1>2, EnrichFromSourceKeeps
<1>3. CASE StartBatch
  BY <1>3, StartBatchKeeps
<1>4. CASE BatchStep
  BY <1>4, TakeJobKeeps, CommitBatchKeeps, AnsweredKeeps, RefusedKeeps DEF BatchStep
<1>5. CASE DropBatch
  BY <1>5, DropBatchKeeps
<1>6. CASE UNCHANGED enrichVars
  BY <1>6 DEF enrichVars, EInv, EType, Idle, LogsInv
<1> QED BY <1>1, <1>2, <1>3, <1>4, <1>5, <1>6 DEF ENext

\* The enrichment tables stay consistent, however batches fail, are dropped and
\* are repeated: rows lead to the requests that named their values, the books
\* are the logs, and no job is enriched twice.
THEOREM EnrichmentHolds == ESpec => []EnrichmentInv
<1>1. EInit => EInv
  BY EInvInit
<1>2. EInv /\ [ENext]_enrichVars => EInv'
  BY EInvKept
<1>3. EInv => EnrichmentInv
  BY EInvIsEnough
<1> QED BY <1>1, <1>2, <1>3, PTL DEF ESpec

\* The batch has fewer jobs left, or the request of its first job fewer tries.
BatchShrinks ==
  \/ Len(ebatch') < Len(ebatch)
  \/ ebatch' = ebatch /\ tries < tries' /\ tries' <= MaxTries

\* A job that is done with leaves the batch.
LEMMA ShorterTail == \A b \in Seq(EJobs) : b # <<>> => Len(Tail(b)) < Len(b)
OBVIOUS

\* Whatever the provider answers, each step of a batch leaves fewer jobs or
\* fewer tries (enrich_pending_batch and the retries of enrich_one).
THEOREM BatchesAlwaysShrink == ESpec => [][busy /\ busy' => BatchShrinks]_enrichVars
<1>1. EInv /\ EInv' /\ [ENext]_enrichVars => [busy /\ busy' => BatchShrinks]_enrichVars
  <2> SUFFICES ASSUME EInv, EInv', ENext, busy, busy' PROVE BatchShrinks
    OBVIOUS
  <2>1. /\ ebatch \in Seq(EJobs) /\ tries \in 0..MaxTries /\ tries' \in 0..MaxTries /\ MaxTries \in Nat
        /\ tries # 0 => ebatch # <<>>
    BY EnrichmentAssumption DEF EInv, EType
  <2>2. BatchStep
    <3>1. ~StartBatch /\ ~DropBatch /\ ~(\E j \in EJobs, time \in 1..MaxSeen : See(j, time))
      BY DEF StartBatch, DropBatch, See
    <3>2. ~(\E scope \in SUBSET Normalized \ {{}} : \E named \in [scope -> SUBSET Values] :
              EnrichFromSource(scope, named))
      BY DEF EnrichFromSource
    <3> QED BY <3>1, <3>2 DEF ENext
  <2>3. ebatch' = Tail(ebatch) /\ ebatch # <<>> => BatchShrinks
    BY <2>1, ShorterTail DEF BatchShrinks
  <2>4. CASE TakeJob
    <3>1. ebatch # <<>> /\ (ebatch' = Tail(ebatch) \/ (ebatch' = ebatch /\ tries = 0 /\ tries' = 1))
      BY <2>4 DEF TakeJob
    <3> QED BY <2>1, <2>3, <3>1 DEF BatchShrinks
  <2>5. ASSUME NEW named \in SUBSET Values, Answered(named) PROVE BatchShrinks
    BY <2>1, <2>3, <2>5 DEF Answered
  <2>6. ASSUME NEW retryable \in BOOLEAN, Refused(retryable) PROVE BatchShrinks
    <3>1. tries # 0 /\ (ebatch' = Tail(ebatch) \/ (ebatch' = ebatch /\ tries' = tries + 1))
      BY <2>6 DEF Refused
    <3> QED BY <2>1, <2>3, <3>1 DEF BatchShrinks
  <2>7. ~CommitBatch
    BY DEF CommitBatch
  <2> QED BY <2>2, <2>4, <2>5, <2>6, <2>7 DEF BatchStep
<1> QED BY <1>1, EInvInit, EInvKept, PTL DEF ESpec

-----------------------------------------------------------------------------
(* The clients of the AI provider *)

Metrics == [requests : Nat, successes : Nat, rate_limited : Nat, failed : Nat]
Flights ==
  {f \in [client : Clients, size : Nat \ {0}, model : ModelNames \cup {"none"}, attempt : 1..Retries + 1] :
     f.model = "none" => f.client = "enrichment"}

AType ==
  /\ turn \in DOMAIN Models
  /\ lastModel \in [Clients -> ModelNames]
  /\ metrics \in [Clients -> [ModelNames -> Metrics]]
  /\ order \in Seq(ModelNames)
  /\ flight = NoFlight \/ flight \in Flights
  /\ sends \in Nat

\* The rotation stands where the requests have left it.
TurnInv == turn = (Len(order) % Len(Models)) + 1

\* The attribute that is read back after an answer names the model of the
\* request, for there is no other request before the answer.
FlightInv ==
  /\ flight.model # "none" =>
       order # <<>> /\ flight.model = order[Len(order)] /\ lastModel[flight.client] = flight.model
  /\ flight # NoFlight => sends <= (flight.attempt - 1) * (Retries + 1)

\* The books of client c about model m, with the request under way.
Kept(k, open) == k.successes + k.failed + open <= k.requests /\ k.rate_limited <= k.failed
UnderWay(c, m) == IF flight.client = c /\ flight.model = m THEN 1 ELSE 0
KeptInv == \A c \in Clients, m \in ModelNames : Kept(metrics[c][m], UnderWay(c, m))
Sent(o, m) == {i \in DOMAIN o : o[i] = m}
Asked(k, l, o) == \A m \in ModelNames : k[m].requests + l[m].requests = Cardinality(Sent(o, m))
AskedInv == Asked(metrics["normalization"], metrics["enrichment"], order)

AInv ==
  /\ AType /\ TurnInv /\ FlightInv /\ KeptInv /\ AskedInv
  /\ RoundRobin /\ RowsAreOfRequest /\ SendsAreBounded

\* The invariant gives what the runs check.
LEMMA AInvIsEnough == AInv => ClientInv
<1> SUFFICES ASSUME AInv PROVE ClientInv
  OBVIOUS
<1>1. BooksBalance
  BY DEF AInv, KeptInv, Kept, UnderWay, AskedInv, Asked, Sent, BooksBalance
<1> QED BY <1>1 DEF AInv, AType, ClientInv

\* The models, and the place of the rotation after n requests.
LEMMA Rotation ==
  /\ Len(Models) \in Nat \ {0} /\ DOMAIN Models = 1..Len(Models)
  /\ \A t \in DOMAIN Models : Models[t] \in ModelNames
  /\ "none" \notin ModelNames
  /\ \A n \in Nat : (n % Len(Models)) + 1 \in DOMAIN Models
<1>1. /\ Len(Models) \in Nat \ {0} /\ DOMAIN Models = 1..Len(Models)
      /\ \A t \in DOMAIN Models : Models[t] # "none"
  BY ClientAssumption
<1>2. ASSUME NEW n \in Nat PROVE (n % Len(Models)) + 1 \in DOMAIN Models
  BY <1>1
<1> QED BY <1>1, <1>2 DEF ModelNames

\* One more request.
LEMMA OneMoreSent ==
  ASSUME NEW o \in Seq(ModelNames), NEW model \in ModelNames, NEW m
  PROVE  LET c == Cardinality(Sent(o, m))
         IN /\ c \in Nat
            /\ Cardinality(Sent(Append(o, model), m)) = IF m = model THEN c + 1 ELSE c
<1> DEFINE p == Append(o, model)
           n == Len(o)
           was == Sent(o, m)
           is == Sent(p, m)
<1>1. /\ n \in Nat /\ DOMAIN o = 1..n /\ DOMAIN p = 1..n + 1 /\ n + 1 \notin 1..n
      /\ \A i \in 1..n : p[i] = o[i]
      /\ p[n + 1] = model
      /\ \A i : i \in 1..n + 1 <=> i \in 1..n \/ i = n + 1
  OBVIOUS
<1>2. IsFiniteSet(was) /\ n + 1 \notin was
  <2>1. IsFiniteSet(1..n)
    BY <1>1, FS_Interval
  <2>2. was \subseteq 1..n
    BY <1>1 DEF Sent
  <2> QED BY <1>1, <2>1, <2>2, FS_Subset
<1> HIDE DEF p, n
<1>3. \A i : i \in is <=> i \in was \/ (i = n + 1 /\ m = model)
  BY <1>1 DEF Sent
<1> HIDE DEF was, is
<1>4. CASE m = model
  <2>1. is = was \cup {n + 1}
    BY <1>3, <1>4
  <2> QED BY <1>2, <1>4, <2>1, FS_AddElement, FS_CardinalityType DEF was, is, p
<1>5. CASE m # model
  <2>1. is = was
    BY <1>3, <1>5
  <2> QED BY <1>2, <1>5, <2>1, FS_CardinalityType DEF was, is, p
<1> QED BY <1>4, <1>5

\* It holds at first.
LEMMA AInvInit == AInit => AInv
<1> SUFFICES ASSUME AInit PROVE AInv
  OBVIOUS
<1>1. NoMetrics \in Metrics /\ \A f \in DOMAIN NoMetrics : NoMetrics[f] = 0
  BY DEF NoMetrics, Metrics
<1>2. /\ order = <<>> /\ Len(order) = 0 /\ order \in Seq(ModelNames) /\ DOMAIN order = {}
      /\ flight = NoFlight /\ flight.model = "none" /\ turn = 1 /\ sends = 0 /\ journal = <<>>
      /\ \A c \in Clients, m \in ModelNames : metrics[c][m] = NoMetrics
  BY DEF AInit, NoFlight
<1>3. 1 \in DOMAIN Models /\ 0 % Len(Models) = 0
  BY Rotation
<1>4. AType
  BY <1>1, <1>2, <1>3, Rotation DEF AInit, AType
<1>5. \A m : Sent(order, m) = {}
  BY <1>2 DEF Sent
<1>6. AskedInv
  <2>1. Cardinality({}) = 0
    BY FS_EmptySet
  <2>2. \A c \in Clients, m \in ModelNames : metrics[c][m].requests = 0
    BY <1>2 DEF NoMetrics
  <2> SUFFICES ASSUME NEW m \in ModelNames
               PROVE  metrics["normalization"][m].requests + metrics["enrichment"][m].requests
                        = Cardinality(Sent(order, m))
    BY DEF AskedInv, Asked
  <2>3. metrics["normalization"][m].requests = 0 /\ metrics["enrichment"][m].requests = 0
    BY <2>2 DEF Clients
  <2>4. Cardinality(Sent(order, m)) = 0
    BY <1>5, <2>1
  <2> QED BY <2>3, <2>4
<1>7. KeptInv
  <2>1. \A c \in Clients, m \in ModelNames : UnderWay(c, m) = 0
    BY <1>2, Rotation DEF UnderWay
  <2>2. Kept(NoMetrics, 0)
    BY DEF Kept, NoMetrics
  <2> QED BY <1>2, <2>1, <2>2 DEF KeptInv
<1>8. SendsAreBounded
  <2>1. Retries + 1 \in Nat
    BY ClientAssumption
  <2>2. \A a \in Nat : a * a >= 0
    OBVIOUS
  <2> QED BY <1>2, <2>1, <2>2 DEF SendsAreBounded
<1> QED BY <1>2, <1>3, <1>4, <1>6, <1>7, <1>8 DEF AInv, TurnInv, FlightInv, RoundRobin, RowsAreOfRequest

\* What _record_metrics counts.
LEMMA CountIs ==
  ASSUME NEW c \in Clients, NEW m \in ModelNames, NEW fields, AType
  PROVE  LET next == Count(c, m, fields)
             k == metrics[c][m]
         IN /\ next \in [Clients -> [ModelNames -> Metrics]]
            /\ \A d \in Clients, n \in ModelNames : d # c \/ n # m => next[d][n] = metrics[d][n]
            /\ next[c][m].requests = IF "requests" \in fields THEN k.requests + 1 ELSE k.requests
            /\ next[c][m].successes = IF "successes" \in fields THEN k.successes + 1 ELSE k.successes
            /\ next[c][m].rate_limited = IF "rate_limited" \in fields THEN k.rate_limited + 1 ELSE k.rate_limited
            /\ next[c][m].failed = IF "failed" \in fields THEN k.failed + 1 ELSE k.failed
<1> DEFINE k == metrics[c][m]
           l == [f \in DOMAIN k |-> IF f \in fields THEN k[f] + 1 ELSE k[f]]
<1>1. k \in Metrics /\ metrics \in [Clients -> [ModelNames -> Metrics]]
  BY DEF AType
<1>2. DOMAIN k = {"requests", "successes", "rate_limited", "failed"}
  BY <1>1 DEF Metrics
<1>3. \A f \in DOMAIN k : k[f] \in Nat
  BY <1>1, <1>2 DEF Metrics
<1>4. DOMAIN l = DOMAIN k /\ \A f \in DOMAIN k : l[f] = IF f \in fields THEN k[f] + 1 ELSE k[f]
  OBVIOUS
<1>5. \A f \in DOMAIN k : l[f] \in Nat
  BY <1>3, <1>4
<1>6. l \in Metrics
  BY <1>2, <1>4, <1>5 DEF Metrics
<1>7. Count(c, m, fields) = [metrics EXCEPT ![c] = [metrics[c] EXCEPT ![m] = l]]
  BY <1>1 DEF Count
<1> HIDE DEF l
<1>8. /\ Count(c, m, fields) \in [Clients -> [ModelNames -> Metrics]]
      /\ Count(c, m, fields)[c][m] = l
      /\ \A d \in Clients, n \in ModelNames : d # c \/ n # m => Count(c, m, fields)[d][n] = metrics[d][n]
  BY <1>1, <1>6, <1>7
<1> QED BY <1>2, <1>4, <1>8

\* A number is its quotient and its remainder, ...
LEMMA Division ==
  ASSUME NEW n \in Nat, NEW k \in Nat \ {0}
  PROVE  n = k * (n \div k) + (n % k) /\ n % k \in 0..k - 1 /\ n \div k \in Nat
OBVIOUS

\* ... and no other.
LEMMA Remainder ==
  ASSUME NEW q \in Nat, NEW k \in Nat \ {0}, NEW r \in 0..k - 1
  PROVE  (k * q + r) % k = r
OBVIOUS

\* The rotation from one number of requests to the next.
LEMMA ModuloNext ==
  ASSUME NEW n \in Nat, NEW k \in Nat \ {0}
  PROVE  ((n % k) + 1) % k = (n + 1) % k
<1> DEFINE r == n % k
           q == n \div k
<1>1. n = k * q + r /\ r \in 0..k - 1 /\ q \in Nat
  BY Division
<1>2. CASE r + 1 < k
  <2>1. r + 1 \in 0..k - 1
    BY <1>1, <1>2
  <2>2. n + 1 = k * q + (r + 1) /\ k * 0 + (r + 1) = r + 1
    BY <1>1
  <2>3. (k * q + (r + 1)) % k = r + 1 /\ (k * 0 + (r + 1)) % k = r + 1
    BY <1>1, <2>1, Remainder
  <2> QED BY <2>2, <2>3
<1>3. CASE r + 1 = k
  <2>1. n + 1 = k * (q + 1) + 0 /\ k * 1 + 0 = k
    BY <1>1, <1>3
  <2>2. (k * (q + 1) + 0) % k = 0
    BY <1>1, Remainder
  <2>3. (k * 1 + 0) % k = 0
    BY Remainder
  <2> QED BY <1>3, <2>1, <2>2, <2>3
<1> QED BY <1>1, <1>2, <1>3

\* Attempts before another one, each with all of its retries.
LEMMA Products ==
  ASSUME NEW r \in Nat, NEW a \in 1..r + 1
  PROVE  /\ (a - 1) * (r + 1) \in Nat /\ a * (r + 1) \in Nat /\ (r + 1) * (r + 1) \in Nat
         /\ (a - 1) * (r + 1) + (r + 1) = a * (r + 1)
         /\ a * (r + 1) <= (r + 1) * (r + 1)
         /\ (a - 1) * (r + 1) <= (r + 1) * (r + 1)
OBVIOUS

\* A client takes its turn and sends.
LEMMA SendKeeps ==
  ASSUME AInv, NEW c \in Clients, NEW size \in Nat \ {0}, NEW attempt \in 1..Retries + 1,
         Send(c, size, attempt), flight.model = "none",
         sends' \in Nat, sends' <= (attempt - 1) * (Retries + 1),
         journal' = <<>> \/ journal' = journal
  PROVE  AInv'
<1> DEFINE model == Models[turn]
<1>1. /\ model \in ModelNames /\ model # "none" /\ turn \in DOMAIN Models
      /\ Len(order) \in Nat /\ Len(Models) \in Nat \ {0}
  <2>1. turn \in DOMAIN Models /\ order \in Seq(ModelNames)
    BY DEF AInv, AType
  <2>2. Len(order) \in Nat
    BY <2>1
  <2>3. model \in ModelNames /\ model # "none"
    BY <2>1, Rotation
  <2> QED BY <2>1, <2>2, <2>3, Rotation
<1>2. /\ flight' = [client |-> c, size |-> size, model |-> model, attempt |-> attempt]
      /\ lastModel' = [lastModel EXCEPT ![c] = model]
      /\ metrics' = Count(c, model, {"requests"})
      /\ order' = Append(order, model)
      /\ turn' = NextTurn(turn)
  BY DEF Send
<1> HIDE DEF model
<1>3. flight' \in Flights /\ flight'.model = model /\ flight'.client = c /\ flight'.attempt = attempt
  BY <1>1, <1>2 DEF Flights
<1>4. flight' # NoFlight
  BY <1>1, <1>3 DEF NoFlight
<1>5. /\ order' \in Seq(ModelNames) /\ Len(order') = Len(order) + 1
      /\ DOMAIN order = 1..Len(order) /\ DOMAIN order' = 1..Len(order) + 1
      /\ \A i \in 1..Len(order) : order'[i] = order[i]
      /\ order'[Len(order) + 1] = model
  BY <1>1, <1>2 DEF AInv, AType
<1>6. turn' = (Len(order') % Len(Models)) + 1 /\ turn' \in DOMAIN Models
  <2>1. turn = (Len(order) % Len(Models)) + 1
    BY DEF AInv, TurnInv
  <2>2. ((Len(order) % Len(Models)) + 1) % Len(Models) = (Len(order) + 1) % Len(Models)
    BY <1>1, ModuloNext
  <2>3. turn' = (Len(order') % Len(Models)) + 1
    BY <1>2, <1>5, <2>1, <2>2 DEF NextTurn
  <2> QED BY <1>1, <1>5, <2>3, Rotation
<1>7. RoundRobin'
  <2>1. \A i \in 1..Len(order) + 1 : i \in 1..Len(order) \/ i = Len(order) + 1
    BY <1>1
  <2>2. \A i \in 1..Len(order) : order[i] = Models[((i - 1) % Len(Models)) + 1]
    BY <1>5 DEF AInv, RoundRobin
  <2>3. (Len(order) + 1) - 1 = Len(order)
    BY <1>1
  <2>4. model = Models[(Len(order) % Len(Models)) + 1]
    BY DEF model, AInv, TurnInv
  <2> QED BY <1>5, <2>1, <2>2, <2>3, <2>4 DEF RoundRobin
<1>8. lastModel' \in [Clients -> ModelNames] /\ lastModel'[c] = model
  BY <1>1, <1>2 DEF AInv, AType
<1>9. /\ metrics' \in [Clients -> [ModelNames -> Metrics]]
      /\ \A d \in Clients, n \in ModelNames : d # c \/ n # model => metrics'[d][n] = metrics[d][n]
      /\ metrics'[c][model].requests = metrics[c][model].requests + 1
      /\ metrics'[c][model].successes = metrics[c][model].successes
      /\ metrics'[c][model].rate_limited = metrics[c][model].rate_limited
      /\ metrics'[c][model].failed = metrics[c][model].failed
  BY <1>1, <1>2, CountIs DEF AInv
<1>10. AType'
  BY <1>3, <1>5, <1>6, <1>8, <1>9 DEF AType
<1>11. KeptInv'
  <2> SUFFICES ASSUME NEW d \in Clients, NEW n \in ModelNames
               PROVE  Kept(metrics'[d][n], UnderWay(d, n)')
    BY DEF KeptInv
  <2>1. Kept(metrics[d][n], 0)
    <3>1. UnderWay(d, n) = 0
      BY Rotation DEF UnderWay
    <3> QED BY <3>1 DEF AInv, KeptInv
  <2>2. CASE d = c /\ n = model
    <3>1. UnderWay(d, n)' = 1
      BY <1>3, <2>2 DEF UnderWay
    <3>2. metrics[c][model] \in Metrics
      BY <1>1 DEF AInv, AType
    <3> QED BY <1>9, <2>1, <2>2, <3>1, <3>2 DEF Kept, Metrics
  <2>3. CASE d # c \/ n # model
    <3>1. UnderWay(d, n)' = 0
      BY <1>3, <2>3 DEF UnderWay
    <3> QED BY <1>9, <2>1, <2>3, <3>1
  <2> QED BY <2>2, <2>3
<1>12. AskedInv'
  <2> SUFFICES ASSUME NEW n \in ModelNames
               PROVE  metrics'["normalization"][n].requests + metrics'["enrichment"][n].requests
                        = Cardinality(Sent(order', n))
    BY DEF AskedInv, Asked
  <2> DEFINE r(d) == metrics[d][n].requests
             s(d) == metrics'[d][n].requests
             k == Cardinality(Sent(order, n))
  <2>1. r("normalization") + r("enrichment") = k
    BY DEF AInv, AskedInv, Asked
  <2>2. k \in Nat /\ Cardinality(Sent(order', n)) = IF n = model THEN k + 1 ELSE k
    BY <1>1, <1>2, OneMoreSent DEF AInv, AType
  <2>3. \A d \in Clients : r(d) \in Nat
    BY DEF AInv, AType, Metrics
  <2>4. \A d \in Clients : s(d) = IF d = c /\ n = model THEN r(d) + 1 ELSE r(d)
    BY <1>9
  <2> HIDE DEF r, s, k
  <2>5. c \in {"normalization", "enrichment"} /\ Clients = {"normalization", "enrichment"}
    BY DEF Clients
  <2>6. s("normalization") + s("enrichment") = Cardinality(Sent(order', n))
    BY <2>1, <2>2, <2>3, <2>4, <2>5
  <2> QED BY <2>6 DEF s
<1>13. FlightInv'
  BY <1>3, <1>5, <1>8 DEF FlightInv
<1>14. RowsAreOfRequest'
  BY <1>4 DEF RowsAreOfRequest
<1>15. SendsAreBounded'
  <2>1. Retries \in Nat
    BY ClientAssumption
  <2>2. (attempt - 1) * (Retries + 1) <= (Retries + 1) * (Retries + 1)
    BY <2>1, Products
  <2>3. (attempt - 1) * (Retries + 1) \in Nat /\ (Retries + 1) * (Retries + 1) \in Nat
    BY <2>1, Products
  <2> QED BY <2>2, <2>3 DEF SendsAreBounded
<1> QED BY <1>6, <1>7, <1>10, <1>11, <1>12, <1>13, <1>14, <1>15 DEF AInv, TurnInv

\* A request about new jobs, and one more about the same job.
LEMMA AskKeeps ==
  ASSUME NEW c \in Clients, NEW size \in BatchSizes, AInv, Ask(c, size) PROVE AInv'
<1>1. flight.model = "none" /\ Send(c, size, 1) /\ sends' = 0 /\ journal' = <<>>
  BY DEF Ask, NoFlight
<1>2. size \in Nat \ {0} /\ 1 \in 1..Retries + 1
  BY ClientAssumption
<1>3. 0 <= (1 - 1) * (Retries + 1)
  BY ClientAssumption
<1> QED BY <1>1, <1>2, <1>3, SendKeeps

LEMMA AskAgainKeeps == AInv /\ AskAgain => AInv'
<1> SUFFICES ASSUME AInv, AskAgain PROVE AInv'
  OBVIOUS
<1>1. /\ flight \in Flights /\ flight.model = "none" /\ Send(flight.client, 1, flight.attempt)
      /\ sends' = sends /\ journal' = journal /\ sends \in Nat
      /\ sends <= (flight.attempt - 1) * (Retries + 1)
  BY DEF AskAgain, AInv, AType, FlightInv
<1>2. flight.client \in Clients /\ flight.attempt \in 1..Retries + 1
  BY <1>1 DEF Flights
<1> QED BY <1>1, <1>2, SendKeeps

\* A request comes to an end: it is counted, and the call is over or repeated.
LEMMA EndKeeps ==
  ASSUME AInv, flight.model # "none",
         NEW fields \in {{"failed"}, {"rate_limited", "failed"}, {}, {"successes"}},
         metrics' = Count(flight.client, flight.model, fields),
         NEW n \in 1..Retries + 1, sends' = sends + n, UNCHANGED <<turn, lastModel, order>>,
         \/ flight' = NoFlight
         \/ /\ flight' = [flight EXCEPT !.model = "none", !.attempt = @ + 1]
            /\ flight.client = "enrichment" /\ flight.attempt <= Retries,
         flight' = NoFlight =>
           \A i \in DOMAIN journal' : /\ journal'[i].model = order[Len(order)]
                                      /\ journal'[i].status \in {"success", "failed"}
                                      /\ journal'[i].retries <= Retries
  PROVE  AInv'
<1> DEFINE c == flight.client
           model == flight.model
           a == flight.attempt
<1>1. flight \in Flights
  BY DEF AInv, AType, NoFlight
<1>2. c \in Clients /\ model \in ModelNames /\ a \in 1..Retries + 1 /\ sends \in Nat /\ Retries \in Nat
  BY <1>1, ClientAssumption DEF Flights, AInv, AType
<1>3. /\ metrics' \in [Clients -> [ModelNames -> Metrics]]
      /\ \A d \in Clients, m \in ModelNames : d # c \/ m # model => metrics'[d][m] = metrics[d][m]
      /\ metrics'[c][model].requests = metrics[c][model].requests
      /\ metrics'[c][model].successes
           = IF "successes" \in fields THEN metrics[c][model].successes + 1 ELSE metrics[c][model].successes
      /\ metrics'[c][model].rate_limited
           = IF "rate_limited" \in fields THEN metrics[c][model].rate_limited + 1 ELSE metrics[c][model].rate_limited
      /\ metrics'[c][model].failed
           = IF "failed" \in fields THEN metrics[c][model].failed + 1 ELSE metrics[c][model].failed
  BY <1>2, CountIs DEF AInv
<1>4. sends <= (a - 1) * (Retries + 1) /\ sends' \in Nat /\ sends' <= a * (Retries + 1)
      /\ sends' <= (Retries + 1) * (Retries + 1)
  <2>1. sends <= (a - 1) * (Retries + 1)
    BY <1>1 DEF AInv, FlightInv, NoFlight
  <2>2. /\ (a - 1) * (Retries + 1) \in Nat /\ a * (Retries + 1) \in Nat
        /\ (a - 1) * (Retries + 1) + (Retries + 1) = a * (Retries + 1)
        /\ (Retries + 1) * (Retries + 1) \in Nat
        /\ a * (Retries + 1) <= (Retries + 1) * (Retries + 1)
    BY <1>2, Products
  <2> HIDE DEF a
  <2> QED BY <1>2, <2>1, <2>2
<1>5. flight'.model = "none"
  <2>1. CASE flight' = NoFlight
    BY <2>1 DEF NoFlight
  <2>2. CASE flight' = [flight EXCEPT !.model = "none", !.attempt = @ + 1]
    <3>1. flight' = [[flight EXCEPT !.model = "none"] EXCEPT !.attempt = flight.attempt + 1]
      BY <1>1, <2>2 DEF Flights
    <3>2. [flight EXCEPT !.model = "none"].model = "none"
      BY <1>1 DEF Flights
    <3> QED BY <1>1, <3>1, <3>2 DEF Flights
  <2> QED BY <2>1, <2>2
<1>6. flight' # NoFlight => flight' \in Flights /\ flight'.attempt = a + 1
  <2> SUFFICES ASSUME flight' # NoFlight PROVE flight' \in Flights /\ flight'.attempt = a + 1
    OBVIOUS
  <2>1. /\ flight' = [flight EXCEPT !.model = "none", !.attempt = a + 1]
        /\ c = "enrichment" /\ a + 1 \in 1..Retries + 1
    BY <1>1, <1>2 DEF Flights
  <2> QED BY <1>1, <2>1 DEF Flights
<1>7. AType' /\ TurnInv' /\ RoundRobin'
  BY <1>3, <1>4, <1>6 DEF AInv, AType, TurnInv, RoundRobin
<1>8. FlightInv'
  <2>1. flight' # NoFlight => (flight'.attempt - 1) = a
    BY <1>2, <1>6
  <2> QED BY <1>4, <1>5, <2>1 DEF FlightInv
<1> HIDE DEF c, model, a
<1>9. KeptInv'
  <2> SUFFICES ASSUME NEW d \in Clients, NEW m \in ModelNames
               PROVE  Kept(metrics'[d][m], UnderWay(d, m)')
    BY DEF KeptInv
  <2>1. UnderWay(d, m)' = 0
    BY <1>5, Rotation DEF UnderWay
  <2>2. Kept(metrics[d][m], UnderWay(d, m)) /\ metrics[d][m] \in Metrics
    BY DEF AInv, KeptInv, AType
  <2>3. CASE d = c /\ m = model
    <3>1. UnderWay(d, m) = 1
      BY <2>3 DEF UnderWay, c, model
    <3>2. /\ metrics[c][model].failed \in Nat /\ metrics[c][model].successes \in Nat
          /\ metrics[c][model].requests \in Nat /\ metrics[c][model].rate_limited \in Nat
      BY <2>2, <2>3 DEF Metrics
    <3>3. "successes" \in fields => "failed" \notin fields
      OBVIOUS
    <3>4. "rate_limited" \in fields => "failed" \in fields
      OBVIOUS
    <3> DEFINE k == metrics[c][model]
               l == metrics'[c][model]
    <3>5. k.successes + k.failed + 1 <= k.requests /\ k.rate_limited <= k.failed
      BY <2>2, <2>3, <3>1 DEF Kept
    <3>6. /\ l.requests = k.requests
          /\ l.successes = IF "successes" \in fields THEN k.successes + 1 ELSE k.successes
          /\ l.rate_limited = IF "rate_limited" \in fields THEN k.rate_limited + 1 ELSE k.rate_limited
          /\ l.failed = IF "failed" \in fields THEN k.failed + 1 ELSE k.failed
      BY <1>3
    <3> HIDE DEF k, l
    <3>7. l.successes + l.failed + 0 <= l.requests /\ l.rate_limited <= l.failed
      <4>1. k.failed \in Nat /\ k.successes \in Nat /\ k.requests \in Nat /\ k.rate_limited \in Nat
        BY <3>2 DEF k
      <4>2. CASE "failed" \in fields
        BY <3>3, <3>5, <3>6, <4>1, <4>2
      <4>3. CASE "failed" \notin fields
        BY <3>4, <3>5, <3>6, <4>1, <4>3
      <4> QED BY <4>2, <4>3
    <3> QED BY <2>1, <2>3, <3>7 DEF Kept, l
  <2>4. CASE d # c \/ m # model
    <3>1. UnderWay(d, m) = 0
      BY <2>4 DEF UnderWay, c, model
    <3> QED BY <1>3, <2>1, <2>2, <2>4, <3>1
  <2> QED BY <2>3, <2>4
<1>10. AskedInv'
  <2>1. \A d \in Clients, m \in ModelNames : metrics'[d][m].requests = metrics[d][m].requests
    BY <1>3
  <2>2. "normalization" \in Clients /\ "enrichment" \in Clients
    BY DEF Clients
  <2> QED BY <2>1, <2>2 DEF AInv, AskedInv, Asked
<1>11. RowsAreOfRequest'
  BY DEF RowsAreOfRequest
<1>12. SendsAreBounded'
  BY <1>4 DEF SendsAreBounded
<1> QED BY <1>7, <1>8, <1>9, <1>10, <1>11, <1>12 DEF AInv

\* What an error counts, and how many requests it stands for.
LEMMA ErrorsAre ==
  ASSUME NEW failure \in DOMAIN Errors
  PROVE  /\ Errors[failure].counted \in {{"failed"}, {"rate_limited", "failed"}, {}}
         /\ \A n \in SdkSends(Errors[failure]) : n \in 1..Retries + 1
<1>1. Errors[failure].counted \in {{"failed"}, {"rate_limited", "failed"}, {}}
  BY DEF Errors, Error
<1>2. Retries + 1 \in 1..Retries + 1
  BY ClientAssumption
<1>3. \A e : SdkSends(e) \subseteq 1..Retries + 1
  BY <1>2 DEF SdkSends
<1> QED BY <1>1, <1>3

\* The request under way, and the row that the caller writes of it.
LEMMA InFlight ==
  ASSUME AInv, flight.model # "none"
  PROVE  /\ flight \in Flights /\ flight.client \in Clients /\ flight.model \in ModelNames
         /\ flight.attempt \in 1..Retries + 1 /\ flight.size \in Nat \ {0}
         /\ \A status \in {"success", "failed"} : \A code :
              LET row == LogRow(status, code)
              IN row.model = order[Len(order)] /\ row.status = status /\ row.retries <= Retries
<1>1. flight \in Flights /\ lastModel[flight.client] = order[Len(order)]
  BY DEF AInv, AType, FlightInv, NoFlight
<1>2. /\ flight.client \in Clients /\ flight.model \in ModelNames
      /\ flight.attempt \in 1..Retries + 1 /\ flight.size \in Nat \ {0}
  BY <1>1 DEF Flights
<1>3. flight.attempt - 1 <= Retries
  BY <1>2, ClientAssumption
<1> QED BY <1>1, <1>2, <1>3 DEF LogRow

LEMMA FailsKeeps ==
  ASSUME NEW failure \in DOMAIN Errors, AInv, Fails(Errors[failure]) PROVE AInv'
<1> DEFINE error == Errors[failure]
<1>1. /\ flight.model # "none" /\ metrics' = Count(flight.client, flight.model, error.counted)
      /\ UNCHANGED <<turn, lastModel, order>>
  BY DEF Fails
<1>2. PICK n \in SdkSends(error) : sends' = sends + n
  BY DEF Fails
<1>3. n \in 1..Retries + 1 /\ error.counted \in {{"failed"}, {"rate_limited", "failed"}, {}, {"successes"}}
  BY ErrorsAre
<1> HIDE DEF error
<1>4. CASE flight.client = "enrichment" /\ error.retryable /\ flight.attempt <= Retries
  <2>1. flight' = [flight EXCEPT !.model = "none", !.attempt = @ + 1]
    BY <1>4 DEF Fails, error
  <2>2. flight' # NoFlight
    <3>1. flight \in Flights /\ flight.client # "none"
      BY <1>4, <1>1, InFlight
    <3>2. flight'.client = flight.client
      BY <2>1, <3>1 DEF Flights
    <3> QED BY <3>1, <3>2 DEF NoFlight
  <2> QED BY <1>1, <1>2, <1>3, <1>4, <2>1, <2>2, EndKeeps
<1>5. CASE ~(flight.client = "enrichment" /\ error.retryable /\ flight.attempt <= Retries)
  <2>1. flight' = NoFlight /\ journal' = [i \in 1..flight.size |-> LogRow("failed", error.code)]
    BY <1>5 DEF Fails, error
  <2>2. \A i \in DOMAIN journal' : journal'[i] = LogRow("failed", error.code)
    BY <2>1
  <2>3. \A i \in DOMAIN journal' : /\ journal'[i].model = order[Len(order)]
                                   /\ journal'[i].status \in {"success", "failed"}
                                   /\ journal'[i].retries <= Retries
    BY <1>1, <2>2, InFlight
  <2> QED BY <1>1, <1>2, <1>3, <2>1, <2>3, EndKeeps
<1> QED BY <1>4, <1>5

\* Of results in the order of the items, none is missing.
LEMMA SucceedsKeeps ==
  ASSUME AInv, NEW results \in Results(flight.size), Succeeds(results) PROVE AInv'
<1>1. flight.model # "none"
  BY DEF Succeeds
<1>2. CASE ~Identified(results)
  <2>1. Fails(Errors["contract"]) /\ "contract" \in DOMAIN Errors
    BY <1>2 DEF Succeeds, Errors
  <2> QED BY <2>1, FailsKeeps
<1>3. CASE Identified(results)
  <2>1. /\ metrics' = Count(flight.client, flight.model, {"successes"})
        /\ flight' = NoFlight
        /\ UNCHANGED <<turn, lastModel, order>>
    BY <1>3 DEF Succeeds
  <2>2. PICK n \in 1..Retries + 1 : sends' = sends + n
    BY <1>3 DEF Succeeds
  <2>3. \A i \in 1..flight.size : \E k \in DOMAIN results : results[k].item = i
    <3>1. DOMAIN results = 1..Len(results)
      <4>1. CASE flight.client = "enrichment"
        <5>1. results = <<[item |-> 1, good |-> TRUE]>>
          BY <4>1 DEF Results
        <5> QED BY <5>1
      <4>2. CASE flight.client # "enrichment"
        <5>1. PICK k \in 1..flight.size : results \in [1..k -> [item : 1..flight.size, good : BOOLEAN]]
          BY <4>2 DEF Results
        <5>2. k \in Nat
          BY <1>1, InFlight
        <5> QED BY <5>1, <5>2
      <4> QED BY <4>1, <4>2
    <3> QED BY <1>3, <3>1 DEF Identified
  <2>4. /\ DOMAIN journal' = 1..flight.size
        /\ \A i \in 1..flight.size :
             journal'[i] \in {LogRow("success", ""), LogRow("failed", "ITEM_ERROR")}
    BY <1>3, <2>3 DEF Succeeds
  <2>5. \A i \in DOMAIN journal' : /\ journal'[i].model = order[Len(order)]
                                   /\ journal'[i].status \in {"success", "failed"}
                                   /\ journal'[i].retries <= Retries
    BY <1>1, <2>4, InFlight
  <2> QED BY <1>1, <2>1, <2>2, <2>5, EndKeeps
<1> QED BY <1>2, <1>3

\* Every step keeps the invariant.
LEMMA AInvKept == AInv /\ [ANext]_clientVars => AInv'
<1> SUFFICES ASSUME AInv, [ANext]_clientVars PROVE AInv'
  OBVIOUS
<1>1. CASE \E c \in Clients, size \in BatchSizes : Ask(c, size)
  BY <1>1, AskKeeps
<1>2. CASE AskAgain
  BY <1>2, AskAgainKeeps
<1>3. CASE \E failure \in DOMAIN Errors : flight # NoFlight /\ Fails(Errors[failure])
  BY <1>3, FailsKeeps
<1>4. CASE flight # NoFlight /\ \E results \in Results(flight.size) : Succeeds(results)
  BY <1>4, SucceedsKeeps
<1>5. CASE UNCHANGED clientVars
  BY <1>5 DEF clientVars, AInv, AType, TurnInv, FlightInv, KeptInv, AskedInv, UnderWay,
              RoundRobin, RowsAreOfRequest, SendsAreBounded
<1> QED BY <1>1, <1>2, <1>3, <1>4, <1>5 DEF ANext

\* Whichever client asks, and however its requests fail: the models take turns,
\* their metrics account for every request, a row of the log names the model
\* that was asked, and the retries multiply to no more than their product.
THEOREM ClientsAreExact == ASpec => []ClientInv
<1>1. AInit => AInv
  BY AInvInit
<1>2. AInv /\ [ANext]_clientVars => AInv'
  BY AInvKept
<1>3. AInv => ClientInv
  BY AInvIsEnough
<1> QED BY <1>1, <1>2, <1>3, PTL DEF ASpec

-----------------------------------------------------------------------------
(* Salaries *)

\* The ends of a range.
LEMMA Ends ==
  ASSUME NEW a \in Int, NEW b \in Int
  PROVE  LET ends == {a} \cup {b}
         IN /\ Lowest(ends) \in ends /\ Highest(ends) \in ends /\ Lowest(ends) <= Highest(ends)
            /\ a <= b => Lowest(ends) = a /\ Highest(ends) = b
<1> DEFINE ends == {a} \cup {b}
<1>1. \E m \in ends : \A n \in ends : m <= n
  <2>1. CASE a <= b
    BY <2>1
  <2>2. CASE b <= a
    BY <2>2
  <2> QED BY <2>1, <2>2
<1>2. \E m \in ends : \A n \in ends : m >= n
  <2>1. CASE a <= b
    BY <2>1
  <2>2. CASE b <= a
    BY <2>2
  <2> QED BY <2>1, <2>2
<1>3. Lowest(ends) \in ends /\ \A n \in ends : Lowest(ends) <= n
  BY <1>1 DEF Lowest
<1>4. Highest(ends) \in ends /\ \A n \in ends : Highest(ends) >= n
  BY <1>2 DEF Highest
<1> HIDE DEF ends
<1>5. ends \subseteq Int /\ a \in ends /\ b \in ends /\ \A x \in ends : x = a \/ x = b
  BY DEF ends
<1>6. Lowest(ends) <= Highest(ends)
  BY <1>3, <1>4
<1>7. a <= b => Lowest(ends) = a /\ Highest(ends) = b
  <2> DEFINE l == Lowest(ends)
             h == Highest(ends)
  <2>1. (l = a \/ l = b) /\ l <= a /\ (h = a \/ h = b) /\ h >= b
    BY <1>3, <1>4, <1>5
  <2> HIDE DEF l, h
  <2>2. a <= b => l = a
    BY <2>1
  <2>3. a <= b => h = b
    BY <2>1
  <2> QED BY <2>2, <2>3 DEF l, h
<1> QED BY <1>3, <1>4, <1>6, <1>7 DEF ends

\* The values that a raw payload or a label may give.
LEMMA GivenIs ==
  ASSUME NEW values, NEW S
  PROVE  Given(values, S) <=> values = {} \/ \E x \in S : values = {x}
BY DEF Given

LEMMA AmountIs == ASSUME NEW label, IsLabel(label), NEW i \in {1, 2} PROVE Given(Amount(label, i), Int)
<1>1. label.amounts \in Seq(Nat)
  BY DEF IsLabel
<1>2. i <= Len(label.amounts) => label.amounts[i] \in Nat
  BY <1>1
<1> QED BY <1>2 DEF Amount, Given

\* A salary in order, whose normal form is itself.
Settled(s) ==
  /\ Given(s.low, Int) /\ Given(s.high, Int)
  /\ \A m \in s.low, n \in s.high : m <= n
  /\ Salary(s.low, s.high, s.currency, s.period, s.label, {}) = s

\* normalize_salary settles what it is given, and adds no amount.
LEMMA SalaryIs ==
  ASSUME NEW low, NEW high, Given(low, Int), Given(high, Int), NEW label, IsLabel(label),
         NEW currency, NEW period, NEW default
  PROVE  LET s == Salary(low, high, currency, period, label, default)
         IN /\ Settled(s) /\ s.label = label
            /\ s.low \cup s.high \subseteq low \cup high \cup Amount(label, 1) \cup Amount(label, 2)
<1> DEFINE lo == First(low, Amount(label, 1))
           hi == First(high, Amount(label, 2))
           range == lo # {} /\ hi # {}
           l == IF range THEN {Lowest(lo \cup hi)} ELSE lo
           h == IF range THEN {Highest(lo \cup hi)} ELSE hi
           c == First(currency, First(label.currency, default))
           p == First(period, label.period)
           s == Salary(low, high, currency, period, label, default)
<1>1. s = [low |-> l, high |-> h, currency |-> c, period |-> p, label |-> label]
  BY DEF Salary
<1>2. Given(lo, Int) /\ Given(hi, Int)
  BY AmountIs DEF First
<1>3. /\ Given(l, Int) /\ Given(h, Int) /\ \A m \in l, n \in h : m <= n
      /\ l \cup h \subseteq lo \cup hi /\ (l = {} <=> lo = {}) /\ (h = {} <=> hi = {})
      /\ l # {} /\ h # {} => Lowest(l \cup h) \in l /\ Highest(l \cup h) \in h
  <2> HIDE DEF lo, hi
  <2>1. CASE range
    <3>1. PICK a \in Int, b \in Int : lo = {a} /\ hi = {b}
      BY <1>2, <2>1, GivenIs
    <3>2. PICK x \in Int, y \in Int : x <= y /\ x \in {a, b} /\ y \in {a, b} /\ l = {x} /\ h = {y}
      BY <2>1, <3>1, Ends
    <3>3. Lowest({x} \cup {y}) = x /\ Highest({x} \cup {y}) = y
      BY <3>2, Ends
    <3> QED BY <3>1, <3>2, <3>3 DEF Given
  <2>2. CASE ~range
    BY <1>2, <2>2
  <2> QED BY <2>1, <2>2
<1>4. s.low \cup s.high \subseteq low \cup high \cup Amount(label, 1) \cup Amount(label, 2)
  BY <1>1, <1>3 DEF First
<1>5. /\ First(l, Amount(label, 1)) = l /\ First(h, Amount(label, 2)) = h
      /\ First(c, First(label.currency, {})) = c /\ First(p, label.period) = p
  BY <1>3 DEF First
<1>6. /\ l # {} /\ h # {} => {Lowest(l \cup h)} = l /\ {Highest(l \cup h)} = h
  BY <1>3 DEF Given
<1> HIDE DEF l, h, c, p
<1>7. Salary(l, h, c, p, label, {}) = [low |-> l, high |-> h, currency |-> c, period |-> p, label |-> label]
  BY <1>5, <1>6 DEF Salary
<1> QED BY <1>1, <1>3, <1>4, <1>7 DEF Settled

-----------------------------------------------------------------------------
(* The mappers, and the answers with their defaults *)

\* A job as it is stored.
Stored(j) ==
  /\ j.company \in Companies \ {"none"} /\ j.title \in Titles \ {"none"}
  /\ j.text \in Texts /\ j.reqs \in Texts /\ j.skills \subseteq SkillNames
  /\ Settled(j.salary) /\ \A n \in j.salary.low \cup j.salary.high : n >= 0

Amounts(r) == r.low \cup r.high \cup Amount(r.label, 1) \cup Amount(r.label, 2)

\* What the mapper of a source keeps of the payload.
Faithful(j, r) ==
  /\ j.company \in Companies \ {"none"} /\ j.title = r.title
  /\ j.text \in Texts /\ j.reqs \in Texts /\ j.skills \subseteq SkillNames
  /\ Settled(j.salary) /\ j.salary.low \cup j.salary.high \subseteq Amounts(r)
  /\ r.status = "closed" /\ r.platform # "kalibrr" /\ r.detail => BackendStatus(j.status) # "ACTIVE"
  /\ r.work = "remote" => j.work = "remote"

\* A payload without a label has no amounts in it; neither has a job without a salary.
LEMMA NoLabelIs ==
  /\ IsLabel(NoLabel) /\ Amount(NoLabel, 1) = {} /\ Amount(NoLabel, 2) = {}
  /\ Settled(NoSalary) /\ NoSalary.low = {} /\ NoSalary.high = {}
<1>1. Given({}, Int)
  BY DEF Given
<1>2. /\ NoLabel.amounts = <<>> /\ NoLabel.currency = {} /\ NoLabel.period = {}
      /\ IsLabel(NoLabel)
  BY DEF NoLabel, IsLabel
<1>3. Len(<<>>) = 0
  OBVIOUS
<1>4. Amount(NoLabel, 1) = {} /\ Amount(NoLabel, 2) = {}
  BY <1>2, <1>3 DEF Amount
<1>5. /\ NoSalary.low = {} /\ NoSalary.high = {} /\ NoSalary.currency = {} /\ NoSalary.period = {}
      /\ NoSalary.label = NoLabel
  BY DEF NoSalary
<1>6. Salary({}, {}, {}, {}, NoLabel, {}) = NoSalary
  BY <1>2, <1>4 DEF Salary, First, NoSalary
<1> QED BY <1>1, <1>2, <1>4, <1>5, <1>6 DEF Settled

\* The fields that the mappers share.
LEMMA FieldsAre ==
  ASSUME NEW r \in RawJobs, NEW salary, NEW text, NEW reqs, NEW skills, NEW status
  PROVE  LET j == Fields(r, salary, text, reqs, skills, status)
         IN /\ j.company \in Companies \ {"none"} /\ j.title = r.title
            /\ j.salary = salary /\ j.text = text /\ j.reqs = reqs /\ j.skills = skills
            /\ j.status = status /\ j.work = r.work
<1>1. Company(r) \in Companies \ {"none"}
  BY PayloadAssumption DEF Company, Companies
<1> QED BY <1>1 DEF Fields

\* A closed job is a closed one to the backend.
LEMMA ClosedIsClosed ==
  Status("closed") = "inactive" /\ BackendStatus("inactive") = "CLOSED"
BY DEF Status, BackendStatus

\* Every mapper is faithful.
LEMMA MappedIs == ASSUME NEW r \in RawJobs PROVE Faithful(Mapped(r), r)
<1>1. /\ Given(r.low, Int) /\ Given(r.high, Int) /\ IsLabel(r.label)
      /\ r.text \in Texts /\ r.reqs \in Texts /\ r.skills \subseteq SkillNames
      /\ r.platform \in Platforms /\ Given({}, Int) /\ {} \subseteq SkillNames
  BY PayloadAssumption DEF Given
<1>2. "none" \in Texts /\ "short" \in Texts
  BY DEF Texts
<1>3. CASE r.platform = "dealls"
  <2> DEFINE stated == r.low \cup r.high # {}
             s == Salary(r.low, r.high, IF stated THEN {"IDR"} ELSE {},
                         IF stated THEN {"monthly"} ELSE {}, NoLabel, {})
  <2>1. Mapped(r) = Fields(r, s, IF r.detail THEN r.text ELSE "none",
                           IF r.detail THEN r.reqs ELSE "none", r.skills, Status(r.status))
    BY <1>3 DEF Mapped, MapDealls
  <2>2. Settled(s) /\ s.low \cup s.high \subseteq Amounts(r)
    BY <1>1, SalaryIs, NoLabelIs DEF Amounts
  <2> HIDE DEF s
  <2> QED BY <1>1, <1>2, <2>1, <2>2, FieldsAre, ClosedIsClosed DEF Faithful
<1>4. CASE r.platform = "glints"
  <2> DEFINE s == Salary(r.low, r.high, r.currency, r.period, NoLabel, {})
             status == IF Status(r.status) \in {"stale", "inactive", "expired"} THEN Status(r.status) ELSE "active"
  <2>1. Mapped(r) = Fields(r, s, "none", r.reqs, r.skills, status)
    BY <1>4 DEF Mapped, MapGlints
  <2>2. Settled(s) /\ s.low \cup s.high \subseteq Amounts(r)
    BY <1>1, SalaryIs, NoLabelIs DEF Amounts
  <2>3. r.status = "closed" => status = "inactive"
    BY ClosedIsClosed
  <2> HIDE DEF s, status
  <2> QED BY <1>1, <1>2, <2>1, <2>2, <2>3, FieldsAre, ClosedIsClosed DEF Faithful
<1>5. CASE r.platform = "kalibrr"
  <2> DEFINE s == Salary(r.low, r.high, r.currency, r.period, NoLabel, {})
  <2>1. Mapped(r) = Fields(r, s, r.text, r.reqs, r.skills, "active")
    BY <1>5 DEF Mapped, MapKalibrr
  <2>2. Settled(s) /\ s.low \cup s.high \subseteq Amounts(r)
    BY <1>1, SalaryIs, NoLabelIs DEF Amounts
  <2> HIDE DEF s
  <2> QED BY <1>1, <1>5, <2>1, <2>2, FieldsAre DEF Faithful
<1>6. CASE r.platform = "kitalulus"
  <2> DEFINE lo == r.low \ {0}
             hi == r.high \ {0}
             s == IF lo \cup hi = {} THEN NoSalary ELSE Salary(lo, hi, {"IDR"}, {"monthly"}, NoLabel, {})
             j == Fields(r, s, r.text, r.text, r.skills, IF r.status = "closed" THEN "inactive" ELSE "active")
             work == IF j.work = "unknown" THEN "onsite" ELSE j.work
  <2>1. Mapped(r) = [j EXCEPT !.work = work]
    BY <1>6 DEF Mapped, MapKitalulus, Fields
  <2>2. Given(lo, Int) /\ Given(hi, Int)
    BY <1>1 DEF Given
  <2>3. Settled(s) /\ s.low \cup s.high \subseteq Amounts(r)
    <3>1. CASE lo \cup hi = {}
      BY <3>1, NoLabelIs
    <3>2. CASE lo \cup hi # {}
      <4> DEFINE t == Salary(lo, hi, {"IDR"}, {"monthly"}, NoLabel, {})
      <4>1. /\ Settled(t)
            /\ t.low \cup t.high \subseteq lo \cup hi \cup Amount(NoLabel, 1) \cup Amount(NoLabel, 2)
        <5> HIDE DEF lo, hi
        <5> QED BY <2>2, SalaryIs, NoLabelIs
      <4>2. s = t
        BY <3>2
      <4> HIDE DEF s, t
      <4> QED BY <4>1, <4>2, NoLabelIs DEF Amounts
    <3> QED BY <3>1, <3>2
  <2> HIDE DEF s
  <2>4. /\ Mapped(r).company = j.company /\ Mapped(r).title = j.title /\ Mapped(r).salary = j.salary
        /\ Mapped(r).text = j.text /\ Mapped(r).reqs = j.reqs /\ Mapped(r).skills = j.skills
        /\ Mapped(r).status = j.status /\ Mapped(r).work = work
    BY <2>1 DEF Fields
  <2> QED BY <1>1, <2>3, <2>4, FieldsAre, ClosedIsClosed DEF Faithful
<1>7. CASE r.platform = "jobstreet"
  <2> DEFINE s == Salary({}, {}, {}, {}, r.label, {})
             reqs == IF r.reqs # "none" THEN r.reqs ELSE IF r.detail THEN r.text ELSE "none"
             status == IF r.detail THEN Status(r.status) ELSE "active"
  <2>1. Mapped(r) = Fields(r, s, IF r.detail THEN r.text ELSE "short", reqs, {}, status)
    BY <1>7 DEF Mapped, MapJobStreet
  <2>2. Settled(s) /\ s.low \cup s.high \subseteq Amounts(r)
    BY <1>1, SalaryIs DEF Amounts
  <2>3. reqs \in Texts
    BY <1>1, <1>2
  <2>4. r.status = "closed" /\ r.detail => status = "inactive"
    BY ClosedIsClosed
  <2> HIDE DEF s, reqs, status
  <2> QED BY <1>1, <1>2, <2>1, <2>2, <2>3, <2>4, FieldsAre, ClosedIsClosed DEF Faithful
<1> QED BY <1>1, <1>3, <1>4, <1>5, <1>6, <1>7 DEF Platforms

\* A mapped job is stored, unless it has no title or an amount below zero.
LEMMA MappedIsStored ==
  ASSUME NEW r \in RawJobs
  PROVE  /\ Canonical(Mapped(r)) => Stored(Mapped(r))
         /\ ~Canonical(Mapped(r)) => r.title = "none" \/ \E n \in Amounts(r) : n < 0
<1> DEFINE j == Mapped(r)
<1>1. Faithful(j, r) /\ r.title \in Titles
  BY MappedIs, PayloadAssumption
<1> HIDE DEF j
<1>2. j.salary.low \cup j.salary.high \subseteq Int
  BY <1>1 DEF Faithful, Settled, Given
<1>3. Canonical(j) => Stored(j)
  BY <1>1 DEF Canonical, SalaryFits, Faithful, Stored
<1>4. ~Canonical(j) => r.title = "none" \/ \E n \in Amounts(r) : n < 0
  <2> SUFFICES ASSUME ~Canonical(j), r.title # "none" PROVE \E n \in Amounts(r) : n < 0
    OBVIOUS
  <2>1. ~SalaryFits(j.salary)
    BY <1>1 DEF Canonical, Faithful
  <2>2. PICK n \in j.salary.low \cup j.salary.high : ~(n >= 0)
    BY <1>1, <2>1 DEF SalaryFits, Faithful, Settled
  <2> QED BY <1>1, <1>2, <2>2 DEF Faithful
<1> QED BY <1>3, <1>4 DEF j

\* The defaults and the guards leave a stored job of an answer.
LEMMA DefaultedIsStored ==
  ASSUME NEW r \in RawJobs, NEW a \in Answers
  PROVE  Canonical(a) /\ Canonical(Defaulted(a, r)) /\ Stored(Defaulted(a, r))
<1> DEFINE s == a.salary
           t == IF s = NoSalary THEN s ELSE Salary(s.low, s.high, s.currency, s.period, s.label, {"IDR"})
           text == IF a.text = "none" /\ r.platform = "glints" /\ ~r.detail THEN "good" ELSE a.text
           reqs == IF a.reqs = "placeholder" THEN "none" ELSE a.reqs
           work == IF a.work = "unknown" THEN "onsite" ELSE a.work
           j == [a EXCEPT !.salary = t, !.reqs = reqs, !.work = work, !.text = text]
           d == Defaulted(a, r)
<1>1. /\ a = [salary |-> a.salary, company |-> a.company, title |-> a.title, text |-> a.text,
             reqs |-> a.reqs, skills |-> a.skills, status |-> a.status, work |-> a.work,
             names |-> a.names]
      /\ IsSalary(s) /\ a.company \in Companies /\ a.title \in Titles
      /\ a.text \in Texts /\ a.reqs \in Texts /\ a.skills \subseteq SkillNames
      /\ Canonical(a)
      /\ r.text \in Texts /\ r.reqs \in Texts /\ r.skills \subseteq SkillNames
  BY PayloadAssumption
<1>2. \A n \in s.low \cup s.high : n >= 0
  BY <1>1 DEF Canonical, SalaryFits
<1>3. \A n \in Amount(s.label, 1) \cup Amount(s.label, 2) : n >= 0
  <2>1. s.label.amounts \in Seq(Nat)
    BY <1>1 DEF IsSalary, IsLabel
  <2>2. \A i \in {1, 2} : i <= Len(s.label.amounts) => s.label.amounts[i] \in Nat
    BY <2>1
  <2>3. \A i \in {1, 2} : \A n \in Amount(s.label, i) : n \in Nat
    BY <2>2 DEF Amount
  <2> QED BY <2>3
<1>4. Settled(t) /\ \A n \in t.low \cup t.high : n >= 0
  <2>1. CASE s = NoSalary
    BY <2>1, NoLabelIs
  <2>2. CASE s # NoSalary
    <3> DEFINE u == Salary(s.low, s.high, s.currency, s.period, s.label, {"IDR"})
    <3>1. /\ Settled(u)
          /\ u.low \cup u.high \subseteq s.low \cup s.high \cup Amount(s.label, 1) \cup Amount(s.label, 2)
      BY <1>1, SalaryIs DEF IsSalary
    <3>2. t = u
      BY <2>2
    <3> HIDE DEF t, u
    <3> QED BY <1>2, <1>3, <3>1, <3>2
  <2> QED BY <2>1, <2>2
<1> HIDE DEF t
<1>5. d = Guarded(j, r)
  BY <1>1 DEF Defaulted, t
<1>6. "good" \in Texts /\ "none" \in Texts
  BY DEF Texts
<1>7. text \in Texts /\ reqs \in Texts /\ EvidenceText(r) \in Texts
  BY <1>1, <1>6 DEF EvidenceText
<1> HIDE DEF text, reqs, work
<1>8. /\ d.salary = t /\ d.company = a.company /\ d.title = a.title
      /\ d.text = (IF text = "none" THEN EvidenceText(r) ELSE text)
      /\ d.reqs = (IF reqs = "none" THEN r.reqs ELSE reqs)
      /\ d.skills = (IF a.skills = {} THEN r.skills ELSE a.skills)
  <2>1. /\ j.salary = t /\ j.company = a.company /\ j.title = a.title /\ j.text = text
        /\ j.reqs = reqs /\ j.skills = a.skills
        /\ DOMAIN j = {"salary", "company", "title", "text", "reqs", "skills", "status", "work", "names"}
    BY <1>1
  <2> HIDE DEF j
  <2> QED BY <1>5, <2>1 DEF Guarded
<1> HIDE DEF d
<1>9. Stored(d)
  <2>1. a.company # "none" /\ a.title # "none"
    BY <1>1 DEF Canonical
  <2> QED BY <1>1, <1>4, <1>7, <1>8, <2>1 DEF Stored
<1>10. Canonical(d)
  BY <1>9 DEF Stored, Canonical, SalaryFits, Settled
<1> QED BY <1>1, <1>9, <1>10 DEF d

-----------------------------------------------------------------------------
(* The payload *)

\* Skills are always found, and no more of them than there are.
LEMMA SkillRowsAre ==
  ASSUME job.skills \subseteq SkillNames, rows.skills \subseteq SkillNames
  PROVE  /\ SkillRows # {}
         /\ Cardinality(SkillRows) <= MaxRelations
            \/ Cardinality(rows.skills \cup job.skills) > MaxRelations
<1> DEFINE all == rows.skills \cup job.skills
<1>1. SkillRows # {} /\ (SkillRows \subseteq all \/ SkillRows = {"derived"})
  BY DEF SkillRows
<1>2. IsFiniteSet(all) /\ MaxRelations \in Nat /\ MaxRelations >= 1
  <2>1. IsFiniteSet(SkillNames) /\ all \subseteq SkillNames
    BY ContractAssumption
  <2>2. IsFiniteSet(all)
    BY <2>1, FS_Subset
  <2> QED BY <2>2, ContractAssumption
<1> HIDE DEF all
<1>3. CASE SkillRows \subseteq all
  <2>1. /\ Cardinality(SkillRows) <= Cardinality(all)
        /\ Cardinality(SkillRows) \in Nat /\ Cardinality(all) \in Nat
    BY <1>2, <1>3, FS_Subset, FS_CardinalityType
  <2>2. Cardinality(SkillRows) <= MaxRelations \/ Cardinality(all) > MaxRelations
    BY <1>2, <2>1
  <2> QED BY <1>1, <2>2 DEF all
<1>4. CASE SkillRows = {"derived"}
  <2>1. Cardinality(SkillRows) = 1
    BY <1>4, FS_Singleton
  <2> QED BY <1>1, <1>2, <2>1
<1> QED BY <1>1, <1>3, <1>4

\* There is at least one requirement, and no more than a payload may have.
LEMMA RequirementRowsAre ==
  ASSUME rows.reqs \in Nat PROVE RequirementRows \in 1..MaxRelations
<1>1. MaxRelations \in Nat /\ MaxRelations >= 1
  BY ContractAssumption
<1>2. \A t : ItemsOf(t) \in Nat
  BY <1>1 DEF ItemsOf
<1>3. \A m \in Nat : m > 0 => Least(m, MaxRelations) \in 1..MaxRelations
  BY <1>1 DEF Least
<1>4. \A m \in Nat : m > 0 => Least(m, 8) \in Nat /\ Least(m, 8) > 0
  BY DEF Least
<1>5. 1 \in 1..MaxRelations
  BY <1>1
<1>6. CASE rows.reqs > 0
  BY <1>3, <1>6 DEF RequirementRows
<1>7. CASE ~(rows.reqs > 0) /\ ItemsOf(job.reqs) > 0
  <2>1. RequirementRows = Least(ItemsOf(job.reqs), MaxRelations)
    BY <1>7 DEF RequirementRows
  <2> QED BY <1>2, <1>3, <1>7, <2>1
<1>8. CASE ~(rows.reqs > 0) /\ ~(ItemsOf(job.reqs) > 0) /\ ItemsOf(job.text) > 0
  <2>1. RequirementRows = Least(Least(ItemsOf(job.text), 8), MaxRelations)
    BY <1>8 DEF RequirementRows
  <2>2. Least(ItemsOf(job.text), 8) \in Nat /\ Least(ItemsOf(job.text), 8) > 0
    BY <1>2, <1>4, <1>8
  <2> QED BY <1>3, <2>1, <2>2
<1>9. CASE ~(rows.reqs > 0) /\ ~(ItemsOf(job.reqs) > 0) /\ ~(ItemsOf(job.text) > 0)
  <2>1. RequirementRows = 1
    BY <1>9 DEF RequirementRows
  <2> QED BY <1>5, <2>1
<1> QED BY <1>6, <1>7, <1>8, <1>9

\* The amounts of a payload are those of the stored salary, but for zeros.
LEMMA SalaryRangeIs ==
  ASSUME NEW s, NEW label
  PROVE  LET range == SalaryRange(s)
         IN /\ range[1] \subseteq s.low /\ range[2] \subseteq s.high
            /\ Display(range, label) = "Not specified" => s.low \cup s.high \subseteq {0}
<1>1. CASE s.low = {} \/ s.high = {}
  <2>1. SalaryRange(s) = <<s.low, s.high>>
    BY <1>1 DEF SalaryRange
  <2> QED BY <2>1 DEF Display
<1>2. CASE ~(s.low = {} \/ s.high = {})
  <2>1. SalaryRange(s) = <<s.low \ {0}, s.high \ {0}>>
    BY <1>2 DEF SalaryRange
  <2> QED BY <2>1 DEF Display
<1> QED BY <1>1, <1>2

\* What the payload of a stored job says.
LEMMA BuiltIs ==
  ASSUME Stored(job), rows.skills \subseteq SkillNames, rows.reqs \in Nat
  PROVE  /\ Built.low \subseteq job.salary.low /\ Built.high \subseteq job.salary.high
         /\ Built.display = "Not specified" => job.salary.low \cup job.salary.high \subseteq {0}
         /\ Built.status = BackendStatus(job.status)
         /\ Built.work = IF job.work = "unknown" THEN "onsite" ELSE job.work
         /\ Built.text \notin {"none", "placeholder", "short"}
         /\ Built.text \in Overlong => job.text \in Overlong
         /\ Built.reqs \in 1..MaxRelations /\ Built.skills = SkillRows
<1> DEFINE s == job.salary
           range == SalaryRange(s)
           period == Period(s)
<1>1. /\ range[1] \subseteq s.low /\ range[2] \subseteq s.high
      /\ Display(range, s.label) = "Not specified" => s.low \cup s.high \subseteq {0}
  BY SalaryRangeIs
<1>2. RequirementRows \in 1..MaxRelations
  BY RequirementRowsAre
<1>3. /\ Description \notin {"none", "placeholder", "short"}
      /\ Description \in Overlong => job.text \in Overlong
  BY DEF Description, Overlong
<1>4. /\ Built.low = range[1] /\ Built.high = range[2] /\ Built.display = Display(range, s.label)
      /\ Built.status = BackendStatus(job.status)
      /\ Built.work = (IF job.work = "unknown" THEN "onsite" ELSE job.work)
      /\ Built.text = Description /\ Built.reqs = RequirementRows /\ Built.skills = SkillRows
  BY DEF Built
<1> HIDE DEF range
<1> QED BY <1>1, <1>2, <1>3, <1>4

\* Skills that are too long are staged ones.
LEMMA UnwieldyAre ==
  SkillRows \cap Unwieldy \subseteq rows.skills
BY ContractAssumption DEF SkillRows

\* Requirements that are too long come in one piece, and are not staged
\* otherwise; a summary that is too long is one of the requirements, or of a
\* description that is too long itself.
LEMMA LongRequirements ==
  /\ ~RequirementsFit =>
       \/ IF rows.reqs > 0 THEN rows.wide ELSE "wide" \in {job.reqs, job.text}
       \/ job.reqs = "endless" \/ job.text \in Overlong
  /\ ~SummaryFits => job.reqs \in {"bulky", "endless"} \/ job.text \in Overlong
BY DEF RequirementsFit, SummaryFits, Unbroken, Overlong

\* The schema of the backend turns it away for its company, or because something
\* of it is too long or too many.
LEMMA SendableOr ==
  ASSUME Stored(job), rows.skills \subseteq SkillNames, rows.reqs \in Nat, ~Sendable(Built)
  PROVE  \/ job.company # "named" \/ "long" \in {job.title, job.names}
         \/ job.text \in Overlong \/ job.reqs \in {"bulky", "endless"}
         \/ IF rows.reqs > 0 THEN rows.wide ELSE "wide" \in {job.reqs, job.text}
         \/ Cardinality(rows.skills \cup job.skills) > MaxRelations \/ rows.skills \cap Unwieldy # {}
<1> DEFINE oneWide == IF rows.reqs > 0 THEN rows.wide ELSE "wide" \in {job.reqs, job.text}
<1> SUFFICES ASSUME job.company = "named", "long" \notin {job.title, job.names},
                    job.text \notin Overlong, job.reqs \notin {"bulky", "endless"}, ~oneWide,
                    ~(Cardinality(rows.skills \cup job.skills) > MaxRelations),
                    rows.skills \cap Unwieldy = {}
             PROVE  FALSE
  OBVIOUS
<1> DEFINE p == Built
<1>1. job.title = "named" /\ job.names # "long"
  BY DEF Stored, Titles
<1>2. p.text \notin Overlong /\ p.reqs <= MaxRelations
  <2>1. (p.text \in Overlong => job.text \in Overlong) /\ p.reqs \in 1..MaxRelations
    BY BuiltIs
  <2> HIDE DEF p
  <2>2. MaxRelations \in Nat
    BY ContractAssumption
  <2>3. p.reqs <= MaxRelations
    BY <2>1, <2>2
  <2> QED BY <2>1, <2>3
<1>3. Cardinality(p.skills) <= MaxRelations
  BY BuiltIs, SkillRowsAre DEF Stored
<1>4. p.low \subseteq job.salary.low /\ p.high \subseteq job.salary.high
  BY BuiltIs
<1>5. /\ \A n \in p.low \cup p.high : n >= 0
      /\ \A m \in p.low, n \in p.high : m <= n
  BY <1>4 DEF Stored, Settled
<1>6. p.skills \cap Unwieldy = {}
  BY BuiltIs, UnwieldyAre
<1>7. RequirementsFit /\ SummaryFits
  BY LongRequirements
<1> HIDE DEF p
<1>8. Sendable(p)
  BY <1>1, <1>2, <1>3, <1>5, <1>6, <1>7 DEF Sendable
<1> QED BY <1>8 DEF p

\* A job on its way: not there, stored as its mapper or an answer has it, and
\* turned away for no other than the known reasons.
KInv ==
  /\ raw \in RawJobs
  /\ at \in {"raw", "rejected", "normalized", "enriched", "built", "unsendable"}
  /\ at \in {"raw", "rejected"} => job = None
  /\ at \notin {"raw", "rejected"} => Stored(job)
  /\ rows.skills \subseteq SkillNames /\ rows.reqs \in Nat
  /\ at = "rejected" => raw.title = "none" \/ \E n \in RawAmounts : n < 0
  /\ OnlyOversizeRefused /\ PayloadIsTrue

LEMMA KInvIsEnough == KInv => ContractHolds
<1> SUFFICES ASSUME KInv PROVE ContractHolds
  OBVIOUS
<1>1. job # None => Stored(job)
  BY DEF KInv
<1>2. Stored(job) => /\ Canonical(job)
                     /\ LET s == job.salary IN
                          Salary(s.low, s.high, s.currency, s.period, s.label, {}) = s
  BY DEF Stored, Canonical, SalaryFits, Settled
<1>3. OnlyBadJobsRejected
  BY <1>1, <1>2 DEF KInv, OnlyBadJobsRejected
<1> QED BY <1>3 DEF KInv, ContractHolds

LEMMA KInvInit == KInit => KInv
<1> SUFFICES ASSUME KInit PROVE KInv
  OBVIOUS
<1>1. rows.skills = {} /\ rows.reqs = 0 /\ at = "raw" /\ job = None /\ raw \in RawJobs
  BY DEF KInit
<1> QED BY <1>1 DEF KInv, OnlyOversizeRefused, PayloadIsTrue

\* The payload that is built.
LEMMA BuildKeeps == KInv /\ BuildPayload => KInv'
<1> SUFFICES ASSUME KInv, BuildPayload PROVE KInv'
  OBVIOUS
<1>1. /\ at \in {"normalized", "enriched"} /\ UNCHANGED <<raw, job, rows>>
      /\ raw \in RawJobs /\ Stored(job) /\ rows.skills \subseteq SkillNames /\ rows.reqs \in Nat
  BY DEF BuildPayload, KInv
<1>2. CASE Sendable(Built)
  <2>1. payload' = Built /\ at' = "built"
    BY <1>2 DEF BuildPayload
  <2> DEFINE p == Built
  <2>2. \A m \in p.low, n \in p.high : m <= n
    BY <1>2 DEF Sendable
  <2>3. job = Mapped(raw) => Faithful(job, raw)
    BY <1>1, MappedIs
  <2>4. p.low \subseteq job.salary.low /\ p.high \subseteq job.salary.high
    BY <1>1, BuiltIs
  <2>5. p.display = "Not specified" => job.salary.low \cup job.salary.high \subseteq {0}
    BY <1>1, BuiltIs
  <2>6. /\ p.status = BackendStatus(job.status)
        /\ p.work = IF job.work = "unknown" THEN "onsite" ELSE job.work
    BY <1>1, BuiltIs
  <2>7. p.text \notin {"none", "placeholder", "short"} /\ p.reqs \in 1..MaxRelations
    BY <1>1, BuiltIs
  <2>8. p.skills # {}
    BY <1>1, BuiltIs, SkillRowsAre DEF Stored
  <2> HIDE DEF p
  <2>9. job = Mapped(raw) => p.low \cup p.high \subseteq RawAmounts
    BY <2>3, <2>4 DEF Faithful, Amounts, RawAmounts
  <2>10. job = Mapped(raw) /\ raw.status = "closed" /\ raw.platform # "kalibrr" /\ raw.detail
           => p.status # "ACTIVE"
    BY <2>3, <2>6 DEF Faithful
  <2>11. raw.work = "remote" /\ job = Mapped(raw) => p.work = "remote"
    BY <2>3, <2>6 DEF Faithful
  <2>12. payload' = p
    BY <2>1 DEF p
  <2>13. PayloadIsTrue'
    BY <1>1, <2>2, <2>5, <2>7, <2>8, <2>9, <2>10, <2>11, <2>12 DEF PayloadIsTrue, RawAmounts
  <2> QED BY <1>1, <2>1, <2>13 DEF KInv, OnlyOversizeRefused
<1>3. CASE ~Sendable(Built)
  <2>1. at' = "unsendable"
    BY <1>3 DEF BuildPayload
  <2>2. OnlyOversizeRefused'
    BY <1>1, <1>3, SendableOr DEF OnlyOversizeRefused
  <2> QED BY <1>1, <2>1, <2>2 DEF KInv, PayloadIsTrue
<1> QED BY <1>2, <1>3

\* Every step keeps the invariant.
LEMMA KInvKept == KInv /\ [KNext]_contractVars => KInv'
<1> SUFFICES ASSUME KInv, [KNext]_contractVars PROVE KInv'
  OBVIOUS
<1>1. CASE MapJob
  <2>1. /\ raw \in RawJobs /\ at = "raw" /\ UNCHANGED <<raw, rows, payload>> /\ job = None
        /\ \/ Canonical(Mapped(raw)) /\ job' = Mapped(raw) /\ at' = "normalized"
           \/ ~Canonical(Mapped(raw)) /\ job' = job /\ at' = "rejected"
    BY <1>1 DEF MapJob, KInv
  <2>2. /\ at' = "normalized" => Stored(job')
        /\ at' = "rejected" => raw.title = "none" \/ \E n \in RawAmounts : n < 0
    BY <2>1, MappedIsStored DEF Amounts, RawAmounts
  <2> QED BY <2>1, <2>2 DEF KInv, OnlyOversizeRefused, PayloadIsTrue, RawAmounts
<1>2. ASSUME NEW answer \in Answers, AnswerJob(answer) PROVE KInv'
  <2>1. /\ raw \in RawJobs /\ UNCHANGED <<raw, rows, payload>>
        /\ job' = Defaulted(answer, raw) /\ at' = "normalized"
    BY <1>2, DefaultedIsStored DEF AnswerJob, KInv
  <2>2. Stored(job')
    BY <2>1, DefaultedIsStored
  <2> QED BY <2>1, <2>2 DEF KInv, OnlyOversizeRefused, PayloadIsTrue
<1>3. ASSUME NEW skills \in SUBSET SkillNames, NEW reqs \in 0..MaxRelations + 1, NEW wide \in BOOLEAN,
             StageRows(skills, reqs, wide)
      PROVE  KInv'
  <2>1. /\ at = "normalized" /\ at' = "enriched" /\ UNCHANGED <<raw, job, payload>>
        /\ rows' = [skills |-> skills, reqs |-> reqs, wide |-> wide]
    BY <1>3 DEF StageRows
  <2>2. reqs \in Nat
    BY ContractAssumption
  <2>3. rows'.skills \subseteq SkillNames /\ rows'.reqs \in Nat
    BY <2>1, <2>2
  <2> QED BY <2>1, <2>3 DEF KInv, OnlyOversizeRefused, PayloadIsTrue
<1>4. CASE BuildPayload
  BY <1>4, BuildKeeps
<1>5. CASE UNCHANGED contractVars
  BY <1>5 DEF contractVars, KInv, OnlyOversizeRefused, PayloadIsTrue, RawAmounts
<1> QED BY <1>1, <1>2, <1>3, <1>4, <1>5 DEF KNext

\* Whatever the source says of a job: it is stored and sent as it was stated. The
\* pipeline turns it away for want of a title or for an amount below zero; the
\* backend's schema for want of a company, for a name, a text, a skill or a
\* single requirement that is too long, or for too many skills, and never for
\* its salary or the number of its requirements.
THEOREM ContractIsKept == KSpec => []ContractHolds
<1>1. KInit => KInv
  BY KInvInit
<1>2. KInv /\ [KNext]_contractVars => KInv'
  BY KInvKept
<1>3. KInv => ContractHolds
  BY KInvIsEnough
<1> QED BY <1>1, <1>2, <1>3, PTL DEF KSpec

-----------------------------------------------------------------------------
(* The report of a run *)

\* The rows of day e and what they count.
Unsent(e) == sheet[e]["sync"] = Missing => \A j \in Items : sent[e][j] = "none"
Unhanded(e) == sheet[e]["notify"] = Missing => \A j \in Items : handed[e][j] = "none"
AllBegun(e) == sheet[e]["notify"] # Missing => \A s \in StageNames : sheet[e][s] # Missing
Exact(row, done) ==
  row.status = "completed" => row.fetched = row.persisted + row.skipped /\ Cardinality(done) = row.persisted
Accounted(e) ==
  sheet[e]["normalize"] # Missing /\ sheet[e]["normalize"].status # "started" =>
    Cardinality(RawRows(e) \ ready) <= sheet[e]["normalize"].skipped
CalmDay(e) ==
  e \in calm =>
    /\ sheet[e]["enrich"].status \notin {"failed", "partial"}
    /\ sheet[e]["normalize"] # Missing =>
         \A j \in Items : owner[j] = e =>
           j \in ready /\ verdict[j].day = e /\ verdict[j].decision = "eligible"

Sendings(e) ==
  Unsent(e) /\ Unhanded(e) /\ AllBegun(e)
  /\ Exact(sheet[e]["sync"], SentEvents(e)) /\ Exact(sheet[e]["notify"], SentHandoffs(e))
DayInv(e) == Sendings(e) /\ Accounted(e) /\ CalmDay(e)

\* The inductive invariant of RunReport.
RInv == ReportTypeOK /\ \A e \in DayNumbers : DayInv(e)

\* A row of a stage.
Rows == [status : {"missing", "started", "completed", "partial", "failed"},
         fetched : 0..Cardinality(Items), persisted : 0..Cardinality(Items),
         skipped : 0..Cardinality(Items)]

LEMMA ItemsFinite == IsFiniteSet(Items) /\ Cardinality(Items) \in Nat
BY ReportAssumption, FS_CardinalityType

LEMMA SomeItems ==
  ASSUME NEW S \in SUBSET Items
  PROVE  IsFiniteSet(S) /\ Cardinality(S) \in 0..Cardinality(Items)
BY ItemsFinite, FS_Subset, FS_CardinalityType

\* The counts of a set of jobs, some of them done.
LEMMA DoneAndLeft ==
  ASSUME NEW S \in SUBSET Items, NEW T \in SUBSET S
  PROVE  /\ Cardinality(S) \in 0..Cardinality(Items)
         /\ Cardinality(T) \in 0..Cardinality(Items)
         /\ Cardinality(S \ T) \in 0..Cardinality(Items)
         /\ Cardinality(S) = Cardinality(T) + Cardinality(S \ T)
<1>1. IsFiniteSet(S) /\ T = S \cap T
  BY SomeItems
<1>2. Cardinality(S \ T) = Cardinality(S) - Cardinality(S \cap T)
  BY <1>1, FS_Difference
<1>3. /\ Cardinality(S) \in 0..Cardinality(Items) /\ Cardinality(T) \in 0..Cardinality(Items)
      /\ Cardinality(S \ T) \in 0..Cardinality(Items)
  BY SomeItems
<1>4. Cardinality(S \cap T) = Cardinality(T)
  BY <1>1
<1>5. \A a, b, c \in 0..Cardinality(Items) : c = a - b => a = b + c
  BY ItemsFinite
<1> QED BY <1>2, <1>3, <1>4, <1>5

LEMMA FewerLeft ==
  ASSUME NEW S \in SUBSET Items, NEW T \in SUBSET S, NEW n \in Nat, Cardinality(S) <= n
  PROVE  Cardinality(T) <= n
<1>1. IsFiniteSet(S)
  BY SomeItems
<1>2. Cardinality(T) <= Cardinality(S)
  BY <1>1, FS_Subset
<1>3. Cardinality(T) \in Nat /\ Cardinality(S) \in Nat
  BY SomeItems, ItemsFinite
<1> QED BY <1>2, <1>3

\* Where a day has its turn at a stage, the stages before it have rows and the
\* others have none.
LEMMA TurnIs ==
  ASSUME NEW d \in DayNumbers, NEW s \in StageNames, Turn(d, s)
  PROVE  /\ sheet[d][s] = Missing
         /\ s = "scrape" => sheet[d]["normalize"] = Missing
         /\ s \in {"scrape", "normalize"} => sheet[d]["enrich"] = Missing
         /\ s \in {"scrape", "normalize", "enrich"} => sheet[d]["sync"] = Missing
         /\ s # "notify" => sheet[d]["notify"] = Missing
         /\ s = "notify" => \A t \in StageNames \ {"notify"} : sheet[d][t] # Missing
<1>1. PICK i \in 1..5 : StageOrder[i] = s
                        /\ \A k \in 1..5 : (k < i) <=> (sheet[d][StageOrder[k]] # Missing)
  BY DEF Turn
<1>2. /\ StageOrder[1] = "scrape" /\ StageOrder[2] = "normalize" /\ StageOrder[3] = "enrich"
      /\ StageOrder[4] = "sync" /\ StageOrder[5] = "notify"
  BY DEF StageOrder
<1>3. i = 1 \/ i = 2 \/ i = 3 \/ i = 4 \/ i = 5
  OBVIOUS
<1>4. s = "notify" <=> i = 5
  BY <1>1, <1>2, <1>3
<1>5. /\ s = "scrape" <=> i = 1
      /\ s = "normalize" <=> i = 2
      /\ s = "enrich" <=> i = 3
      /\ s = "sync" <=> i = 4
  BY <1>1, <1>2, <1>3
<1>6. /\ i < 2 => sheet[d]["normalize"] = Missing
      /\ i < 3 => sheet[d]["enrich"] = Missing
      /\ i < 4 => sheet[d]["sync"] = Missing
      /\ i < 5 => sheet[d]["notify"] = Missing
      /\ i = 5 => /\ sheet[d]["scrape"] # Missing /\ sheet[d]["normalize"] # Missing
                  /\ sheet[d]["enrich"] # Missing /\ sheet[d]["sync"] # Missing
  BY <1>1, <1>2, <1>3
<1>7. sheet[d][s] = Missing
  BY <1>1, <1>3
<1> QED BY <1>4, <1>5, <1>6, <1>7 DEF StageNames

\* What a step of day d leaves of the other days.
Elsewhere(d) ==
  /\ \A e \in DayNumbers \ {d} : sheet'[e] = sheet[e] /\ handed'[e] = handed[e] /\ sent'[e] = sent[e]
  /\ \A j \in Items : owner'[j] = owner[j] \/ owner'[j] = d
  /\ \A j \in Items : verdict'[j] = verdict[j] \/ owner[j] = d
  /\ ready \subseteq ready'
  /\ calm' \subseteq calm \cup {d}

LEMMA OthersKeep ==
  ASSUME ReportTypeOK, NEW d \in DayNumbers, Elsewhere(d), NEW e \in DayNumbers \ {d}, DayInv(e)
  PROVE  DayInv(e)'
<1>1. sheet'[e] = sheet[e] /\ handed'[e] = handed[e] /\ sent'[e] = sent[e]
  BY DEF Elsewhere
<1>2. SentHandoffs(e)' = SentHandoffs(e)
  BY <1>1 DEF SentHandoffs
<1>3. SentEvents(e)' = SentEvents(e)
  BY <1>1 DEF SentEvents
<1>4. \A j \in Items : owner'[j] = e => owner[j] = e /\ verdict'[j] = verdict[j]
  BY DEF Elsewhere
<1>5. Sendings(e)'
  <2>1. Unsent(e)'
    BY <1>1 DEF DayInv, Sendings, Unsent
  <2>2. Unhanded(e)' /\ AllBegun(e)'
    BY <1>1 DEF DayInv, Sendings, Unhanded, AllBegun
  <2>3. Exact(sheet'[e]["sync"], SentEvents(e)') /\ Exact(sheet'[e]["notify"], SentHandoffs(e)')
    BY <1>1, <1>2, <1>3 DEF DayInv, Sendings
  <2> QED BY <2>1, <2>2, <2>3 DEF Sendings
<1>6. Accounted(e)'
  <2> SUFFICES ASSUME sheet[e]["normalize"] # Missing, sheet[e]["normalize"].status # "started"
               PROVE  Cardinality((RawRows(e) \ ready)') <= sheet[e]["normalize"].skipped
    BY <1>1 DEF Accounted
  <2>1. (RawRows(e) \ ready)' \subseteq RawRows(e) \ ready /\ RawRows(e) \ ready \subseteq Items
    BY <1>4 DEF RawRows, ScopeOf, Elsewhere
  <2>2. sheet[e]["normalize"].skipped \in Nat
    BY ItemsFinite DEF ReportTypeOK, StageNames
  <2>3. Cardinality(RawRows(e) \ ready) <= sheet[e]["normalize"].skipped
    BY DEF DayInv, Accounted
  <2> QED BY <2>1, <2>2, <2>3, FewerLeft
<1>7. CalmDay(e)'
  BY <1>1, <1>4 DEF DayInv, CalmDay, Elsewhere
<1> QED BY <1>5, <1>6, <1>7 DEF DayInv

\* The types of what a step changes.
SheetOK == sheet \in [DayNumbers -> [StageNames -> Rows]]
RowsOK ==
  /\ owner \in [Items -> 0..MaxDay] /\ ready \subseteq Items /\ skilled \subseteq Items
  /\ verdict \in [Items -> [day : 0..MaxDay,
                            decision : {"none", "eligible", "existing", "existing_backend"}]]
  /\ ailog \in [Items -> SUBSET {"success", "failed"}]
SentOK == sent \in [DayNumbers -> [Items -> {"none", "sent", "failed"}]]
HandedOK == handed \in [DayNumbers -> [Items -> {"none", "sent", "failed"}]]
CalmOK == full \in 0..MaxDay /\ faults \in 0..MaxFaults /\ calm \subseteq DayNumbers

LEMMA ReportTypeParts == ReportTypeOK <=> SheetOK /\ RowsOK /\ SentOK /\ HandedOK /\ CalmOK
BY DEF ReportTypeOK, SheetOK, RowsOK, SentOK, HandedOK, CalmOK, Rows

LEMMA ClosedRow ==
  ASSUME NEW st \in {"started", "completed", "partial", "failed"},
         NEW a \in 0..Cardinality(Items), NEW b \in 0..Cardinality(Items), NEW c \in 0..Cardinality(Items)
  PROVE  /\ Closed(st, a, b, c) \in Rows /\ Closed(st, a, b, c) # Missing
         /\ Closed(st, a, b, c).status = st /\ Closed(st, a, b, c).fetched = a
         /\ Closed(st, a, b, c).persisted = b /\ Closed(st, a, b, c).skipped = c
BY DEF Closed, Rows, Missing

LEMMA BareRows ==
  /\ Begun \in Rows /\ Begun # Missing /\ Begun.status = "started"
  /\ [Missing EXCEPT !.status = "failed"] \in Rows /\ [Missing EXCEPT !.status = "failed"] # Missing
  /\ [Missing EXCEPT !.status = "failed"].status = "failed"
  /\ Missing \in Rows /\ Missing.status = "missing"
<1>1. 0 \in 0..Cardinality(Items)
  BY ItemsFinite
<1>2. /\ Begun = [status |-> "started", fetched |-> 0, persisted |-> 0, skipped |-> 0]
      /\ [Missing EXCEPT !.status = "failed"] = [status |-> "failed", fetched |-> 0, persisted |-> 0, skipped |-> 0]
  BY DEF Begun, Missing
<1> QED BY <1>1, <1>2 DEF Rows, Missing

\* A row is closed: the others stay.
LEMMA CloseIs ==
  ASSUME SheetOK, NEW d \in DayNumbers, NEW s \in StageNames, NEW row \in Rows, Close(d, s, row)
  PROVE  /\ SheetOK'
         /\ sheet'[d][s] = row
         /\ \A t \in StageNames \ {s} : sheet'[d][t] = sheet[d][t]
         /\ \A e \in DayNumbers \ {d} : sheet'[e] = sheet[e]
BY DEF SheetOK, Close

LEMMA MeetsIs ==
  ASSUME CalmOK, NEW d \in DayNumbers, NEW failure \in BOOLEAN, NEW known \in BOOLEAN,
         Meets(d, failure, known)
  PROVE  /\ faults' \in 0..MaxFaults /\ calm' \subseteq calm
         /\ d \in calm' => ~failure /\ ~known
<1>1. faults' \in 0..MaxFaults
  <2>1. faults \in 0..MaxFaults /\ MaxFaults \in Nat
    BY ReportAssumption DEF CalmOK
  <2>2. faults' = faults \/ faults' = faults + 1
    BY DEF Meets
  <2>3. faults' <= MaxFaults
    BY DEF Meets
  <2> QED BY <2>1, <2>2, <2>3
<1>2. calm' \subseteq calm /\ (d \in calm' => ~failure /\ ~known)
  BY DEF Meets
<1> QED BY <1>1, <1>2

LEMMA DaysAre ==
  /\ MaxDay \in Nat /\ 0 \in 0..MaxDay
  /\ \A e \in DayNumbers : e \in 0..MaxDay /\ e # 0
BY ReportAssumption DEF DayNumbers

LEMMA DecidedIs ==
  ASSUME NEW d \in DayNumbers, NEW jobs \in SUBSET Items, NEW backend, RowsOK
  PROVE  /\ Decided(d, jobs, backend) \in
              [Items -> [day : 0..MaxDay, decision : {"none", "eligible", "existing", "existing_backend"}]]
         /\ \A j \in Items \ jobs : Decided(d, jobs, backend)[j] = verdict[j]
         /\ \A j \in jobs : /\ Decided(d, jobs, backend)[j].day = d
                            /\ Decided(d, jobs, backend)[j].decision = Decision(j, backend)
<1>1. \A j : Decision(j, backend) \in {"none", "eligible", "existing", "existing_backend"}
  BY DEF Decision
<1>2. d \in 0..MaxDay
  BY DaysAre
<1> QED BY <1>1, <1>2 DEF Decided, RowsOK

LEMMA OutcomeIs ==
  ASSUME NEW d \in DayNumbers, NEW tried \in SUBSET Items, NEW ok \in SUBSET tried, SentOK
  PROVE  /\ Outcome(d, ok, tried) \in [DayNumbers -> [Items -> {"none", "sent", "failed"}]]
         /\ \A e \in DayNumbers \ {d} : Outcome(d, ok, tried)[e] = sent[e]
         /\ \A j \in Items : Outcome(d, ok, tried)[d][j] =
              IF j \in tried THEN IF j \in ok THEN "sent" ELSE "failed" ELSE sent[d][j]
BY DEF Outcome, SentOK

LEMMA HandedOffIs ==
  ASSUME NEW d \in DayNumbers, NEW tried \in SUBSET Items, NEW ok \in SUBSET tried, HandedOK
  PROVE  /\ HandedOff(d, ok, tried) \in [DayNumbers -> [Items -> {"none", "sent", "failed"}]]
         /\ \A e \in DayNumbers \ {d} : HandedOff(d, ok, tried)[e] = handed[e]
         /\ \A j \in Items : HandedOff(d, ok, tried)[d][j] =
              IF j \in tried THEN IF j \in ok THEN "sent" ELSE "failed" ELSE handed[d][j]
BY DEF HandedOff, HandedOK

\* What the actions take from the scope of a day is part of the jobs.
LEMMA ScopesAre ==
  ASSUME NEW d \in DayNumbers
  PROVE  /\ ScopeOf(d) \subseteq Items /\ NormalizedRows(d) \subseteq ScopeOf(d)
         /\ \A backend : EligibleFor(d, backend) \subseteq ScopeOf(d)
         /\ SyncCandidatesOf(d) \subseteq NormalizedRows(d)
         /\ HandoffJobs(d) \subseteq SentEvents(d) /\ SentEvents(d) \subseteq Items
BY DEF ScopeOf, NormalizedRows, RawRows, EligibleFor, SyncCandidatesOf, HandoffJobs, SentEvents

\* A stage before the sync changes nothing of what was sent.
LEMMA NothingSent ==
  ASSUME SheetOK, NEW d \in DayNumbers, NEW s \in {"scrape", "normalize", "enrich"},
         NEW row \in Rows, row # Missing, Turn(d, s), Close(d, s, row),
         sent' = sent, handed' = handed, Sendings(d)
  PROVE  Sendings(d)'
<1> s \in StageNames
  BY DEF StageNames
<1>1. sheet[d]["sync"] = Missing /\ sheet[d]["notify"] = Missing
  BY TurnIs
<1>2. sheet'[d]["sync"] = Missing /\ sheet'[d]["notify"] = Missing
  <2>1. "sync" \in StageNames \ {s} /\ "notify" \in StageNames \ {s}
    BY DEF StageNames
  <2> QED BY <1>1, <2>1, CloseIs
<1>3. Unsent(d)' /\ Unhanded(d)' /\ AllBegun(d)'
  BY <1>1, <1>2 DEF Sendings, Unsent, Unhanded, AllBegun
<1>4. Missing.status # "completed"
  BY BareRows
<1>5. Exact(sheet[d]["sync"], SentEvents(d))' /\ Exact(sheet[d]["notify"], SentHandoffs(d))'
  BY <1>2, <1>4 DEF Exact
<1> QED BY <1>3, <1>5 DEF Sendings

\* A stage after normalize changes nothing of the rows of its day.
LEMMA RowsStay ==
  ASSUME SheetOK, NEW d \in DayNumbers, NEW s \in {"enrich", "sync", "notify"},
         NEW row \in Rows, Turn(d, s), Close(d, s, row),
         owner' = owner, ready' = ready, verdict' = verdict, calm' \subseteq calm,
         s = "enrich" /\ row.status \in {"failed", "partial"} => d \notin calm',
         Accounted(d), CalmDay(d)
  PROVE  Accounted(d)' /\ CalmDay(d)'
<1> s \in StageNames
  BY DEF StageNames
<1>1. sheet'[d]["normalize"] = sheet[d]["normalize"]
  BY CloseIs DEF StageNames
<1>2. Accounted(d)'
  <2>1. (RawRows(d) \ ready)' = RawRows(d) \ ready
    BY DEF RawRows, ScopeOf
  <2> QED BY <1>1, <2>1 DEF Accounted
<1>3. d \in calm' => sheet'[d]["enrich"].status \notin {"failed", "partial"}
  <2>1. CASE s = "enrich"
    BY <2>1, CloseIs
  <2>2. CASE s # "enrich"
    <3>1. sheet'[d]["enrich"] = sheet[d]["enrich"]
      BY <2>2, CloseIs DEF StageNames
    <3> QED BY <3>1 DEF CalmDay
  <2> QED BY <2>1, <2>2
<1>4. CalmDay(d)'
  BY <1>1, <1>3 DEF CalmDay
<1> QED BY <1>2, <1>4

\* The scrape of a day comes before anything is counted or decided for it.
LEMMA NothingDecided ==
  ASSUME SheetOK, NEW d \in DayNumbers, NEW row \in Rows, Turn(d, "scrape"), Close(d, "scrape", row)
  PROVE  Accounted(d)' /\ CalmDay(d)'
<1>1. sheet[d]["normalize"] = Missing /\ sheet[d]["enrich"] = Missing
  BY TurnIs DEF StageNames
<1>2. sheet'[d]["normalize"] = Missing /\ sheet'[d]["enrich"] = Missing
  BY <1>1, CloseIs DEF StageNames
<1> QED BY <1>2, BareRows DEF Accounted, CalmDay

\* The steps of day d keep the types, the other days and the day.
DayKept(d) == ReportTypeOK' /\ Elsewhere(d) /\ DayInv(d)'

LEMMA BeginKeeps ==
  ASSUME ReportTypeOK, NEW d \in DayNumbers, DayInv(d), BeginFull(d)
  PROVE  DayKept(d)
<1> SheetOK /\ RowsOK /\ SentOK /\ HandedOK /\ CalmOK
  BY ReportTypeParts
<1>1. sheet[d]["normalize"] = Missing /\ sheet[d]["enrich"] = Missing
  BY TurnIs DEF BeginFull, StageNames
<1>2. ReportTypeOK'
  <2>1. CalmOK'
    BY DaysAre DEF BeginFull, CalmOK
  <2>2. SheetOK' /\ RowsOK' /\ SentOK' /\ HandedOK'
    BY DEF BeginFull, SheetOK, RowsOK, SentOK, HandedOK
  <2>3. (SheetOK /\ RowsOK /\ SentOK /\ HandedOK /\ CalmOK)' => ReportTypeOK'
    BY DEF ReportTypeOK, SheetOK, RowsOK, SentOK, HandedOK, CalmOK, Rows
  <2> QED BY <2>1, <2>2, <2>3
<1>3. Elsewhere(d)
  BY DEF BeginFull, Elsewhere
<1>4. Sendings(d)' /\ Accounted(d)'
  BY DEF BeginFull, DayInv, Sendings, Unsent, Unhanded, AllBegun, Accounted, RawRows, ScopeOf,
         SentEvents, SentHandoffs
<1>5. CalmDay(d)'
  BY <1>1, BareRows DEF BeginFull, CalmDay
<1> QED BY <1>2, <1>3, <1>4, <1>5 DEF DayKept, DayInv

\* ReportTypeParts of the next state.
LEMMA NextTypes ==
  ASSUME SheetOK', RowsOK', SentOK', HandedOK', CalmOK'
  PROVE  ReportTypeOK'
BY DEF ReportTypeOK, SheetOK, RowsOK, SentOK, HandedOK, CalmOK, Rows

\* A scrape, complete or cut off, changes the owners only.
LEMMA ScrapeKeeps ==
  ASSUME ReportTypeOK, NEW d \in DayNumbers, DayInv(d), NEW jobs \in SUBSET Items,
         NEW row \in Rows, row # Missing, Turn(d, "scrape"), Close(d, "scrape", row),
         owner' = [j \in Items |-> IF j \in jobs THEN d ELSE owner[j]],
         full' \in {0, full}, faults' \in 0..MaxFaults, calm' \subseteq calm,
         UNCHANGED <<ready, verdict, ailog, skilled, sent, handed>>
  PROVE  DayKept(d)
<1> SheetOK /\ RowsOK /\ SentOK /\ HandedOK /\ CalmOK
  BY ReportTypeParts
<1> "scrape" \in StageNames
  BY DEF StageNames
<1>1. ReportTypeOK'
  <2>1. SheetOK' /\ SentOK' /\ HandedOK'
    BY CloseIs DEF SentOK, HandedOK
  <2>2. RowsOK'
    BY DaysAre DEF RowsOK
  <2>3. CalmOK'
    BY DaysAre DEF CalmOK
  <2> QED BY <2>1, <2>2, <2>3, NextTypes
<1>2. Elsewhere(d)
  BY CloseIs DEF Elsewhere, RowsOK
<1>3. Sendings(d)'
  BY NothingSent DEF DayInv
<1>4. Accounted(d)' /\ CalmDay(d)'
  BY NothingDecided
<1> QED BY <1>1, <1>2, <1>3, <1>4 DEF DayKept, DayInv

\* A normalize stage, complete or cut off after some rows.
LEMMA NormalizeKeeps ==
  ASSUME ReportTypeOK, NEW d \in DayNumbers, DayInv(d), NEW backend,
         NEW done \in SUBSET EligibleFor(d, backend),
         NEW row \in Rows, row # Missing, Turn(d, "normalize"), Close(d, "normalize", row),
         row.status = "started" \/ row.skipped = Cardinality(ScopeOf(d) \ done),
         verdict' = Decided(d, ScopeOf(d), backend),
         ready' = ready \cup done,
         ailog' = [j \in Items |-> IF Ai /\ j \in done THEN ailog[j] \cup {"success"} ELSE ailog[j]],
         full' \in {0, full}, faults' \in 0..MaxFaults, calm' \subseteq calm,
         d \in calm' => done = EligibleFor(d, backend) /\ EligibleFor(d, backend) = ScopeOf(d),
         UNCHANGED <<owner, skilled, sent, handed>>
  PROVE  DayKept(d)
<1> SheetOK /\ RowsOK /\ SentOK /\ HandedOK /\ CalmOK
  BY ReportTypeParts
<1> "normalize" \in StageNames
  BY DEF StageNames
<1>a. ScopeOf(d) \subseteq Items /\ done \subseteq ScopeOf(d)
  BY ScopesAre
<1>1. ReportTypeOK'
  <2>1. SheetOK' /\ SentOK' /\ HandedOK'
    BY CloseIs DEF SentOK, HandedOK
  <2>2. RowsOK'
    <3>1. verdict' \in [Items -> [day : 0..MaxDay, decision : {"none", "eligible", "existing", "existing_backend"}]]
      BY <1>a, DecidedIs
    <3>2. ailog' \in [Items -> SUBSET {"success", "failed"}]
      BY DEF RowsOK
    <3>3. ready' \subseteq Items
      BY <1>a DEF RowsOK
    <3> QED BY <3>1, <3>2, <3>3 DEF RowsOK
  <2>3. CalmOK'
    BY DaysAre DEF CalmOK
  <2> QED BY <2>1, <2>2, <2>3, NextTypes
<1>2. Elsewhere(d)
  <2>1. \A e \in DayNumbers \ {d} : sheet'[e] = sheet[e]
    BY CloseIs
  <2>2. \A j \in Items : verdict'[j] = verdict[j] \/ owner[j] = d
    BY <1>a, DecidedIs DEF ScopeOf
  <2> QED BY <2>1, <2>2 DEF Elsewhere
<1>3. Sendings(d)'
  BY NothingSent DEF DayInv
<1>4. sheet'[d]["normalize"] = row
  BY CloseIs
<1>5. Accounted(d)'
  <2> SUFFICES ASSUME row.status # "started"
               PROVE  Cardinality((RawRows(d) \ ready)') <= row.skipped
    BY <1>4 DEF Accounted
  <2>1. /\ (RawRows(d) \ ready)' \subseteq ScopeOf(d) \ done
        /\ ScopeOf(d) \ done \subseteq Items
    BY <1>a DEF RawRows, ScopeOf
  <2>2. row.skipped = Cardinality(ScopeOf(d) \ done) /\ row.skipped \in Nat
    BY ItemsFinite DEF Rows
  <2>3. Cardinality(ScopeOf(d) \ done) <= row.skipped
    BY <2>2
  <2> QED BY <2>1, <2>2, <2>3, FewerLeft
<1>6. CalmDay(d)'
  <2>1. sheet[d]["enrich"] = Missing
    BY TurnIs
  <2>2. sheet'[d]["enrich"].status = "missing"
    BY <2>1, CloseIs, BareRows DEF StageNames
  <2>3. ASSUME d \in calm', NEW j \in Items, owner'[j] = d
        PROVE  j \in ready' /\ verdict'[j].day = d /\ verdict'[j].decision = "eligible"
    <3>1. j \in ScopeOf(d) /\ j \in EligibleFor(d, backend) /\ j \in done
      BY <2>3 DEF ScopeOf
    <3>2. Decision(j, backend) = "eligible"
      BY <3>1 DEF EligibleFor
    <3> QED BY <1>a, <3>1, <3>2, DecidedIs
  <2> QED BY <2>2, <2>3 DEF CalmDay
<1> QED BY <1>1, <1>2, <1>3, <1>5, <1>6 DEF DayKept, DayInv

\* An enrich stage, whatever it has staged.
LEMMA EnrichKeeps ==
  ASSUME ReportTypeOK, NEW d \in DayNumbers, DayInv(d),
         NEW row \in Rows, row # Missing, Turn(d, "enrich"), Close(d, "enrich", row),
         skilled' \subseteq Items,
         full' \in {0, full}, faults' \in 0..MaxFaults, calm' \subseteq calm,
         row.status \in {"failed", "partial"} => d \notin calm',
         UNCHANGED <<owner, ready, verdict, ailog, sent, handed>>
  PROVE  DayKept(d)
<1> SheetOK /\ RowsOK /\ SentOK /\ HandedOK /\ CalmOK
  BY ReportTypeParts
<1> "enrich" \in StageNames
  BY DEF StageNames
<1>1. ReportTypeOK'
  <2>1. SheetOK' /\ SentOK' /\ HandedOK'
    BY CloseIs DEF SentOK, HandedOK
  <2>2. RowsOK' /\ CalmOK'
    BY DaysAre DEF RowsOK, CalmOK
  <2> QED BY <2>1, <2>2, NextTypes
<1>2. Elsewhere(d)
  BY CloseIs DEF Elsewhere
<1>3. Sendings(d)'
  BY NothingSent DEF DayInv
<1>4. Accounted(d)' /\ CalmDay(d)'
  BY RowsStay DEF DayInv
<1> QED BY <1>1, <1>2, <1>3, <1>4 DEF DayKept, DayInv

\* A stage that was cut off before it wrote anything.
LEMMA CutKeeps ==
  ASSUME ReportTypeOK, NEW d \in DayNumbers, DayInv(d), NEW s \in StageNames \ {"scrape"},
         Turn(d, s), Close(d, s, Begun),
         full' \in {0, full}, faults' \in 0..MaxFaults, calm' \subseteq calm, d \notin calm',
         UNCHANGED <<owner, ready, verdict, ailog, skilled, sent, handed>>
  PROVE  DayKept(d)
<1> SheetOK /\ RowsOK /\ SentOK /\ HandedOK /\ CalmOK
  BY ReportTypeParts
<1> Begun \in Rows /\ Begun # Missing /\ Begun.status = "started"
  BY BareRows
<1>1. ReportTypeOK'
  <2>1. SheetOK' /\ SentOK' /\ HandedOK'
    BY CloseIs DEF SentOK, HandedOK
  <2>2. RowsOK' /\ CalmOK'
    BY DaysAre DEF RowsOK, CalmOK
  <2> QED BY <2>1, <2>2, NextTypes
<1>2. Elsewhere(d)
  BY CloseIs DEF Elsewhere
<1>3. SentEvents(d)' = SentEvents(d) /\ SentHandoffs(d)' = SentHandoffs(d)
  BY DEF SentEvents, SentHandoffs
<1>4. \A t \in StageNames : sheet'[d][t] = sheet[d][t] \/ (t = s /\ sheet'[d][t] = Begun)
  BY CloseIs
<1>5. "sync" \in StageNames /\ "notify" \in StageNames /\ "normalize" \in StageNames
  BY DEF StageNames
<1>6. Unsent(d)' /\ Unhanded(d)'
  BY <1>4, <1>5 DEF DayInv, Sendings, Unsent, Unhanded
<1>7. AllBegun(d)'
  <2>1. CASE s = "notify"
    <3>1. \A t \in StageNames \ {"notify"} : sheet[d][t] # Missing
      BY <2>1, TurnIs
    <3> QED BY <2>1, <3>1, <1>4 DEF AllBegun
  <2>2. CASE s # "notify"
    BY <2>2, <1>4, <1>5, TurnIs DEF AllBegun, DayInv, Sendings
  <2> QED BY <2>1, <2>2
<1>8. Exact(sheet[d]["sync"], SentEvents(d))' /\ Exact(sheet[d]["notify"], SentHandoffs(d))'
  BY <1>3, <1>4, <1>5 DEF DayInv, Sendings, Exact
<1>9. Accounted(d)'
  <2>1. (RawRows(d) \ ready)' = RawRows(d) \ ready
    BY DEF RawRows, ScopeOf
  <2> QED BY <2>1, <1>4, <1>5 DEF DayInv, Accounted
<1>10. CalmDay(d)'
  BY DEF CalmDay
<1> QED BY <1>1, <1>2, <1>6, <1>7, <1>8, <1>9, <1>10 DEF DayKept, DayInv, Sendings

\* What a row counts of the jobs it was closed with, if it counts at all.
CountsDone(row, tried, ok) ==
  row.status = "completed" => row.fetched = row.persisted + row.skipped /\ row.persisted = Cardinality(ok)

LEMMA CountsAre ==
  ASSUME NEW tried \in SUBSET Items, NEW ok \in SUBSET tried
  PROVE  /\ Closed("completed", Cardinality(tried), Cardinality(ok), Cardinality(tried \ ok)) \in Rows
         /\ Closed("completed", Cardinality(tried), Cardinality(ok), Cardinality(tried \ ok)) # Missing
         /\ CountsDone(Closed("completed", Cardinality(tried), Cardinality(ok), Cardinality(tried \ ok)), tried, ok)
<1> DEFINE a == Cardinality(tried)
           b == Cardinality(ok)
           c == Cardinality(tried \ ok)
<1>1. a \in 0..Cardinality(Items) /\ b \in 0..Cardinality(Items) /\ c \in 0..Cardinality(Items) /\ a = b + c
  BY DoneAndLeft
<1> HIDE DEF a, b, c
<1>2. Closed("completed", a, b, c) \in Rows /\ Closed("completed", a, b, c) # Missing
  BY <1>1, ClosedRow
<1>3. /\ Closed("completed", a, b, c).fetched = a /\ Closed("completed", a, b, c).persisted = b
      /\ Closed("completed", a, b, c).skipped = c
  BY <1>1, ClosedRow
<1>4. CountsDone(Closed("completed", a, b, c), tried, ok)
  BY <1>1, <1>3 DEF CountsDone, b
<1> QED BY <1>2, <1>4 DEF a, b, c

\* A sync stage, complete or failed after some jobs: the events of its day that
\* were sent are those it has just sent, for its day had no event before.
LEMMA SyncKeeps ==
  ASSUME ReportTypeOK, NEW d \in DayNumbers, DayInv(d),
         NEW tried \in SUBSET SyncCandidatesOf(d), NEW ok \in SUBSET tried,
         NEW row \in Rows, row # Missing, Turn(d, "sync"), Close(d, "sync", row), CountsDone(row, tried, ok),
         sent' = Outcome(d, ok, tried),
         full' \in {0, full}, faults' \in 0..MaxFaults, calm' \subseteq calm,
         UNCHANGED <<owner, ready, verdict, ailog, skilled, handed>>
  PROVE  DayKept(d)
<1> SheetOK /\ RowsOK /\ SentOK /\ HandedOK /\ CalmOK
  BY ReportTypeParts
<1> "sync" \in StageNames
  BY DEF StageNames
<1>a. tried \subseteq Items
  BY ScopesAre
<1>b. /\ \A e \in DayNumbers \ {d} : sent'[e] = sent[e]
      /\ \A j \in Items : sent'[d][j] =
           IF j \in tried THEN IF j \in ok THEN "sent" ELSE "failed" ELSE sent[d][j]
  <2>1. Outcome(d, ok, tried)[d] = sent'[d] /\ \A e : Outcome(d, ok, tried)[e] = sent'[e]
    OBVIOUS
  <2> QED BY <1>a, <2>1, OutcomeIs
<1>1. ReportTypeOK'
  <2>1. SheetOK' /\ HandedOK'
    BY CloseIs DEF HandedOK
  <2>2. SentOK'
    BY <1>a, OutcomeIs DEF SentOK
  <2>3. RowsOK' /\ CalmOK'
    BY DaysAre DEF RowsOK, CalmOK
  <2> QED BY <2>1, <2>2, <2>3, NextTypes
<1>2. Elsewhere(d)
  <2>1. \A e \in DayNumbers \ {d} : sheet'[e] = sheet[e] /\ sent'[e] = sent[e]
    BY <1>b, CloseIs
  <2> QED BY <2>1 DEF Elsewhere
<1>3. sheet[d]["sync"] = Missing /\ sheet[d]["notify"] = Missing
  BY TurnIs
<1>4. sheet'[d]["sync"] = row /\ sheet'[d]["notify"] = Missing
  BY <1>3, CloseIs DEF StageNames
<1>5. SentEvents(d)' = ok
  <2>1. ASSUME NEW j \in Items
        PROVE  sent'[d][j] = "sent" <=> j \in ok
    <3>1. sent[d][j] = "none"
      BY <1>3 DEF DayInv, Sendings, Unsent
    <3>2. sent'[d][j] = IF j \in tried THEN IF j \in ok THEN "sent" ELSE "failed" ELSE sent[d][j]
      BY <1>b
    <3> QED BY <3>1, <3>2
  <2> QED BY <1>a, <2>1 DEF SentEvents
<1>6. Sendings(d)'
  <2>1. Unsent(d)' /\ AllBegun(d)'
    BY <1>4 DEF Unsent, AllBegun
  <2>2. Unhanded(d)'
    BY <1>3 DEF DayInv, Sendings, Unhanded
  <2>3. Exact(sheet[d]["sync"], SentEvents(d))'
    BY <1>4, <1>5 DEF Exact, CountsDone
  <2>4. Exact(sheet[d]["notify"], SentHandoffs(d))'
    BY <1>4, BareRows DEF Exact
  <2> QED BY <2>1, <2>2, <2>3, <2>4 DEF Sendings
<1>7. Accounted(d)' /\ CalmDay(d)'
  BY RowsStay DEF DayInv
<1> QED BY <1>1, <1>2, <1>6, <1>7 DEF DayKept, DayInv

\* A notify stage, complete or failed after some jobs, is the only one to hand
\* jobs off for its day.
LEMMA NotifyKeeps ==
  ASSUME ReportTypeOK, NEW d \in DayNumbers, DayInv(d),
         NEW tried \in SUBSET HandoffJobs(d), NEW ok \in SUBSET tried,
         NEW row \in Rows, row # Missing, Turn(d, "notify"), Close(d, "notify", row),
         CountsDone(row, tried, ok),
         handed' = HandedOff(d, ok, tried),
         full' \in {0, full}, faults' \in 0..MaxFaults, calm' \subseteq calm,
         UNCHANGED <<owner, ready, verdict, ailog, skilled, sent>>
  PROVE  DayKept(d)
<1> SheetOK /\ RowsOK /\ SentOK /\ HandedOK /\ CalmOK
  BY ReportTypeParts
<1> "notify" \in StageNames
  BY DEF StageNames
<1>a. tried \subseteq Items
  BY ScopesAre
<1>b. /\ \A e \in DayNumbers \ {d} : handed'[e] = handed[e]
      /\ \A j \in Items : handed'[d][j] =
           IF j \in tried THEN IF j \in ok THEN "sent" ELSE "failed" ELSE handed[d][j]
  <2>1. HandedOff(d, ok, tried)[d] = handed'[d] /\ \A e : HandedOff(d, ok, tried)[e] = handed'[e]
    OBVIOUS
  <2> QED BY <1>a, <2>1, HandedOffIs
<1>1. ReportTypeOK'
  <2>1. SheetOK' /\ SentOK'
    BY CloseIs DEF SentOK
  <2>2. HandedOK'
    BY <1>a, HandedOffIs DEF HandedOK
  <2>3. RowsOK' /\ CalmOK'
    BY DaysAre DEF RowsOK, CalmOK
  <2> QED BY <2>1, <2>2, <2>3, NextTypes
<1>2. Elsewhere(d)
  <2>1. \A e \in DayNumbers \ {d} : sheet'[e] = sheet[e] /\ handed'[e] = handed[e]
    BY <1>b, CloseIs
  <2> QED BY <2>1 DEF Elsewhere
<1>3. /\ sheet[d]["notify"] = Missing
      /\ \A t \in StageNames \ {"notify"} : sheet[d][t] # Missing
  BY TurnIs
<1>4. sheet'[d]["notify"] = row /\ \A t \in StageNames \ {"notify"} : sheet'[d][t] = sheet[d][t]
  BY CloseIs
<1>5. SentHandoffs(d)' = ok
  <2>1. ASSUME NEW j \in Items
        PROVE  handed'[d][j] = "sent" <=> j \in ok
    <3>1. handed[d][j] = "none"
      BY <1>3 DEF DayInv, Sendings, Unhanded
    <3>2. handed'[d][j] = IF j \in tried THEN IF j \in ok THEN "sent" ELSE "failed" ELSE handed[d][j]
      BY <1>b
    <3> QED BY <3>1, <3>2
  <2> QED BY <1>a, <2>1 DEF SentHandoffs
<1>6. Sendings(d)'
  <2>1. Unsent(d)' /\ AllBegun(d)' /\ Unhanded(d)'
    BY <1>3, <1>4 DEF Unsent, AllBegun, Unhanded, StageNames
  <2>2. Exact(sheet[d]["notify"], SentHandoffs(d))'
    BY <1>4, <1>5 DEF Exact, CountsDone
  <2>3. SentEvents(d)' = SentEvents(d) /\ sheet'[d]["sync"] = sheet[d]["sync"]
    BY <1>4 DEF SentEvents, StageNames
  <2>4. Exact(sheet[d]["sync"], SentEvents(d))'
    BY <2>3 DEF Exact, DayInv, Sendings
  <2> QED BY <2>1, <2>2, <2>4 DEF Sendings
<1>7. Accounted(d)' /\ CalmDay(d)'
  BY RowsStay DEF DayInv
<1> QED BY <1>1, <1>2, <1>6, <1>7 DEF DayKept, DayInv

LEMMA StageKeeps ==
  ASSUME ReportTypeOK, NEW d \in DayNumbers, DayInv(d)
  PROVE  /\ \A jobs \in SUBSET Items, status \in {"completed", "partial"} :
              ScrapeStage(d, jobs, status) => DayKept(d)
         /\ \A done, backend : NormalizeStage(d, done, backend) => DayKept(d)
         /\ EnrichStage(d) => DayKept(d)
         /\ \A tried, ok : SyncStage(d, ok, tried) => DayKept(d)
         /\ \A ok : NotifyStage(d, ok) => DayKept(d)
<1> CalmOK
  BY ReportTypeParts
<1>1. ASSUME NEW jobs \in SUBSET Items, NEW status \in {"completed", "partial"}, ScrapeStage(d, jobs, status)
      PROVE  DayKept(d)
  <2> DEFINE row == Closed(status, Cardinality(jobs), Cardinality(jobs), 0)
  <2>1. row \in Rows /\ row # Missing
    BY SomeItems, ItemsFinite, ClosedRow
  <2>2. faults' \in 0..MaxFaults /\ calm' \subseteq calm
    BY <1>1, MeetsIs DEF ScrapeStage
  <2>3. Turn(d, "scrape") /\ Close(d, "scrape", row)
    BY <1>1 DEF ScrapeStage
  <2>4. owner' = [j \in Items |-> IF j \in jobs THEN d ELSE owner[j]]
    BY <1>1 DEF ScrapeStage
  <2>5. full' = full /\ UNCHANGED <<ready, verdict, ailog, skilled, sent, handed>>
    BY <1>1 DEF ScrapeStage
  <2> HIDE DEF row
  <2> QED BY <2>1, <2>2, <2>3, <2>4, <2>5, ScrapeKeeps
<1>2. ASSUME NEW done, NEW backend, NormalizeStage(d, done, backend)
      PROVE  DayKept(d)
  <2> DEFINE status == IF done = EligibleFor(d, backend) THEN "completed" ELSE "partial"
             row == Closed(status, Cardinality(ScopeOf(d)), Cardinality(done), Cardinality(ScopeOf(d) \ done))
  <2>1. done \in SUBSET EligibleFor(d, backend) /\ ScopeOf(d) \subseteq Items /\ done \subseteq ScopeOf(d)
    BY <1>2, ScopesAre DEF NormalizeStage
  <2>2. /\ Cardinality(ScopeOf(d)) \in 0..Cardinality(Items) /\ Cardinality(done) \in 0..Cardinality(Items)
        /\ Cardinality(ScopeOf(d) \ done) \in 0..Cardinality(Items)
    BY <2>1, DoneAndLeft
  <2>3. row \in Rows /\ row # Missing /\ row.skipped = Cardinality(ScopeOf(d) \ done)
    BY <2>2, ClosedRow
  <2>4. /\ faults' \in 0..MaxFaults /\ calm' \subseteq calm
        /\ d \in calm' => done = EligibleFor(d, backend) /\ EligibleFor(d, backend) = ScopeOf(d)
    <3>1. Meets(d, done # EligibleFor(d, backend), EligibleFor(d, backend) # ScopeOf(d))
      BY <1>2 DEF NormalizeStage
    <3> QED BY <3>1, MeetsIs
  <2>5. Turn(d, "normalize") /\ Close(d, "normalize", row)
    BY <1>2 DEF NormalizeStage
  <2>6. /\ verdict' = Decided(d, ScopeOf(d), backend) /\ ready' = ready \cup done
        /\ ailog' = [j \in Items |-> IF Ai /\ j \in done THEN ailog[j] \cup {"success"} ELSE ailog[j]]
    BY <1>2 DEF NormalizeStage
  <2>7. full' = full /\ UNCHANGED <<owner, skilled, sent, handed>>
    BY <1>2 DEF NormalizeStage
  <2> HIDE DEF row, status
  <2> QED BY <2>1, <2>3, <2>4, <2>5, <2>6, <2>7, NormalizeKeeps
<1>3. ASSUME EnrichStage(d)
      PROVE  DayKept(d)
  <2> DEFINE n == Cardinality(NormalizedRows(d))
             row == Closed("completed", n, n, 0)
  <2>1. NormalizedRows(d) \subseteq Items
    BY ScopesAre
  <2>2. row \in Rows /\ row # Missing /\ row.status = "completed"
    BY <2>1, SomeItems, ItemsFinite, ClosedRow
  <2>3. Turn(d, "enrich") /\ Close(d, "enrich", row)
    BY <1>3 DEF EnrichStage
  <2>4. skilled' \subseteq Items
    BY <1>3, <2>1, ReportTypeParts DEF EnrichStage, RowsOK
  <2>5. full' = full /\ faults' \in 0..MaxFaults /\ calm' = calm
    BY <1>3 DEF EnrichStage, CalmOK
  <2>6. UNCHANGED <<owner, ready, verdict, ailog, sent, handed>>
    BY <1>3 DEF EnrichStage
  <2> HIDE DEF row
  <2> QED BY <2>2, <2>3, <2>4, <2>5, <2>6, EnrichKeeps
<1>4. ASSUME NEW tried, NEW ok, SyncStage(d, ok, tried)
      PROVE  DayKept(d)
  <2> DEFINE row == Closed("completed", Cardinality(tried), Cardinality(ok), Cardinality(tried \ ok))
  <2>1. tried \in SUBSET SyncCandidatesOf(d) /\ ok \in SUBSET tried /\ tried \subseteq Items
    BY <1>4, ScopesAre DEF SyncStage
  <2>2. row \in Rows /\ row # Missing /\ CountsDone(row, tried, ok)
    BY <2>1, CountsAre
  <2>3. Turn(d, "sync") /\ Close(d, "sync", row)
    BY <1>4 DEF SyncStage
  <2>4. faults' \in 0..MaxFaults /\ calm' \subseteq calm
    <3>1. Meets(d, ok # tried, tried # SyncCandidatesOf(d))
      BY <1>4 DEF SyncStage
    <3> QED BY <3>1, MeetsIs
  <2>5. /\ sent' = Outcome(d, ok, tried) /\ full' = full
        /\ UNCHANGED <<owner, ready, verdict, ailog, skilled, handed>>
    BY <1>4 DEF SyncStage
  <2> HIDE DEF row
  <2> QED BY <2>1, <2>2, <2>3, <2>4, <2>5, SyncKeeps
<1>5. ASSUME NEW ok, NotifyStage(d, ok)
      PROVE  DayKept(d)
  <2> DEFINE jobs == HandoffJobs(d)
             row == Closed("completed", Cardinality(jobs), Cardinality(ok), Cardinality(jobs \ ok))
  <2>1. ok \in SUBSET jobs /\ jobs \subseteq Items
    BY <1>5, ScopesAre DEF NotifyStage
  <2>2. row \in Rows /\ row # Missing /\ CountsDone(row, jobs, ok)
    <3> HIDE DEF jobs
    <3> QED BY <2>1, CountsAre
  <2>3. Turn(d, "notify") /\ Close(d, "notify", row)
    BY <1>5 DEF NotifyStage
  <2>4. faults' \in 0..MaxFaults /\ calm' \subseteq calm
    <3>1. Meets(d, ok # jobs, FALSE)
      BY <1>5 DEF NotifyStage
    <3> QED BY <3>1, MeetsIs
  <2>5. /\ handed' = HandedOff(d, ok, jobs) /\ full' = 0
        /\ UNCHANGED <<owner, ready, verdict, ailog, skilled, sent>>
    BY <1>5 DEF NotifyStage
  <2> HIDE DEF row
  <2> QED BY <2>1, <2>2, <2>3, <2>4, <2>5, NotifyKeeps
<1> QED BY <1>1, <1>2, <1>3, <1>4, <1>5

LEMMA FailureKeeps ==
  ASSUME ReportTypeOK, NEW d \in DayNumbers, DayInv(d)
  PROVE  /\ \A s \in {"enrich", "sync", "notify"}, some \in SUBSET NormalizedRows(d) :
              \A ok \in SUBSET some : HookFails(d, s, some, ok) => DayKept(d)
         /\ \A s \in StageNames \ {"scrape"} : \A some, backend : CutOff(d, s, some, backend) => DayKept(d)
         /\ \A some \in SUBSET Items : CutOff(d, "scrape", some, {}) => DayKept(d)
<1> CalmOK
  BY ReportTypeParts
<1>1. ASSUME NEW s \in {"enrich", "sync", "notify"}, NEW some \in SUBSET NormalizedRows(d),
             NEW ok \in SUBSET some, HookFails(d, s, some, ok)
      PROVE  DayKept(d)
  <2> DEFINE row == [Missing EXCEPT !.status = "failed"]
  <2>1. row \in Rows /\ row # Missing /\ row.status = "failed" /\ CountsDone(row, some, ok)
    BY BareRows DEF CountsDone
  <2>2. Turn(d, s) /\ Close(d, s, row)
    BY <1>1 DEF HookFails
  <2>3. faults' \in 0..MaxFaults /\ calm' \subseteq calm /\ d \notin calm'
    <3>1. Meets(d, TRUE, FALSE)
      BY <1>1 DEF HookFails
    <3> QED BY <3>1, MeetsIs
  <2>4. UNCHANGED <<owner, ready, verdict, ailog>>
    BY <1>1 DEF HookFails
  <2>5. ASSUME s = "enrich"
        PROVE  DayKept(d)
    <3>1. skilled' = (IF Ai THEN skilled ELSE skilled \cup some) /\ UNCHANGED <<sent, handed, full>>
      BY <1>1, <2>5 DEF HookFails
    <3>2. skilled' \subseteq Items
      BY <3>1, ScopesAre, ReportTypeParts DEF RowsOK
    <3> HIDE DEF row
    <3> QED BY <2>1, <2>2, <2>3, <2>4, <2>5, <3>1, <3>2, EnrichKeeps
  <2>6. ASSUME s = "sync"
        PROVE  DayKept(d)
    <3>1. /\ some \subseteq SyncCandidatesOf(d) /\ sent' = Outcome(d, ok, some)
          /\ UNCHANGED <<skilled, handed, full>>
      BY <1>1, <2>6 DEF HookFails
    <3> HIDE DEF row
    <3> QED BY <2>1, <2>2, <2>3, <2>4, <2>6, <3>1, SyncKeeps
  <2>7. ASSUME s = "notify"
        PROVE  DayKept(d)
    <3>1. /\ some \subseteq HandoffJobs(d) /\ handed' = HandedOff(d, ok, some) /\ full' = 0
          /\ UNCHANGED <<skilled, sent>>
      BY <1>1, <2>7 DEF HookFails
    <3> HIDE DEF row
    <3> QED BY <2>1, <2>2, <2>3, <2>4, <2>7, <3>1, NotifyKeeps
  <2> QED BY <2>5, <2>6, <2>7
<1>2. ASSUME NEW s \in StageNames \ {"scrape"}, NEW some, NEW backend, CutOff(d, s, some, backend)
      PROVE  DayKept(d)
  <2>1. Turn(d, s) /\ Close(d, s, Begun)
    BY <1>2 DEF CutOff
  <2>2. full' = 0 /\ UNCHANGED <<skilled, sent, handed>>
    BY <1>2 DEF CutOff
  <2>3. faults' \in 0..MaxFaults /\ calm' \subseteq calm /\ d \notin calm'
    <3>1. Meets(d, TRUE, FALSE)
      BY <1>2 DEF CutOff
    <3> QED BY <3>1, MeetsIs
  <2>4. ASSUME s = "normalize" /\ some # {}
        PROVE  DayKept(d)
    <3>1. /\ some \in SUBSET EligibleFor(d, backend) /\ ready' = ready \cup some
          /\ verdict' = Decided(d, ScopeOf(d), backend)
          /\ ailog' = [j \in Items |-> IF Ai /\ j \in some THEN ailog[j] \cup {"success"} ELSE ailog[j]]
          /\ owner' = owner
      BY <1>2, <2>4 DEF CutOff
    <3>2. Begun \in Rows /\ Begun # Missing /\ Begun.status = "started"
      BY BareRows
    <3> QED BY <2>1, <2>2, <2>3, <2>4, <3>1, <3>2, NormalizeKeeps
  <2>5. ASSUME ~(s = "normalize" /\ some # {})
        PROVE  DayKept(d)
    <3>1. UNCHANGED <<owner, ready, verdict, ailog>>
      BY <1>2, <2>5 DEF CutOff
    <3> QED BY <2>1, <2>2, <2>3, <3>1, CutKeeps
  <2> QED BY <2>4, <2>5
<1>3. ASSUME NEW some \in SUBSET Items, CutOff(d, "scrape", some, {})
      PROVE  DayKept(d)
  <2>1. Turn(d, "scrape") /\ Close(d, "scrape", Begun) /\ Begun \in Rows /\ Begun # Missing
    BY <1>3, BareRows DEF CutOff
  <2>2. /\ owner' = [j \in Items |-> IF j \in some THEN d ELSE owner[j]]
        /\ full' = 0 /\ UNCHANGED <<ready, verdict, ailog, skilled, sent, handed>>
    BY <1>3 DEF CutOff
  <2>3. faults' \in 0..MaxFaults /\ calm' \subseteq calm
    <3>1. Meets(d, TRUE, FALSE)
      BY <1>3 DEF CutOff
    <3> QED BY <3>1, MeetsIs
  <2> QED BY <2>1, <2>2, <2>3, ScrapeKeeps
<1> QED BY <1>1, <1>2, <1>3

LEMMA RIndInit ==
  RInit => RInv
<1> SUFFICES ASSUME RInit
             PROVE  RInv
  OBVIOUS
<1>1. SheetOK
  BY BareRows DEF RInit, SheetOK
<1>2. ReportTypeOK
  <2>1. RowsOK /\ SentOK /\ HandedOK
    BY DaysAre DEF RInit, RowsOK, SentOK, HandedOK
  <2>2. CalmOK
    BY DaysAre, ReportAssumption DEF RInit, CalmOK
  <2> QED BY <1>1, <2>1, <2>2, ReportTypeParts
<1>3. ASSUME NEW e \in DayNumbers
      PROVE  DayInv(e)
  <2>1. \A s \in StageNames : sheet[e][s] = Missing
    BY <1>3 DEF RInit
  <2>2. sheet[e]["sync"] = Missing /\ sheet[e]["notify"] = Missing /\ sheet[e]["normalize"] = Missing
    BY <2>1 DEF StageNames
  <2>3. Unsent(e) /\ Unhanded(e)
    BY DaysAre DEF RInit, Unsent, Unhanded
  <2>4. AllBegun(e) /\ Accounted(e) /\ CalmDay(e)
    BY <2>2 DEF RInit, AllBegun, Accounted, CalmDay
  <2>5. Exact(sheet[e]["sync"], SentEvents(e)) /\ Exact(sheet[e]["notify"], SentHandoffs(e))
    BY <2>2, BareRows DEF Exact
  <2> QED BY <2>3, <2>4, <2>5 DEF DayInv, Sendings
<1> QED BY <1>2, <1>3 DEF RInv

LEMMA RIndStep ==
  RInv /\ [RNext]_reportVars => RInv'
<1>1. ASSUME RInv, RNext
      PROVE  RInv'
  <2> USE <1>1
  <2>1. PICK d \in DayNumbers :
          \/ BeginFull(d)
          \/ \E jobs \in SUBSET Items, status \in {"completed", "partial"} : ScrapeStage(d, jobs, status)
          \/ \E done \in SUBSET ScopeOf(d), backend \in SUBSET ScopeOf(d) : NormalizeStage(d, done, backend)
          \/ EnrichStage(d)
          \/ \E tried \in SUBSET NormalizedRows(d) : \E ok \in SUBSET tried : SyncStage(d, ok, tried)
          \/ \E ok \in SUBSET HandoffJobs(d) : NotifyStage(d, ok)
          \/ \E s \in {"enrich", "sync", "notify"}, some \in SUBSET NormalizedRows(d) :
               \E ok \in SUBSET some : HookFails(d, s, some, ok)
          \/ \E s \in StageNames \ {"scrape"}, some \in SUBSET ScopeOf(d), backend \in SUBSET ScopeOf(d) :
               CutOff(d, s, some, backend)
          \/ \E some \in SUBSET Items : CutOff(d, "scrape", some, {})
    BY DEF RNext
  <2>2. ReportTypeOK /\ DayInv(d)
    BY DEF RInv
  <2>3. DayKept(d)
    BY <2>1, <2>2, BeginKeeps, StageKeeps, FailureKeeps
  <2>4. \A e \in DayNumbers \ {d} : DayInv(e)'
    BY <2>3, <2>2, OthersKeep DEF DayKept, RInv
  <2> QED BY <2>3, <2>4 DEF DayKept, RInv
<1>2. ASSUME RInv, UNCHANGED reportVars
      PROVE  RInv'
  <2> USE <1>2
  <2>1. ReportTypeOK'
    BY DEF RInv, ReportTypeOK, reportVars
  <2>2. ASSUME NEW e \in DayNumbers
        PROVE  DayInv(e)'
    <3>1. DayInv(e)
      BY DEF RInv
    <3>2. /\ SentEvents(e)' = SentEvents(e) /\ SentHandoffs(e)' = SentHandoffs(e)
          /\ (RawRows(e) \ ready)' = RawRows(e) \ ready
      BY DEF SentEvents, SentHandoffs, RawRows, ScopeOf, reportVars
    <3>3. Sendings(e)'
      BY <3>1, <3>2 DEF DayInv, Sendings, Unsent, Unhanded, AllBegun, reportVars
    <3>4. Accounted(e)' /\ CalmDay(e)'
      BY <3>1, <3>2 DEF DayInv, Accounted, CalmDay, reportVars
    <3> QED BY <3>3, <3>4 DEF DayInv
  <2> QED BY <2>1, <2>2 DEF RInv
<1> QED BY <1>1, <1>2

\* Zero jobs were sent: the counts of the row give the reason.
LEMMA ZeroIsExplained ==
  ASSUME RInv, NEW e \in DayNumbers
  PROVE  /\ sheet[e]["sync"].status = "completed" /\ SentEvents(e) = {} => SyncReason(e)
         /\ sheet[e]["notify"].status = "completed" /\ SentHandoffs(e) = {} => NotifyReason(e)
<1>1. /\ Exact(sheet[e]["sync"], SentEvents(e)) /\ Exact(sheet[e]["notify"], SentHandoffs(e))
      /\ SheetOK
  BY ReportTypeParts DEF RInv, DayInv, Sendings
<1>2. \A s \in {"sync", "notify"} : sheet[e][s].persisted \in Nat /\ sheet[e][s].skipped \in Nat
                                    /\ sheet[e][s].fetched \in Nat
  BY <1>1, ItemsFinite DEF SheetOK, Rows, StageNames
<1>3. ASSUME NEW row, NEW done, Exact(row, done), row.status = "completed", done = {},
             row.persisted \in Nat, row.skipped \in Nat, row.fetched \in Nat
      PROVE  row.persisted = 0 /\ (row.skipped > 0 \/ row.fetched = 0)
  <2>1. row.persisted = 0 /\ row.fetched = row.persisted + row.skipped
    BY <1>3, FS_EmptySet DEF Exact
  <2> QED BY <1>3, <2>1
<1>4. ASSUME sheet[e]["sync"].status = "completed", SentEvents(e) = {}
      PROVE  SyncReason(e)
  <2>1. sheet[e]["sync"].persisted = 0 /\ (sheet[e]["sync"].skipped > 0 \/ sheet[e]["sync"].fetched = 0)
    BY <1>1, <1>2, <1>3, <1>4
  <2> QED BY <1>4, <2>1 DEF SyncReason
<1>5. ASSUME sheet[e]["notify"].status = "completed", SentHandoffs(e) = {}
      PROVE  NotifyReason(e)
  <2>1. sheet[e]["notify"].persisted = 0 /\ (sheet[e]["notify"].skipped > 0 \/ sheet[e]["notify"].fetched = 0)
    BY <1>1, <1>2, <1>3, <1>5
  <2> QED BY <1>5, <2>1 DEF NotifyReason
<1> QED BY <1>4, <1>5

\* Which checks fail.
LEMMA ChecksAre ==
  ASSUME NEW e \in DayNumbers
  PROVE  /\ "stageRowsPresent" \in FailedChecks(e) <=> \E s \in StageNames : sheet[e][s] = Missing
         /\ "normalizeCountInvariant" \in FailedChecks(e) =>
              Cardinality(RawRows(e)) - Cardinality(NormalizedRows(e)) # 0
         /\ "normalizeHasEligibilityDecision" \in FailedChecks(e) => ~(RawRows(e) \subseteq Decisions(e))
         /\ "normalizeRespectsEligibilityDecision" \in FailedChecks(e) =>
              ~\A j \in NormalizedRows(e) \cap Decisions(e) : verdict[j].decision = "eligible"
         /\ "enrichFailureHasAiEvidence" \in FailedChecks(e) =>
              sheet[e]["enrich"].status \in {"failed", "partial"}
         /\ "syncZeroSentHasReason" \in FailedChecks(e) =>
              ~(sheet[e]["sync"].status = "completed" /\ SentEvents(e) = {} => SyncReason(e))
         /\ "notifyZeroSentHasReason" \in FailedChecks(e) =>
              ~(sheet[e]["notify"].status = "completed" /\ SentHandoffs(e) = {} => NotifyReason(e))
         /\ FailedChecks(e) \subseteq
              {"stageRowsPresent", "normalizeCountInvariant", "normalizeHasEligibilityDecision",
               "normalizeRespectsEligibilityDecision", "enrichFailureHasAiEvidence",
               "syncZeroSentHasReason", "notifyZeroSentHasReason"}
BY DEF FailedChecks

LEMMA RIndReport ==
  RInv => ReportInv
<1> SUFFICES ASSUME RInv, NEW e \in DayNumbers
             PROVE  /\ CalmRunVerifies(e, FailedChecks(e))
                    /\ ZeroSentIsExplained(FailedChecks(e))
                    /\ VerifiedIsAccounted(e, FailedChecks(e))
                    /\ CountsAgree(e)
  BY DEF RInv, ReportInv
<1>1. Sendings(e) /\ Accounted(e) /\ CalmDay(e)
  BY DEF RInv, DayInv
<1>2. ZeroSentIsExplained(FailedChecks(e))
  BY ZeroIsExplained, ChecksAre DEF ZeroSentIsExplained
<1>3. CountsAgree(e)
  BY <1>1 DEF CountsAgree, Sendings, Exact
<1>4. VerifiedIsAccounted(e, FailedChecks(e))
  <2> SUFFICES ASSUME Verified(e, FailedChecks(e)), sheet[e]["normalize"].status # "started"
               PROVE  Cardinality(RawRows(e) \ ready) <= sheet[e]["normalize"].skipped
    BY DEF VerifiedIsAccounted
  <2>1. "stageRowsPresent" \notin FailedChecks(e)
    BY DEF Verified
  <2>2. sheet[e]["normalize"] # Missing
    BY <2>1, ChecksAre DEF StageNames
  <2> QED BY <1>1, <2>2 DEF Accounted
<1>5. CalmRunVerifies(e, FailedChecks(e))
  <2> SUFFICES ASSUME e \in calm, sheet[e]["notify"].status = "completed"
               PROVE  Verified(e, FailedChecks(e))
    BY DEF CalmRunVerifies
  <2>1. sheet[e]["notify"] # Missing
    BY BareRows
  <2>2. \A s \in StageNames : sheet[e][s] # Missing
    BY <1>1, <2>1 DEF Sendings, AllBegun
  <2>3. \A j \in RawRows(e) : j \in ready /\ verdict[j].day = e /\ verdict[j].decision = "eligible"
    BY <1>1, <2>2 DEF CalmDay, RawRows, ScopeOf, StageNames
  <2>4. NormalizedRows(e) = RawRows(e) /\ RawRows(e) \subseteq Items
    BY <2>3 DEF NormalizedRows, RawRows, ScopeOf
  <2>5. Cardinality(RawRows(e)) - Cardinality(NormalizedRows(e)) = 0
    <3>1. Cardinality(RawRows(e)) \in 0..Cardinality(Items)
      BY <2>4, SomeItems
    <3>2. \A a \in 0..Cardinality(Items) : a - a = 0
      BY ItemsFinite
    <3> QED BY <2>4, <3>1, <3>2
  <2>6. RawRows(e) \subseteq Decisions(e)
    BY <2>3, <2>4 DEF Decisions
  <2>7. \A j \in NormalizedRows(e) \cap Decisions(e) : verdict[j].decision = "eligible"
    BY <2>3, <2>4
  <2>8. sheet[e]["enrich"].status \notin {"failed", "partial"}
    BY <1>1 DEF CalmDay
  <2>9. \A name : name \notin FailedChecks(e)
    BY <2>2, <2>5, <2>6, <2>7, <2>8, ZeroIsExplained, ChecksAre
  <2>10. FailedChecks(e) = {}
    BY <2>9
  <2> QED BY <2>2, <2>10 DEF Verified, StageNames
<1> QED BY <1>2, <1>3, <1>4, <1>5

\* What verify and staging-report say of a day can be relied upon, now and after
\* later days: a full run without failures and known jobs is verified; no stage
\* reports without a reason that it sent nothing; every raw row of a verified run
\* is normalized or counted as skipped; and the counts of the sync and the
\* notify row are those of the rows read back.
THEOREM ReportIsReliable ==
  RSpec => []ReportInv
<1>1. RSpec => []RInv
  BY RIndInit, RIndStep, PTL DEF RSpec
<1> QED BY <1>1, RIndReport, PTL

\* Without an AI client every job that the enrich stage reports is staged.
LEMMA EnrichStages ==
  ASSUME Ai = FALSE, ReportTypeOK, NEW d \in DayNumbers, EnrichStage(d)
  PROVE  sheet'[d]["enrich"].persisted <= Cardinality(skilled')
<1> DEFINE n == Cardinality(NormalizedRows(d))
<1>1. sheet'[d]["enrich"] = Closed("completed", n, n, 0)
  BY DEF EnrichStage, Close, ReportTypeOK, StageNames
<1>2. sheet'[d]["enrich"].persisted = n
  BY <1>1 DEF Closed
<1>3. skilled' = skilled \cup NormalizedRows(d)
  BY DEF EnrichStage
<1>4. skilled' \subseteq Items /\ NormalizedRows(d) \subseteq skilled'
  BY <1>3, ScopesAre DEF ReportTypeOK
<1>5. IsFiniteSet(skilled')
  BY <1>4, ItemsFinite, FS_Subset
<1>6. n <= Cardinality(skilled')
  BY <1>4, <1>5, FS_Subset
<1> QED BY <1>2, <1>6

\* Without an AI client the enrich stage stages what it reports.
THEOREM StagedWithoutClients ==
  ASSUME Ai = FALSE
  PROVE  RSpec => EnrichedIsStaged
<1>1. RInv /\ [RNext]_reportVars =>
        [\A d \in DayNumbers :
           EnrichStage(d) => sheet'[d]["enrich"].persisted <= Cardinality(skilled')]_reportVars
  BY EnrichStages DEF RInv
<1> QED BY <1>1, RIndInit, RIndStep, PTL DEF RSpec, EnrichedIsStaged

\* With one, no stage ever stages anything, whatever it reports.
THEOREM NothingStagedWithClients ==
  ASSUME Ai = TRUE
  PROVE  RSpec => [](skilled = {})
<1>1. RInit => skilled = {}
  BY DEF RInit
<1>2. ASSUME NEW d, NEW s, NEW some, NEW ok, EnrichStage(d) \/ HookFails(d, s, some, ok)
      PROVE  skilled' = skilled
  BY <1>2 DEF EnrichStage, HookFails
<1>3. ASSUME NEW d, NEW some, NEW s, BeginFull(d) \/ ScrapeStage(d, some, s)
      PROVE  skilled' = skilled
  BY <1>3, Zenon DEF BeginFull, ScrapeStage
<1>4. ASSUME NEW d, NEW some, NEW backend, NormalizeStage(d, some, backend)
      PROVE  skilled' = skilled
  BY <1>4 DEF NormalizeStage
<1>5. ASSUME NEW d, NEW some, NEW ok, SyncStage(d, ok, some) \/ NotifyStage(d, ok)
      PROVE  skilled' = skilled
  BY <1>5 DEF SyncStage, NotifyStage
<1>6. ASSUME NEW d, NEW s, NEW some, NEW backend, CutOff(d, s, some, backend)
      PROVE  skilled' = skilled
  BY <1>6, Zenon DEF CutOff
<1>7. RNext => skilled' = skilled
  BY <1>2, <1>3, <1>4, <1>5, <1>6, Zenon DEF RNext
<1>8. skilled = {} /\ [RNext]_reportVars => (skilled = {})'
  BY <1>7 DEF reportVars
<1> QED BY <1>1, <1>8, PTL DEF RSpec

-----------------------------------------------------------------------------
(* Counts of values *)

\* A finite set of integers has a least element: the sets of what is not above
\* its elements are finite, and these are well-founded.
LEMMA LeastInteger ==
  ASSUME NEW S, S \subseteq Int, IsFiniteSet(S), S # {}
  PROVE  \E m \in S : \A n \in S : m <= n
<1> DEFINE UpTo(m) == {n \in S : n <= m}
           U == {UpTo(m) : m \in S}
<1>1. U \subseteq FiniteSubsetsOf(S) /\ U # {}
  <2>1. \A m \in S : UpTo(m) \in SUBSET S
    OBVIOUS
  <2>2. \A T \in SUBSET S : IsFiniteSet(T)
    BY FS_Subset
  <2> QED BY <2>1, <2>2 DEF FiniteSubsetsOf
<1>2. IsWellFoundedOn(StrictSubsetOrdering(S), FiniteSubsetsOf(S))
  BY FS_StrictSubsetOrderingWellFounded
<1> HIDE DEF U
<1>3. PICK x \in U : \A y \in U : ~ (<<y, x>> \in StrictSubsetOrdering(S))
  BY <1>1, <1>2, WFMin
<1>4. PICK m \in S : x = UpTo(m)
  BY DEF U
<1>5. ASSUME NEW n \in S, n < m PROVE FALSE
  <2>1. UpTo(n) \in U
    BY DEF U
  <2>2. \A k \in S : k <= n => k <= m
    BY <1>5
  <2>3. m <= m /\ ~(m <= n)
    BY <1>5
  <2>4. UpTo(n) \subseteq UpTo(m) /\ m \in UpTo(m) /\ m \notin UpTo(n) /\ UpTo(m) \subseteq S
    BY <2>2, <2>3
  <2> HIDE DEF UpTo
  <2>5. <<UpTo(n), UpTo(m)>> \in StrictSubsetOrdering(S)
    BY <2>4 DEF StrictSubsetOrdering
  <2> QED BY <1>3, <1>4, <2>1, <2>5
<1> QED BY <1>5

\* And a greatest one, the least of those that no element is above.
LEMMA GreatestInteger ==
  ASSUME NEW S, S \subseteq Int, IsFiniteSet(S), S # {}
  PROVE  \E m \in S : \A n \in S : n <= m
<1> DEFINE T == {-n : n \in S}
           f == [n \in S |-> -n]
<1>1. f \in Surjection(S, T)
  BY DEF Surjection
<1>2. T \subseteq Int /\ T # {}
  OBVIOUS
<1>3. IsFiniteSet(T)
  <2> HIDE DEF T, f
  <2> QED BY <1>1, FS_Surjection
<1>4. PICK l \in T : \A k \in T : l <= k
  <2> HIDE DEF T
  <2> QED BY <1>2, <1>3, LeastInteger
<1>5. PICK m \in S : l = -m
  OBVIOUS
<1>6. \A n \in S : -n \in T /\ n \in Int /\ m \in Int
  OBVIOUS
<1> HIDE DEF T
<1> QED BY <1>4, <1>5, <1>6

\* The union of finitely many finite sets that are the values of a function.
LEMMA FiniteUnion ==
  ASSUME NEW S, IsFiniteSet(S), NEW f, DOMAIN f = S, f = [x \in S |-> f[x]], \A x \in S : IsFiniteSet(f[x])
  PROVE  IsFiniteSet(UNION {f[x] : x \in S})
<1> DEFINE T == {f[x] : x \in S}
<1>1. f \in Surjection(S, T)
  BY DEF Surjection
<1>2. IsFiniteSet(T)
  BY <1>1, FS_Surjection
<1>3. \A t \in T : IsFiniteSet(t)
  OBVIOUS
<1> HIDE DEF T
<1>4. IsFiniteSet(UNION T)
  BY <1>2, <1>3, FS_UNION
<1> QED BY <1>4 DEF T

LEMMA InstancesFinite ==
  ASSUME NEW times, IsTally(times), NEW S, S \subseteq DOMAIN times
  PROVE  IsFiniteSet(Instances(times, S)) /\ HowMany(times, S) \in Nat
<1> DEFINE f == [t \in S |-> {t} \X (1..times[t])]
<1>1. \A t \in S : IsFiniteSet(f[t])
  <2> TAKE t \in S
  <2>1. times[t] \in Nat
    BY DEF IsTally
  <2>2. IsFiniteSet(1..times[t])
    BY <2>1, FS_Interval
  <2>3. IsFiniteSet({t})
    BY FS_Singleton
  <2> QED BY <2>2, <2>3, FS_Product
<1>2. IsFiniteSet(S)
  BY FS_Subset DEF IsTally
<1>3. IsFiniteSet(UNION {f[t] : t \in S})
  <2>1. DOMAIN f = S /\ f = [x \in S |-> f[x]]
    OBVIOUS
  <2> HIDE DEF f
  <2> QED BY <1>1, <1>2, <2>1, FiniteUnion
<1>4. {f[t] : t \in S} = {{t} \X (1..times[t]) : t \in S}
  OBVIOUS
<1>5. IsFiniteSet(Instances(times, S))
  BY <1>3, <1>4 DEF Instances
<1> QED BY <1>5, FS_CardinalityType DEF HowMany

\* The values of two sets that have none in common.
LEMMA CountsAddUp ==
  ASSUME NEW times, IsTally(times), NEW A, NEW B, A \cup B \subseteq DOMAIN times, A \cap B = {}
  PROVE  HowMany(times, A \cup B) = HowMany(times, A) + HowMany(times, B)
<1>1. Instances(times, A \cup B) = Instances(times, A) \cup Instances(times, B)
  BY DEF Instances
<1>2. Instances(times, A) \cap Instances(times, B) = {}
  BY DEF Instances
<1>3. IsFiniteSet(Instances(times, A)) /\ IsFiniteSet(Instances(times, B))
  BY InstancesFinite
<1>4. Cardinality(Instances(times, A) \cup Instances(times, B))
        = Cardinality(Instances(times, A)) + Cardinality(Instances(times, B)) - Cardinality({})
  BY <1>2, <1>3, FS_Union
<1>5. HowMany(times, A \cup B) = HowMany(times, A) + HowMany(times, B) - Cardinality({})
  BY <1>1, <1>4 DEF HowMany
<1>6. HowMany(times, A) \in Nat /\ HowMany(times, B) \in Nat
  BY InstancesFinite
<1>7. Cardinality({}) = 0
  BY FS_EmptySet
<1> QED BY <1>5, <1>6, <1>7

LEMMA MoreCount ==
  ASSUME NEW times, IsTally(times), NEW B, B \subseteq DOMAIN times, NEW A, A \subseteq B
  PROVE  HowMany(times, A) <= HowMany(times, B)
<1>1. Instances(times, A) \subseteq Instances(times, B)
  BY DEF Instances
<1>2. IsFiniteSet(Instances(times, B))
  BY InstancesFinite
<1> QED BY <1>1, <1>2, FS_Subset DEF HowMany

LEMMA NoneCount == ASSUME NEW times PROVE HowMany(times, {}) = 0
BY FS_EmptySet DEF HowMany, Instances

-----------------------------------------------------------------------------
(* The percentile *)

LEMMA RankIs ==
  ASSUME NEW n \in Nat, n > 0
  PROVE  /\ Rank(n) \in Nat /\ 1 <= Rank(n) /\ Rank(n) <= n
         /\ \A k \in Nat : k >= Rank(n) <=> 20 * k >= 19 * n
<1>1. Rank(n) = (19 * n + 19) \div 20
  BY DEF Rank
<1> QED BY <1>1

\* The values up to n reach the rank just if one in twenty is above n, at most.
LEMMA RankReached ==
  ASSUME NEW times, IsTally(times), DOMAIN times \subseteq Int, NEW n \in Int, Number(times) > 0
  PROVE  HowMany(times, {u \in DOMAIN times : u <= n}) >= Rank(Number(times))
           <=> 20 * HowMany(times, {t \in DOMAIN times : t > n}) <= Number(times)
<1> DEFINE A == {u \in DOMAIN times : u <= n}
           B == {t \in DOMAIN times : t > n}
           a == HowMany(times, A)
           b == HowMany(times, B)
           m == Number(times)
<1>1. A \cap B = {} /\ A \cup B = DOMAIN times
  OBVIOUS
<1>2. m = a + b
  BY <1>1, CountsAddUp DEF Number
<1>3. a \in Nat /\ b \in Nat /\ m \in Nat
  BY <1>1, InstancesFinite DEF Number
<1> HIDE DEF A, B, a, b, m
<1>4. a >= Rank(m) <=> 20 * a >= 19 * m
  BY <1>3, RankIs DEF m
<1>5. 20 * a >= 19 * m <=> 20 * b <= m
  BY <1>2, <1>3
<1>6. a >= Rank(m) <=> 20 * b <= m
  BY <1>4, <1>5
<1> QED BY <1>6 DEF a, b, m, A, B

\* The 95th percentile is there if anything is, and it is within a limit just
\* if at most one value in twenty is above the limit.
LEMMA PercentileWithin ==
  ASSUME NEW times, IsTally(times), DOMAIN times \subseteq Int, NEW limits, limits \subseteq Int
  PROVE  Below(Percentile95(times), limits) <=> WithinLimit(times, limits)
<1> DEFINE UpTo(n) == {u \in DOMAIN times : u <= n}
           Over(n) == {t \in DOMAIN times : t > n}
           total == Number(times)
           reaching == {t \in DOMAIN times : HowMany(times, UpTo(t)) >= Rank(total)}
<1>1. total \in Nat /\ \A n : HowMany(times, UpTo(n)) \in Nat /\ HowMany(times, Over(n)) \in Nat
  BY InstancesFinite DEF Number
<1>2. CASE total = 0
  <2>1. Percentile95(times) = {}
    BY <1>2 DEF Percentile95
  <2>2. ASSUME NEW n \in limits PROVE 20 * HowMany(times, Over(n)) <= total
    <3>1. HowMany(times, Over(n)) <= total /\ HowMany(times, Over(n)) \in Nat
      BY <1>1, MoreCount DEF Number
    <3> HIDE DEF Over, total
    <3> QED BY <1>2, <3>1
  <2> QED BY <2>1, <2>2 DEF Below, WithinLimit
<1>3. CASE total > 0
  <2>1. Percentile95(times) = {t \in reaching : \A u \in reaching : t <= u}
    BY <1>1, <1>3 DEF Percentile95
  <2>2. \A n \in Int : HowMany(times, UpTo(n)) >= Rank(total) <=> 20 * HowMany(times, Over(n)) <= total
    BY <1>3, RankReached
  <2>3. Rank(total) \in Nat /\ 1 <= Rank(total) /\ Rank(total) <= total
    BY <1>1, <1>3, RankIs
  <2>4. reaching \subseteq Int /\ reaching \subseteq DOMAIN times
    OBVIOUS
  <2>5. ASSUME NEW n \in Int, HowMany(times, UpTo(n)) >= Rank(total)
        PROVE  \E t \in reaching : t <= n
    <3>1. UpTo(n) # {}
      <4> SUFFICES ASSUME UpTo(n) = {} PROVE FALSE
        OBVIOUS
      <4>1. HowMany(times, UpTo(n)) = 0
        BY NoneCount
      <4> QED BY <2>3, <2>5, <4>1
    <3>2. UpTo(n) \subseteq Int /\ IsFiniteSet(UpTo(n))
      BY FS_Subset DEF IsTally
    <3>3. PICK t \in UpTo(n) : \A u \in UpTo(n) : u <= t
      <4> HIDE DEF UpTo
      <4> QED BY <3>1, <3>2, GreatestInteger
    <3>4. UpTo(t) = UpTo(n)
      BY <3>3
    <3> QED BY <2>5, <3>3, <3>4
  <2>6. ASSUME NEW n \in Int, NEW t \in reaching, t <= n
        PROVE  HowMany(times, UpTo(n)) >= Rank(total)
    <3>1. UpTo(t) \subseteq UpTo(n) /\ UpTo(n) \subseteq DOMAIN times
      BY <2>4, <2>6
    <3>2. HowMany(times, UpTo(t)) <= HowMany(times, UpTo(n))
      BY <3>1, MoreCount
    <3>3. HowMany(times, UpTo(t)) >= Rank(total)
      OBVIOUS
    <3>4. HowMany(times, UpTo(t)) \in Nat /\ HowMany(times, UpTo(n)) \in Nat
      BY <1>1
    <3> HIDE DEF total, reaching, UpTo
    <3> QED BY <2>3, <3>2, <3>3, <3>4
  <2>7. PICK p \in reaching : \A u \in reaching : p <= u
    <3>1. reaching # {}
      <4>1. DOMAIN times # {}
        <5> SUFFICES ASSUME DOMAIN times = {} PROVE FALSE
          OBVIOUS
        <5> QED BY <1>3, NoneCount DEF Number
      <4>2. PICK m \in DOMAIN times : \A u \in DOMAIN times : u <= m
        BY <4>1, GreatestInteger DEF IsTally
      <4>3. UpTo(m) = DOMAIN times /\ m \in Int
        BY <4>2
      <4>4. HowMany(times, UpTo(m)) >= Rank(total)
        BY <1>1, <2>3, <4>3 DEF Number
      <4> QED BY <2>5, <4>3, <4>4
    <3>2. IsFiniteSet(reaching)
      BY FS_Subset DEF IsTally
    <3> HIDE DEF reaching
    <3> QED BY <2>4, <3>1, <3>2, LeastInteger
  <2>8. \A n \in Int : p <= n <=> HowMany(times, UpTo(n)) >= Rank(total)
    <3> TAKE n \in Int
    <3>1. ASSUME HowMany(times, UpTo(n)) >= Rank(total) PROVE p <= n
      <4>1. PICK t \in reaching : t <= n
        BY <2>5, <3>1
      <4> HIDE DEF reaching
      <4> QED BY <2>4, <2>7, <4>1
    <3>2. ASSUME p <= n PROVE HowMany(times, UpTo(n)) >= Rank(total)
      BY <2>6, <3>2
    <3> QED BY <3>1, <3>2
  <2>9. Percentile95(times) = {p}
    <3> HIDE DEF reaching
    <3>1. \A t \in reaching : (\A u \in reaching : t <= u) => t = p
      BY <2>4, <2>7
    <3> QED BY <2>1, <2>7, <3>1
  <2> HIDE DEF total, reaching, UpTo, Over
  <2>10. \A n \in limits : p <= n <=> 20 * HowMany(times, Over(n)) <= total
    BY <2>2, <2>8
  <2> QED BY <2>9, <2>10 DEF Below, WithinLimit, total, Over
<1> QED BY <1>1, <1>2, <1>3

-----------------------------------------------------------------------------
(* The gates *)

LEMMA StageTimesAre ==
  ASSUME NEW stages, stages \in Seq(SUBSET Int), \A i \in DOMAIN stages : IsFiniteSet(stages[i])
  PROVE  IsTally(StageTimes(stages)) /\ DOMAIN StageTimes(stages) \subseteq Int
<1> DEFINE D == UNION {stages[i] : i \in DOMAIN stages}
<1>1. DOMAIN stages = 1..Len(stages) /\ Len(stages) \in Nat
  OBVIOUS
<1>2. IsFiniteSet(DOMAIN stages)
  BY <1>1, FS_Interval
<1>3. IsFiniteSet(D)
  <2>1. stages = [i \in DOMAIN stages |-> stages[i]]
    OBVIOUS
  <2> QED BY <1>2, <2>1, FiniteUnion
<1>4. DOMAIN StageTimes(stages) = D /\ D \subseteq Int
  BY DEF StageTimes
<1>5. ASSUME NEW t \in D PROVE StageTimes(stages)[t] \in Nat
  <2>1. IsFiniteSet({i \in DOMAIN stages : t \in stages[i]})
    BY <1>2, FS_Subset
  <2>2. StageTimes(stages)[t] = Cardinality({i \in DOMAIN stages : t \in stages[i]})
    BY <1>5 DEF StageTimes
  <2> QED BY <2>1, <2>2, FS_CardinalityType
<1>6. StageTimes(stages) = [t \in D |-> StageTimes(stages)[t]]
  BY DEF StageTimes
<1> HIDE DEF D
<1> QED BY <1>3, <1>4, <1>5, <1>6 DEF IsTally

\* The share of partial jobs, rounded, and a rate.
LEMMA ShareIs ==
  ASSUME NEW p \in Nat, NEW n \in Nat, n > 0, NEW rate \in Nat, NEW share, share = (20000 * p + n) \div (2 * n)
  PROVE  /\ share \in Nat
         /\ rate <= share <=> 2 * rate * n <= 20000 * p + n
         /\ share <= rate <=> 20000 * p < 2 * rate * n + n
<1> DEFINE a == 20000 * p + n
           b == 2 * n
<1>1. a \in Nat /\ b \in Nat /\ b > 0 /\ share = a \div b
  OBVIOUS
<1> HIDE DEF a, b
<1>2. share \in Nat /\ b * share <= a /\ a < b * share + b
  BY <1>1
<1>3. rate <= share <=> b * rate <= a
  <2>1. ASSUME rate <= share PROVE b * rate <= b * share
    BY <1>1, <1>2, <2>1
  <2>2. ASSUME share < rate PROVE b * share + b <= b * rate
    <3>1. rate - (share + 1) \in Nat
      BY <1>2, <2>2
    <3>2. b * (rate - (share + 1)) >= 0
      BY <1>1, <3>1
    <3> QED BY <1>1, <1>2, <3>2
  <2>3. b * rate \in Nat /\ b * share \in Nat
    BY <1>1, <1>2
  <2> QED BY <1>1, <1>2, <2>1, <2>2, <2>3
<1>4. share <= rate <=> a < b * rate + b
  <2>1. ASSUME share <= rate PROVE b * share <= b * rate
    BY <1>1, <1>2, <2>1
  <2>2. ASSUME rate < share PROVE b * rate + b <= b * share
    <3>1. share - (rate + 1) \in Nat
      BY <1>2, <2>2
    <3>2. b * (share - (rate + 1)) >= 0
      BY <1>1, <3>1
    <3> QED BY <1>1, <1>2, <3>2
  <2>3. b * rate \in Nat /\ b * share \in Nat
    BY <1>1, <1>2
  <2> QED BY <1>1, <1>2, <2>1, <2>2, <2>3
<1>5. b * rate = 2 * rate * n
  BY DEF b
<1>6. 2 * rate * n \in Nat /\ 20000 * p \in Nat
  OBVIOUS
<1>7. rate <= share <=> 2 * rate * n <= 20000 * p + n
  BY <1>3, <1>5 DEF a
<1>8. share <= rate <=> 20000 * p < 2 * rate * n + n
  BY <1>4, <1>5, <1>6 DEF a, b
<1> QED BY <1>2, <1>7, <1>8

LEMMA PartialIs ==
  ASSUME NEW labels, IsTally(labels)
  PROVE  Number(labels) \in Nat /\ Partial(labels) \in Nat /\ Partial(labels) <= Number(labels)
<1> DEFINE S == {l \in DOMAIN labels : Completeness(l) = "partial"}
<1>1. S \subseteq DOMAIN labels
  OBVIOUS
<1> HIDE DEF S
<1>2. HowMany(labels, S) \in Nat /\ Number(labels) \in Nat /\ HowMany(labels, S) <= Number(labels)
  BY <1>1, InstancesFinite, MoreCount DEF Number
<1> QED BY <1>2 DEF Partial, S

\* Where the rounded share is between the rates, the exact one is, give or take
\* half a ten-thousandth; where the exact one is, so is the rounded.
LEMMA ShareWithin ==
  ASSUME NEW p \in Nat, NEW n \in Nat, n > 0, p <= n, NEW low \in Nat, NEW high \in Nat,
         NEW share, share = (20000 * p + n) \div (2 * n)
  PROVE  /\ 20000 * p >= (2 * low - 0) * n /\ 20000 * p <= (2 * high + 0) * n => low <= share /\ share <= high
         /\ low <= share /\ share <= high => 20000 * p >= (2 * low - 1) * n /\ 20000 * p <= (2 * high + 1) * n
         /\ low = 9500 /\ high = 10000 /\ n < 1000 /\ low <= share /\ share <= high
              => 20000 * p >= (2 * low - 0) * n /\ 20000 * p <= (2 * high + 0) * n
<1>1. low <= share <=> 2 * low * n <= 20000 * p + n
  BY ShareIs
<1>2. share <= high <=> 20000 * p < 2 * high * n + n
  BY ShareIs
<1>3. /\ (2 * low - 0) * n = 2 * low * n /\ (2 * high + 0) * n = 2 * high * n
      /\ (2 * low - 1) * n = 2 * low * n - n /\ (2 * high + 1) * n = 2 * high * n + n
  OBVIOUS
<1>4. 2 * low * n \in Nat /\ 2 * high * n \in Nat
  OBVIOUS
<1>5. ASSUME low = 9500, high = 10000, n < 1000, low <= share
      PROVE  20000 * p >= 2 * low * n /\ 20000 * p <= 2 * high * n
  <2>1. 19000 * n <= 20000 * p + n
    BY <1>1, <1>5
  <2>2. 19 * n <= 20 * p
    BY <1>5, <2>1
  <2> QED BY <1>5, <2>2
<1> DEFINE l == 2 * low * n
           h == 2 * high * n
<1> HIDE DEF l, h
<1>6. l <= 20000 * p /\ 20000 * p <= h => low <= share /\ share <= high
  BY <1>1, <1>2, <1>4 DEF l, h
<1>7. low <= share /\ share <= high => 20000 * p >= l - n /\ 20000 * p <= h + n
  BY <1>1, <1>2, <1>4 DEF l, h
<1> QED BY <1>3, <1>5, <1>6, <1>7 DEF l, h

LEMMA GlintsGateIs ==
  ASSUME NEW labels, IsTally(labels), gates.least \in Nat, gates.most \in Nat
  PROVE  /\ PartialWithin(labels, 0) => GlintsGate(labels)
         /\ GlintsGate(labels) => PartialWithin(labels, 1)
         /\ gates.least = 9500 /\ gates.most = 10000 /\ Number(labels) < 1000 /\ GlintsGate(labels)
              => PartialWithin(labels, 0)
<1> DEFINE n == Number(labels)
           p == Partial(labels)
           low == gates.least
           high == gates.most
           share == PartialRate(labels)
<1>1. n \in Nat /\ p \in Nat /\ p <= n /\ low \in Nat /\ high \in Nat
  BY PartialIs
<1>2. share = (20000 * p + n) \div (2 * n)
  BY DEF PartialRate
<1>3. GlintsGate(labels) <=> (n = 0 \/ (low <= share /\ share <= high))
  <2>1. CASE n = 0
    BY <2>1 DEF GlintsGate
  <2>2. CASE n > 0
    <3>1. share \in Nat
      <4> HIDE DEF n, p, share
      <4> QED BY <1>1, <1>2, <2>2, ShareIs
    <3> QED BY <1>1, <2>2, <3>1 DEF GlintsGate
  <2> QED BY <1>1, <2>1, <2>2
<1>4. \A h : PartialWithin(labels, h) <=> 20000 * p >= (2 * low - h) * n /\ 20000 * p <= (2 * high + h) * n
  BY DEF PartialWithin
<1>5. PartialWithin(labels, 0) <=> 20000 * p >= (2 * low - 0) * n /\ 20000 * p <= (2 * high + 0) * n
  BY <1>4
<1>6. PartialWithin(labels, 1) <=> 20000 * p >= (2 * low - 1) * n /\ 20000 * p <= (2 * high + 1) * n
  BY <1>4
<1> HIDE DEF n, p, low, high, share
<1>7. CASE n = 0
  <2>1. p = 0
    BY <1>1, <1>7
  <2>2. (2 * low - 0) * n = 0 /\ (2 * high + 0) * n = 0 /\ (2 * low - 1) * n = 0 /\ (2 * high + 1) * n = 0
    BY <1>1, <1>7
  <2>3. PartialWithin(labels, 0) /\ PartialWithin(labels, 1)
    BY <1>5, <1>6, <2>1, <2>2
  <2> QED BY <1>3, <1>7, <2>3
<1>8. CASE n > 0
  <2>1. PartialWithin(labels, 0) => low <= share /\ share <= high
    BY <1>1, <1>2, <1>5, <1>8, ShareWithin
  <2>2. low <= share /\ share <= high => PartialWithin(labels, 1)
    BY <1>1, <1>2, <1>6, <1>8, ShareWithin
  <2>3. low = 9500 /\ high = 10000 /\ n < 1000 /\ low <= share /\ share <= high => PartialWithin(labels, 0)
    BY <1>1, <1>2, <1>5, <1>8, ShareWithin
  <2>4. ~(n = 0)
    BY <1>8
  <2> QED BY <1>3, <2>1, <2>2, <2>3, <2>4 DEF low, high, n
<1> QED BY <1>1, <1>7, <1>8

-----------------------------------------------------------------------------
(* The staging report *)

\* What was sent is read back or still to be read, if a backend is configured.
SentIsUnread ==
  /\ found \in Findings /\ gates \in Gates
  /\ ~gates.database => wrong = {}
  /\ gates.backend => found.sent = unread \cup DOMAIN checks /\ unread \cap DOMAIN checks = {}
  /\ ~gates.backend => unread = {}

GInv ==
  /\ phase \in {"idle", "read", "lost", "done"}
  /\ phase = "idle" => checks = <<>>
  /\ phase # "idle" => SentIsUnread
  /\ phase = "done" => (passed <=> GatesPass /\ found.strict)

LEMMA FoundIs ==
  ASSUME SentIsUnread
  PROVE  /\ IsTally(found.glints) /\ gates.least \in Nat /\ gates.most \in Nat
         /\ Below(Percentile95(StageTimes(found.stages)), gates.stageLimit)
              <=> WithinLimit(StageTimes(found.stages), gates.stageLimit)
         /\ Below(Percentile95(found.ai), gates.aiLimit) <=> WithinLimit(found.ai, gates.aiLimit)
         /\ Below(Percentile95(found.sync), gates.syncLimit) <=> WithinLimit(found.sync, gates.syncLimit)
<1>1. /\ IsTally(found.glints) /\ IsTally(found.ai) /\ DOMAIN found.ai \subseteq Int
      /\ IsTally(found.sync) /\ DOMAIN found.sync \subseteq Int
      /\ IsTally(StageTimes(found.stages)) /\ DOMAIN StageTimes(found.stages) \subseteq Int
  BY FindingsAssumption, StageTimesAre DEF SentIsUnread
<1>2. /\ gates.least \in Nat /\ gates.most \in Nat
      /\ gates.stageLimit \subseteq Int /\ gates.aiLimit \subseteq Int /\ gates.syncLimit \subseteq Int
  BY GatesAssumption DEF SentIsUnread
<1> QED BY <1>1, <1>2, PercentileWithin

\* The gates without the rate of partial jobs.
OtherGates ==
  /\ found.consistent /\ found.strict
  /\ gates.database => wrong = {}
  /\ gates.backend => \A p \in found.sent : p \in DOMAIN checks /\ checks[p].list /\ checks[p].detail
  /\ WithinLimit(StageTimes(found.stages), gates.stageLimit)
  /\ WithinLimit(found.ai, gates.aiLimit) /\ WithinLimit(found.sync, gates.syncLimit)
  /\ \A n \in gates.retryLimit : found.retries <= n

LEMMA GatesAre ==
  ASSUME SentIsUnread
  PROVE  GatesPass /\ found.strict <=> OtherGates /\ GlintsGate(found.glints)
<1>1. (gates.backend => unread = {} /\ \A p \in DOMAIN checks : checks[p].list /\ checks[p].detail)
        <=> (gates.backend => \A p \in found.sent : p \in DOMAIN checks /\ checks[p].list /\ checks[p].detail)
  BY DEF SentIsUnread
<1>2. Below({found.retries}, gates.retryLimit) <=> \A n \in gates.retryLimit : found.retries <= n
  BY DEF Below
<1> QED BY <1>1, <1>2, FoundIs DEF GatesPass, BackendConsistent, OtherGates

\* What the gates decide is what the counts behind their figures say.
LEMMA GInvIsEnough == GInv => StagingInv
<1> SUFFICES ASSUME GInv, phase = "done" PROVE (Evidence(0) => passed) /\ (passed => Evidence(Rounding))
  BY DEF StagingInv
<1>1. SentIsUnread
  BY DEF GInv
<1>2. passed <=> OtherGates /\ GlintsGate(found.glints)
  BY <1>1, GatesAre DEF GInv
<1>3. \A h : Evidence(h) <=> OtherGates /\ PartialWithin(found.glints, h)
  BY DEF Evidence, OtherGates
<1>4. Rounding = 0 => gates.least = 9500 /\ gates.most = 10000 /\ Number(found.glints) < 1000
  BY DEF Rounding
<1>5. Rounding \in {0, 1}
  BY DEF Rounding
<1>6. IsTally(found.glints) /\ gates.least \in Nat /\ gates.most \in Nat
  BY <1>1, FoundIs
<1>7. PartialWithin(found.glints, 0) => GlintsGate(found.glints)
  BY <1>6, GlintsGateIs
<1>8. GlintsGate(found.glints) => PartialWithin(found.glints, Rounding)
  <2>1. CASE Rounding = 0
    BY <1>4, <1>6, <2>1, GlintsGateIs
  <2>2. CASE Rounding = 1
    BY <1>6, <2>2, GlintsGateIs
  <2> QED BY <1>5, <2>1, <2>2
<1>9. (Evidence(0) <=> OtherGates /\ PartialWithin(found.glints, 0))
      /\ (Evidence(Rounding) <=> OtherGates /\ PartialWithin(found.glints, Rounding))
  BY <1>3
<1> QED BY <1>2, <1>7, <1>8, <1>9

LEMMA GInvInit == GInit => GInv
BY DEF GInit, GInv

LEMMA BuildReportKeeps == GInv /\ BuildReport => GInv'
<1> SUFFICES ASSUME GInv, BuildReport PROVE GInv'
  OBVIOUS
<1>1. found' \in Findings /\ gates' \in Gates /\ phase' = "read" /\ checks' = <<>>
  BY DEF GInv, BuildReport
<1>2. ~gates'.database => wrong' = {}
  BY DEF BuildReport
<1>3. unread' = IF gates'.backend THEN found'.sent ELSE {}
  BY DEF BuildReport
<1>4. DOMAIN checks' = {}
  BY <1>1
<1>5. SentIsUnread'
  BY <1>1, <1>2, <1>3, <1>4 DEF SentIsUnread
<1> QED BY <1>1, <1>5 DEF GInv

LEMMA ReadSourceKeeps ==
  ASSUME GInv, NEW listed \in BOOLEAN, NEW jobs \in BOOLEAN, NEW detailed \in BOOLEAN,
         ReadSource(listed, jobs, detailed)
  PROVE  GInv'
<1>1. PICK p \in unread :
        /\ unread' = unread \ {p}
        /\ checks' = [q \in DOMAIN checks \cup {p} |->
                       IF q = p THEN [list |-> listed, detail |-> jobs /\ detailed] ELSE checks[q]]
  BY DEF ReadSource
<1>2. DOMAIN checks' = DOMAIN checks \cup {p}
  BY <1>1
<1>3. SentIsUnread /\ phase = "read" /\ phase' = "read"
  BY DEF GInv, ReadSource
<1>4. found' = found /\ gates' = gates /\ wrong' = wrong
  BY DEF ReadSource
<1>5. SentIsUnread'
  BY <1>1, <1>2, <1>3, <1>4 DEF SentIsUnread
<1> QED BY <1>3, <1>5 DEF GInv

LEMMA GInvKept == GInv /\ [GNext]_stagingVars => GInv'
<1> SUFFICES ASSUME GInv, [GNext]_stagingVars PROVE GInv'
  OBVIOUS
<1>1. CASE BuildReport
  BY <1>1, BuildReportKeeps
<1>2. ASSUME NEW listed \in BOOLEAN, NEW jobs \in BOOLEAN, NEW detailed \in BOOLEAN,
             ReadSource(listed, jobs, detailed)
      PROVE  GInv'
  BY <1>2, ReadSourceKeeps
<1>3. CASE LoseBackend
  BY <1>3 DEF LoseBackend, GInv, SentIsUnread
<1>4. CASE Evaluate
  <2>1. SentIsUnread /\ phase' = "done"
    BY <1>4 DEF Evaluate, GInv
  <2>2. UNCHANGED <<found, gates, wrong, unread, checks>>
    BY <1>4 DEF Evaluate
  <2>3. SentIsUnread'
    BY <2>1, <2>2 DEF SentIsUnread
  <2>4. GatesPass' <=> GatesPass
    BY <2>2 DEF GatesPass, BackendConsistent, GlintsGate
  <2>5. passed' <=> GatesPass /\ found.strict
    BY <1>4 DEF Evaluate
  <2>6. passed' <=> GatesPass' /\ found'.strict
    BY <2>2, <2>4, <2>5
  <2> QED BY <2>1, <2>3, <2>6 DEF GInv
<1>5. CASE UNCHANGED stagingVars
  BY <1>5 DEF stagingVars, GInv, SentIsUnread, GatesPass, BackendConsistent, GlintsGate
<1> QED BY <1>1, <1>2, <1>3, <1>4, <1>5 DEF GNext

\* The staging report is ok just if the databases, the backend that is read and
\* the counts behind each percentile and rate say so, whatever is measured and
\* whatever limits are given.
THEOREM StagingIsSound == GSpec => []StagingInv
<1>1. GInit => GInv
  BY GInvInit
<1>2. GInv /\ [GNext]_stagingVars => GInv'
  BY GInvKept
<1>3. GInv => StagingInv
  BY GInvIsEnough
<1> QED BY <1>1, <1>2, <1>3, PTL DEF GSpec

=============================================================================

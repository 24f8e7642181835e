-------------------------- MODULE StageQueueProofs --------------------------
(***************************************************************************)
(* Proofs about StageQueue for any workers, jobs and numbers of attempts:  *)
(* a settled job has earned it, and is settled once unless two workers had *)
(* it at the same time.                                                    *)
(***************************************************************************)
EXTENDS StageQueue, TLAPS

\* A row of stage_jobs; nothing is said of when it is available.
IsRow(r) ==
  /\ r = [status |-> r.status, attempts |-> r.attempts, available |-> r.available]
  /\ r.attempts \in Nat

Busy(w) == place[w] # "idle"

Shape ==
  /\ table = [j \in QJobs |-> table[j]] /\ \A j \in QJobs : IsRow(table[j])
  /\ copy = [w \in Workers |-> copy[w]] /\ \A w \in Workers : IsRow(copy[w])
  /\ place \in [Workers -> {"idle", "selected", "handling", "done"}]
  /\ hand \in [Workers -> Nat] /\ locks \in [Workers -> BOOLEAN]
  /\ \A w \in Workers : Busy(w) => hand[w] \in QJobs
  /\ fails \in [QJobs -> Nat] /\ deaths \in Nat

\* What a row of job j says of its handler calls.
Earned(r, j) ==
  /\ r.attempts <= fails[j]
  /\ r.status = "dead-letter" => fails[j] >= MaxAttempts
  /\ r.status = "completed" => j \in good

\* Whichever of the rows is committed, it has been earned.
AllEarned ==
  /\ \A j \in QJobs : Earned(table[j], j)
  /\ \A w \in Workers : Busy(w) => Earned(copy[w], hand[w])

Has(w, j) == Busy(w) /\ hand[w] = j

\* Worker w, which alone has job j: its count is one ahead at most.
Holds(w, j) ==
  /\ table[j].status \notin Settled
  /\ table[j].attempts < MaxAttempts
  /\ place[w] # "done" =>
       copy[w].attempts = table[j].attempts /\ fails[j] <= table[j].attempts + deaths
  /\ place[w] = "done" =>
       /\ copy[w].status # "none"
       /\ copy[w].status = "completed" => fails[j] <= table[j].attempts + deaths
       /\ copy[w].status # "completed" =>
            /\ copy[w].attempts = table[j].attempts + 1
            /\ fails[j] <= copy[w].attempts + deaths

\* A job that no two workers have had at once.
Sole(j) ==
  /\ \A v, w \in Workers : Has(v, j) /\ Has(w, j) => v = w
  /\ \A w \in Workers : Has(w, j) => Holds(w, j)
  /\ (\A w \in Workers : ~Has(w, j)) => fails[j] <= table[j].attempts + deaths
  /\ table[j].attempts <= MaxAttempts
  /\ table[j].status = "none" => table[j].attempts = 0

IInv ==
  /\ Shape
  /\ AllEarned
  /\ \A j \in QJobs : j \notin raced => Sole(j)

-----------------------------------------------------------------------------
(* The inductive invariant *)

\* The value of a missing row is a row.
LEMMA AbsentIsRow == IsRow(Absent)
  BY DEF IsRow, Absent

\* A row is a row with another status, and keeps its count.
LEMMA RowOps ==
  ASSUME NEW r, IsRow(r), NEW s
  PROVE  LET settled == [r EXCEPT !.status = s, !.available = 0] IN
           IsRow(settled) /\ settled.attempts = r.attempts /\ settled.status = s
<1> DEFINE settled == [r EXCEPT !.status = s, !.available = 0]
<1>1. settled = [status |-> s, attempts |-> r.attempts, available |-> 0]
  <2>1. PICK q, n, a : r = [status |-> q, attempts |-> n, available |-> a]
    BY DEF IsRow
  <2> DEFINE marked == [r EXCEPT !.status = s]
  <2>2. marked = [status |-> s, attempts |-> n, available |-> a]
    BY <2>1
  <2>3. settled = [marked EXCEPT !.available = 0]
    BY Zenon
  <2> HIDE DEF marked, settled
  <2>4. [marked EXCEPT !.available = 0] = [status |-> s, attempts |-> n, available |-> 0]
    BY <2>2
  <2> QED BY <2>1, <2>3, <2>4
<1>2. r.attempts \in Nat
  BY DEF IsRow
<1> HIDE DEF settled
<1>3. settled.status = s /\ settled.attempts = r.attempts /\ settled.available = 0
  BY <1>1
<1>4. IsRow(settled)
  BY <1>1, <1>2, <1>3 DEF IsRow
<1> QED BY <1>3, <1>4 DEF settled

\* What the two kinds of commit leave of a row.
LEMMA HandlerCommitsRow ==
  ASSUME Shape, NEW w \in Workers, HandlerCommits(w)
  PROVE  /\ table' = [table EXCEPT ![hand[w]] = table'[hand[w]]]
         /\ IsRow(table'[hand[w]])
         /\ table'[hand[w]].attempts = table[hand[w]].attempts
         /\ table'[hand[w]].status = "running"
         /\ copy' = [copy EXCEPT ![w] = table'[hand[w]]]
<1> hand[w] \in QJobs /\ IsRow(table[hand[w]])
  BY DEF Shape, Busy, HandlerCommits
<1> DEFINE new == [table[hand[w]] EXCEPT !.status = "running", !.available = 0]
<1>1. table' = [table EXCEPT ![hand[w]] = new] /\ copy' = [copy EXCEPT ![w] = table'[hand[w]]]
  BY DEF HandlerCommits
<1>2. IsRow(new) /\ new.attempts = table[hand[w]].attempts /\ new.status = "running"
  BY RowOps
<1> HIDE DEF new
<1>3. table'[hand[w]] = new
  BY <1>1 DEF Shape
<1> QED BY <1>1, <1>2, <1>3

\* A commit leaves a row as it is, or as the session has it.
LEMMA CommitRow ==
  ASSUME Shape, NEW w \in Workers, Commit(w)
  PROVE  /\ table' = [table EXCEPT ![hand[w]] = table'[hand[w]]]
         /\ IsRow(table'[hand[w]])
         /\ copy[w].status = "completed" =>
              /\ table'[hand[w]].attempts = table[hand[w]].attempts
              /\ table'[hand[w]].status = "completed"
         /\ copy[w].status # "completed" => table'[hand[w]] = copy[w]
<1> hand[w] \in QJobs /\ IsRow(table[hand[w]]) /\ IsRow(copy[w])
  BY DEF Shape, Busy, Commit
<1> DEFINE done == [table[hand[w]] EXCEPT !.status = "completed", !.available = 0]
           new == IF copy[w].status = "completed" THEN done ELSE copy[w]
<1>1. table' = [table EXCEPT ![hand[w]] = new]
  BY DEF Commit
<1>2. IsRow(done) /\ done.attempts = table[hand[w]].attempts /\ done.status = "completed"
  BY RowOps
<1> HIDE DEF done
<1>3. table'[hand[w]] = new
  BY <1>1 DEF Shape
<1> QED BY <1>1, <1>2, <1>3

\* The queue is empty at the start.
LEMMA InitIInv == QInit => IInv
<1> SUFFICES ASSUME QInit PROVE IInv
  OBVIOUS
<1> USE DEF QInit
<1>1. Shape
  BY AbsentIsRow DEF Shape, Busy
<1>2. AllEarned
  BY DEF AllEarned, Earned, Absent, Busy
<1>3. \A j \in QJobs : Sole(j)
  BY QueueAssumption DEF Sole, Has, Absent, Busy
<1> QED BY <1>1, <1>2, <1>3 DEF IInv

\* One lemma for the types: every step leaves rows rows.
LEMMA ShapeStep == Shape /\ [QNext]_queueVars => Shape'
<1> SUFFICES ASSUME Shape, [QNext]_queueVars PROVE Shape'
  OBVIOUS
<1> USE DEF Shape, Busy
<1>1. ASSUME NEW j \in QJobs, Enqueue(j) PROVE Shape'
  <2>1. IsRow(table'[j])
    BY <1>1 DEF Enqueue, IsRow
  <2> QED BY <1>1, <2>1 DEF Enqueue
<1>2. ASSUME NEW w \in Workers, NEW j \in QJobs, Select(w, j) PROVE Shape'
  <2>1. IsRow(copy'[w])
    BY <1>2 DEF Select, IsRow
  <2>2. j \in Nat
    BY QueueAssumption
  <2> QED BY <1>2, <2>1, <2>2 DEF Select
<1>3. ASSUME NEW w \in Workers, Claim(w) PROVE Shape'
  <2>1. IsRow(copy'[w])
    BY <1>3 DEF Claim, IsRow
  <2> QED BY <1>3, <2>1 DEF Claim
<1>4. ASSUME NEW w \in Workers, HandlerCommits(w) PROVE Shape'
  BY <1>4, HandlerCommitsRow DEF HandlerCommits
<1>5. ASSUME NEW w \in Workers, Complete(w) PROVE Shape'
  <2>1. IsRow(copy'[w])
    BY <1>5 DEF Complete, IsRow
  <2> QED BY <1>5, <2>1 DEF Complete
<1>6. ASSUME NEW w \in Workers, Fail(w) PROVE Shape'
  <2>1. hand[w] \in QJobs
    BY <1>6 DEF Fail
  <2>2. Known(w).attempts \in Nat
    BY <2>1 DEF Known, IsRow
  <2>3. IsRow(copy'[w])
    BY <1>6, <2>2 DEF Fail, IsRow
  <2> QED BY <1>6, <2>1, <2>3 DEF Fail
<1>7. ASSUME NEW w \in Workers, Commit(w) PROVE Shape'
  BY <1>7, CommitRow, AbsentIsRow DEF Commit, Idle
<1>8. ASSUME NEW w \in Workers, Die(w) PROVE Shape'
  BY <1>8, AbsentIsRow DEF Die, Idle
<1>9. CASE UNCHANGED queueVars
  BY <1>9 DEF queueVars
<1> QED
  BY <1>1, <1>2, <1>3, <1>4, <1>5, <1>6, <1>7, <1>8, <1>9 DEF QNext, Work

\* History only grows, so that what has been earned stays so.
LEMMA HistoryGrows ==
  ASSUME Shape, [QNext]_queueVars
  PROVE  /\ good \subseteq good'
         /\ \A j \in QJobs : fails'[j] \in Nat /\ fails'[j] >= fails[j]
<1>1. good \subseteq good' /\ \/ UNCHANGED fails
                              \/ \E w \in Workers : fails' = [fails EXCEPT ![hand[w]] = @ + 1]
  BY DEF QNext, Work, Enqueue, Select, Claim, HandlerCommits, Complete, Fail, Commit, Die,
         queueVars
<1>2. \A j \in QJobs : fails'[j] \in Nat /\ fails'[j] >= fails[j]
  BY <1>1 DEF Shape
<1> QED BY <1>1, <1>2

\* Rows are written by the worker that has the job, or are copied.
LEMMA EarnedStep ==
  ASSUME Shape, AllEarned, [QNext]_queueVars
  PROVE  AllEarned'
<1> USE QueueAssumption DEF Earned, Busy
<1>h. /\ good \subseteq good'
      /\ \A j \in QJobs : fails[j] \in Nat /\ fails'[j] \in Nat /\ fails'[j] >= fails[j]
  BY HistoryGrows DEF Shape
<1>r. /\ \A j \in QJobs : table[j].attempts \in Nat
      /\ \A w \in Workers : copy[w].attempts \in Nat
  BY DEF Shape, IsRow
<1>j. \A w \in Workers : place[w] # "idle" => hand[w] \in QJobs
  BY DEF Shape
<1>t. \A j \in QJobs : Earned(table[j], j)
  BY DEF AllEarned
<1>c. \A w \in Workers : place[w] # "idle" => Earned(copy[w], hand[w])
  BY DEF AllEarned
\* A step that copies no row to another place.
<1>k. ASSUME /\ \A j \in QJobs : table'[j] = table[j] \/ Earned(table[j], j)'
             /\ \A w \in Workers : \/ place'[w] = "idle"
                                   \/ /\ place[w] # "idle" /\ copy'[w] = copy[w]
                                      /\ hand'[w] = hand[w]
                                   \/ Earned(copy[w], hand[w])'
      PROVE  AllEarned'
  <2>1. ASSUME NEW j \in QJobs PROVE Earned(table[j], j)'
    <3>1. CASE table'[j] = table[j]
      BY <3>1, <1>h, <1>r, <1>t
    <3> QED BY <3>1, <1>k
  <2>2. ASSUME NEW w \in Workers, place'[w] # "idle" PROVE Earned(copy[w], hand[w])'
    <3>1. CASE place[w] # "idle" /\ copy'[w] = copy[w] /\ hand'[w] = hand[w]
      <4>1. hand[w] \in QJobs /\ copy[w].attempts \in Nat /\ Earned(copy[w], hand[w])
        BY <3>1, <1>r, <1>j, <1>c
      <4>2. /\ copy[w].attempts <= fails'[hand[w]]
            /\ copy[w].status = "dead-letter" => fails'[hand[w]] >= MaxAttempts
            /\ copy[w].status = "completed" => hand[w] \in good'
        <5> DEFINE f == fails[hand[w]]
                   g == fails'[hand[w]]
                   n == copy[w].attempts
        <5>1. f \in Nat /\ g \in Nat /\ f <= g /\ n \in Nat /\ n <= f
          BY <4>1, <1>h
        <5>2. /\ copy[w].status = "dead-letter" => f >= MaxAttempts
              /\ copy[w].status = "completed" => hand[w] \in good'
          BY <4>1, <1>h
        <5> HIDE DEF f, g, n
        <5>3. n <= g /\ (copy[w].status = "dead-letter" => g >= MaxAttempts)
          BY <5>1, <5>2
        <5> QED BY <5>2, <5>3 DEF g, n
      <4> QED BY <3>1, <4>2
    <3> QED BY <2>2, <3>1, <1>k
  <2> QED BY <2>1, <2>2 DEF AllEarned
<1>1. ASSUME NEW j \in QJobs, Enqueue(j) PROVE AllEarned'
  <2>1. table'[j].status = "pending" /\ table'[j].attempts = 0
    BY <1>1 DEF Enqueue, Shape
  <2>2. Earned(table[j], j)'
    BY <2>1, <1>h
  <2>3. \A i \in QJobs : i # j => table'[i] = table[i]
    BY <1>1 DEF Enqueue, Shape
  <2> QED BY <1>1, <2>2, <2>3, <1>k DEF Enqueue
<1>2. ASSUME NEW w \in Workers, NEW j \in QJobs, Select(w, j) PROVE AllEarned'
  <2>1. /\ copy'[w].status = table[j].status /\ copy'[w].attempts = table[j].attempts
        /\ hand'[w] = j /\ UNCHANGED <<table, fails, good>>
    BY <1>2 DEF Select, Shape, IsRow
  <2>2. Earned(copy[w], hand[w])'
    BY <2>1, <1>t
  <2>3. \A v \in Workers : v # w => UNCHANGED <<copy[v], hand[v], place[v]>>
    BY <1>2 DEF Select, Shape
  <2> QED BY <2>1, <2>2, <2>3, <1>k
<1>3. ASSUME NEW w \in Workers, Claim(w) PROVE AllEarned'
  <2>1. /\ copy'[w].status = "running" /\ copy'[w].attempts = copy[w].attempts
        /\ UNCHANGED <<table, hand, fails, good>> /\ place[w] # "idle"
    BY <1>3 DEF Claim, Shape, IsRow
  <2>2. Earned(copy[w], hand[w])'
    BY <2>1, <1>c
  <2>3. \A v \in Workers : v # w => UNCHANGED <<copy[v], hand[v], place[v]>>
    BY <1>3 DEF Claim, Shape
  <2> QED BY <2>1, <2>2, <2>3, <1>k
<1>4. ASSUME NEW w \in Workers, HandlerCommits(w) PROVE AllEarned'
  <2>1. /\ table'[hand[w]].attempts = table[hand[w]].attempts
        /\ table'[hand[w]].status = "running"
        /\ table' = [table EXCEPT ![hand[w]] = table'[hand[w]]]
        /\ copy' = [copy EXCEPT ![w] = table'[hand[w]]]
    BY <1>4, HandlerCommitsRow
  <2>2. place[w] # "idle" /\ UNCHANGED <<hand, place, fails, good>>
    BY <1>4 DEF HandlerCommits
  <2>3. /\ copy'[w] = table'[hand[w]]
        /\ \A v \in Workers : v # w => copy'[v] = copy[v]
        /\ \A i \in QJobs : i # hand[w] => table'[i] = table[i]
    BY <2>1 DEF Shape
  <2>4. Earned(table[hand[w]], hand[w])' /\ Earned(copy[w], hand[w])'
    BY <2>1, <2>2, <2>3, <1>t, <1>j
  <2> QED BY <2>2, <2>3, <2>4, <1>k
<1>5. ASSUME NEW w \in Workers, Complete(w) PROVE AllEarned'
  <2>1. /\ copy'[w].status = "completed" /\ copy'[w].attempts = copy[w].attempts
        /\ UNCHANGED <<table, hand, fails>> /\ place[w] # "idle" /\ hand[w] \in good'
    BY <1>5 DEF Complete, Shape, IsRow
  <2>2. Earned(copy[w], hand[w])'
    BY <2>1, <1>c
  <2>3. \A v \in Workers : v # w => UNCHANGED <<copy[v], hand[v], place[v]>>
    BY <1>5 DEF Complete, Shape
  <2> QED BY <2>1, <2>2, <2>3, <1>k
<1>6. ASSUME NEW w \in Workers, Fail(w) PROVE AllEarned'
  <2>1. /\ place[w] # "idle" /\ hand[w] \in QJobs /\ UNCHANGED <<table, hand, good>>
        /\ fails'[hand[w]] = fails[hand[w]] + 1
    BY <1>6 DEF Fail, Shape
  <2>2. Known(w).attempts \in Nat /\ Known(w).attempts <= fails[hand[w]]
    BY <2>1, <1>t, <1>c, <1>r DEF Known
  <2>3. /\ copy'[w].attempts = Known(w).attempts + 1
        /\ copy'[w].status = IF Known(w).attempts + 1 >= MaxAttempts THEN "dead-letter" ELSE "failed"
    BY <1>6 DEF Fail, Shape
  <2>4. Earned(copy[w], hand[w])'
    <3> DEFINE n == Known(w).attempts
    <3>1. n \in Nat /\ n <= fails[hand[w]] /\ copy'[w].attempts = n + 1
          /\ copy'[w].status = IF n + 1 >= MaxAttempts THEN "dead-letter" ELSE "failed"
      BY <2>2, <2>3
    <3> HIDE DEF n
    <3>2. fails[hand[w]] \in Nat /\ hand'[w] = hand[w]
      BY <2>1, <1>h
    <3> QED BY <2>1, <3>1, <3>2
  <2>5. \A v \in Workers : v # w => UNCHANGED <<copy[v], hand[v], place[v]>>
    BY <1>6 DEF Fail, Shape
  <2> QED BY <2>1, <2>4, <2>5, <1>k
<1>7. ASSUME NEW w \in Workers, Commit(w) PROVE AllEarned'
  <2>1. /\ table' = [table EXCEPT ![hand[w]] = table'[hand[w]]]
        /\ copy[w].status = "completed" =>
             /\ table'[hand[w]].attempts = table[hand[w]].attempts
             /\ table'[hand[w]].status = "completed"
        /\ copy[w].status # "completed" => table'[hand[w]] = copy[w]
    BY <1>7, CommitRow
  <2>2. place[w] # "idle" /\ UNCHANGED <<fails, good>> /\ place'[w] = "idle"
    BY <1>7 DEF Commit, Idle, Shape
  <2>3. Earned(table[hand[w]], hand[w]) /\ Earned(copy[w], hand[w]) /\ hand[w] \in QJobs
    BY <2>2, <1>t, <1>c, <1>j
  <2>4. table'[hand[w]].attempts <= fails'[hand[w]]
        /\ (table'[hand[w]].status = "dead-letter" => fails'[hand[w]] >= MaxAttempts)
        /\ (table'[hand[w]].status = "completed" => hand[w] \in good')
    BY <2>1, <2>2, <2>3
  <2>5. \A i \in QJobs : table'[i] = table[i] \/ Earned(table[i], i)'
    BY <2>1, <2>3, <2>4 DEF Shape
  <2>6. \A v \in Workers : v # w => UNCHANGED <<copy[v], hand[v], place[v]>>
    BY <1>7 DEF Commit, Idle, Shape
  <2> QED BY <2>2, <2>5, <2>6, <1>k
<1>8. ASSUME NEW w \in Workers, Die(w) PROVE AllEarned'
  <2>1. UNCHANGED <<table, fails, good>> /\ place'[w] = "idle"
        /\ \A v \in Workers : v # w => UNCHANGED <<copy[v], hand[v], place[v]>>
    BY <1>8 DEF Die, Idle, Shape
  <2> QED BY <2>1, <1>k
<1>9. CASE UNCHANGED queueVars
  BY <1>9, <1>k DEF queueVars
<1> QED
  BY <1>1, <1>2, <1>3, <1>4, <1>5, <1>6, <1>7, <1>8, <1>9 DEF QNext, Work

\* The numbers that Sole compares.
LEMMA Numbers ==
  ASSUME Shape
  PROVE  /\ \A j \in QJobs : table[j].attempts \in Nat /\ fails[j] \in Nat
         /\ \A w \in Workers : copy[w].attempts \in Nat
         /\ \A w \in Workers : Busy(w) => hand[w] \in QJobs
         /\ deaths \in Nat
  BY DEF Shape, IsRow

\* A step that leaves a job and those who have it alone; others may die.
LEMMA SoleKept ==
  ASSUME Shape, NEW j \in QJobs, Sole(j),
         table'[j] = table[j], fails'[j] = fails[j], deaths' \in Nat, deaths' >= deaths,
         \A v \in Workers : \/ ~Has(v, j) /\ ~Has(v, j)'
                            \/ UNCHANGED <<place[v], hand[v], copy[v]>>
  PROVE  Sole(j)'
<1>1. \A v \in Workers : Has(v, j)' <=> Has(v, j)
  BY DEF Has, Busy
<1>2. ASSUME NEW w \in Workers, Has(w, j)' PROVE Holds(w, j)'
  <2>1. Has(w, j) /\ Holds(w, j) /\ copy'[w] = copy[w] /\ place'[w] = place[w]
    BY <1>1, <1>2 DEF Sole
  <2>2. table[j].attempts \in Nat /\ fails[j] \in Nat /\ copy[w].attempts \in Nat /\ deaths \in Nat
    BY Numbers
  <2> QED BY <2>1, <2>2 DEF Holds
<1>3. (\A w \in Workers : ~Has(w, j))' => fails'[j] <= table'[j].attempts + deaths'
  BY <1>1, Numbers DEF Sole
<1> QED BY <1>1, <1>2, <1>3 DEF Sole

\* A step of the only worker that has a job afterwards.
LEMMA SoleOf ==
  ASSUME NEW j \in QJobs, NEW w \in Workers,
         \A v \in Workers : Has(v, j)' => v = w,
         Has(w, j)', Holds(w, j)', table'[j].attempts \in Nat,
         table'[j].status = "none" => table'[j].attempts = 0
  PROVE  Sole(j)'
<1>1. table'[j].attempts <= MaxAttempts
  BY QueueAssumption DEF Holds
<1> QED BY <1>1 DEF Sole

\* A step after which nobody has the job.
LEMMA SoleOfNone ==
  ASSUME NEW j \in QJobs, \A v \in Workers : ~Has(v, j)',
         fails'[j] <= table'[j].attempts + deaths', table'[j].attempts <= MaxAttempts,
         table'[j].status = "none" => table'[j].attempts = 0
  PROVE  Sole(j)'
  BY DEF Sole


\* Every step keeps a job sole that it does not let a second worker select.
LEMMA SoleStep ==
  ASSUME Shape, Shape', [QNext]_queueVars, NEW j \in QJobs, Sole(j), j \notin raced'
  PROVE  Sole(j)'
<1> USE DEF Has, Busy
<1>n. /\ table[j].attempts \in Nat /\ fails[j] \in Nat /\ deaths \in Nat
      /\ table'[j].attempts \in Nat
      /\ \A w \in Workers : copy[w].attempts \in Nat
  BY DEF Shape, IsRow
<1>o. \A v, w \in Workers : Has(v, j) /\ Has(w, j) => v = w
  BY DEF Sole
<1>1. ASSUME NEW i \in QJobs, Enqueue(i) PROVE Sole(j)'
  <2>1. UNCHANGED <<place, hand, copy, fails, deaths>>
    BY <1>1 DEF Enqueue
  <2>2. CASE i # j
    BY <2>1, <2>2, <1>1, <1>n, SoleKept DEF Enqueue, Shape
  <2>3. CASE i = j
    <3>1. /\ table[j].status = "none" /\ table[j].attempts = 0
          /\ table'[j].status = "pending" /\ table'[j].attempts = 0
      BY <1>1, <2>3 DEF Enqueue, Shape, Sole
    <3>2. ASSUME NEW w \in Workers, Has(w, j)' PROVE Sole(j)'
      <4>1. Has(w, j) /\ Holds(w, j) /\ \A v \in Workers : Has(v, j)' => v = w
        BY <2>1, <3>2, <1>o DEF Sole
      <4>2. Holds(w, j)'
        BY <2>1, <3>1, <4>1 DEF Holds, Settled
      <4> QED BY <3>1, <3>2, <4>1, <4>2, <1>n, SoleOf
    <3>3. CASE \A w \in Workers : ~Has(w, j)'
      <4>1. fails[j] <= table[j].attempts + deaths
        BY <2>1, <3>3 DEF Sole
      <4>2. table'[j].attempts <= MaxAttempts
        BY <3>1, QueueAssumption
      <4> QED BY <2>1, <3>1, <3>3, <4>1, <4>2, SoleOfNone
    <3> QED BY <3>2, <3>3
  <2> QED BY <2>2, <2>3
<1>2. ASSUME NEW w \in Workers, NEW i \in QJobs, Select(w, i) PROVE Sole(j)'
  <2>1. /\ UNCHANGED <<table, fails, deaths>> /\ place[w] = "idle"
        /\ place'[w] = "selected" /\ hand'[w] = i
        /\ \A v \in Workers : v # w => UNCHANGED <<place[v], hand[v], copy[v]>>
    BY <1>2 DEF Select, Shape
  <2>2. CASE i # j
    <3>1. \A v \in Workers : \/ ~Has(v, j) /\ ~Has(v, j)'
                             \/ UNCHANGED <<place[v], hand[v], copy[v]>>
      BY <2>1, <2>2
    <3> QED BY <2>1, <3>1, <1>n, SoleKept
  <2>3. CASE i = j
    <3>1. \A v \in Workers : ~Has(v, j)
      BY <1>2, <2>3 DEF Select
    <3>2. /\ copy'[w].attempts = table[j].attempts
          /\ table[j].status \in {"pending", "failed"} /\ table[j].attempts < MaxAttempts
      BY <1>2, <2>3 DEF Select, Claimable, Shape, IsRow
    <3>3. fails[j] <= table[j].attempts + deaths
      BY <3>1 DEF Sole
    <3>4. Holds(w, j)'
      BY <2>1, <3>2, <3>3 DEF Holds, Settled
    <3>5. Has(w, j)' /\ \A v \in Workers : Has(v, j)' => v = w
      BY <2>1, <2>3, <3>1
    <3> QED BY <2>1, <3>2, <3>4, <3>5, <1>n, SoleOf
  <2> QED BY <2>2, <2>3
<1>3. ASSUME NEW w \in Workers, Claim(w) PROVE Sole(j)'
  <2>1. /\ UNCHANGED <<table, hand, fails, deaths>> /\ place[w] = "selected"
        /\ place'[w] = "handling" /\ copy'[w].attempts = copy[w].attempts
        /\ \A v \in Workers : v # w => UNCHANGED <<place[v], hand[v], copy[v]>>
    BY <1>3 DEF Claim, Shape, IsRow
  <2>2. CASE hand[w] # j
    <3>1. \A v \in Workers : \/ ~Has(v, j) /\ ~Has(v, j)'
                             \/ UNCHANGED <<place[v], hand[v], copy[v]>>
      BY <2>1, <2>2
    <3> QED BY <2>1, <3>1, <1>n, SoleKept
  <2>3. CASE hand[w] = j
    <3>1. Has(w, j) /\ Holds(w, j) /\ (table[j].status = "none" => table[j].attempts = 0)
      BY <2>1, <2>3 DEF Sole
    <3>2. Holds(w, j)'
      BY <2>1, <3>1 DEF Holds
    <3>3. Has(w, j)' /\ \A v \in Workers : Has(v, j)' => v = w
      BY <2>1, <2>3, <1>o
    <3> QED BY <2>1, <3>1, <3>2, <3>3, <1>n, SoleOf
  <2> QED BY <2>2, <2>3
<1>4. ASSUME NEW w \in Workers, HandlerCommits(w) PROVE Sole(j)'
  <2>1. /\ table' = [table EXCEPT ![hand[w]] = table'[hand[w]]]
        /\ table'[hand[w]].attempts = table[hand[w]].attempts
        /\ table'[hand[w]].status = "running"
        /\ copy' = [copy EXCEPT ![w] = table'[hand[w]]]
    BY <1>4, HandlerCommitsRow
  <2>2. UNCHANGED <<place, hand, fails, deaths>> /\ place[w] = "handling"
    BY <1>4 DEF HandlerCommits
  <2>3. /\ copy'[w] = table'[hand[w]]
        /\ \A v \in Workers : v # w => copy'[v] = copy[v]
        /\ hand[w] # j => table'[j] = table[j]
    BY <2>1 DEF Shape
  <2>4. CASE hand[w] # j
    <3>1. \A v \in Workers : \/ ~Has(v, j) /\ ~Has(v, j)'
                             \/ UNCHANGED <<place[v], hand[v], copy[v]>>
      BY <2>2, <2>3, <2>4
    <3> QED BY <2>2, <2>3, <2>4, <3>1, <1>n, SoleKept
  <2>5. CASE hand[w] = j
    <3>1. Has(w, j) /\ Holds(w, j)
      BY <2>2, <2>5 DEF Sole
    <3>2. Holds(w, j)'
      BY <2>1, <2>2, <2>3, <2>5, <3>1 DEF Holds, Settled
    <3>3. Has(w, j)' /\ \A v \in Workers : Has(v, j)' => v = w
      BY <2>2, <2>5, <1>o
    <3> QED BY <2>1, <2>5, <3>2, <3>3, <1>n, SoleOf
  <2> QED BY <2>4, <2>5
<1>5. ASSUME NEW w \in Workers, Complete(w) PROVE Sole(j)'
  <2>1. /\ UNCHANGED <<table, hand, fails, deaths>> /\ place[w] = "handling"
        /\ place'[w] = "done" /\ copy'[w].status = "completed"
        /\ \A v \in Workers : v # w => UNCHANGED <<place[v], hand[v], copy[v]>>
    BY <1>5 DEF Complete, Shape, IsRow
  <2>2. CASE hand[w] # j
    <3>1. \A v \in Workers : \/ ~Has(v, j) /\ ~Has(v, j)'
                             \/ UNCHANGED <<place[v], hand[v], copy[v]>>
      BY <2>1, <2>2
    <3> QED BY <2>1, <3>1, <1>n, SoleKept
  <2>3. CASE hand[w] = j
    <3>1. Has(w, j) /\ Holds(w, j) /\ (table[j].status = "none" => table[j].attempts = 0)
      BY <2>1, <2>3 DEF Sole
    <3>2. Holds(w, j)'
      BY <2>1, <3>1 DEF Holds
    <3>3. Has(w, j)' /\ \A v \in Workers : Has(v, j)' => v = w
      BY <2>1, <2>3, <1>o
    <3> QED BY <2>1, <3>1, <3>2, <3>3, <1>n, SoleOf
  <2> QED BY <2>2, <2>3
<1>6. ASSUME NEW w \in Workers, Fail(w) PROVE Sole(j)'
  <2>1. /\ UNCHANGED <<table, hand, deaths>> /\ place[w] = "handling" /\ place'[w] = "done"
        /\ copy'[w].attempts = Known(w).attempts + 1
        /\ copy'[w].status \in {"dead-letter", "failed"}
        /\ fails' = [fails EXCEPT ![hand[w]] = @ + 1]
        /\ \A v \in Workers : v # w => UNCHANGED <<place[v], hand[v], copy[v]>>
    BY <1>6 DEF Fail, Shape
  <2>2. CASE hand[w] # j
    <3>1. \A v \in Workers : \/ ~Has(v, j) /\ ~Has(v, j)'
                             \/ UNCHANGED <<place[v], hand[v], copy[v]>>
      BY <2>1, <2>2
    <3>2. fails'[j] = fails[j]
      BY <2>1, <2>2 DEF Shape
    <3> QED BY <2>1, <3>1, <3>2, <1>n, SoleKept
  <2>3. CASE hand[w] = j
    <3>1. Has(w, j) /\ Holds(w, j) /\ (table[j].status = "none" => table[j].attempts = 0)
      BY <2>1, <2>3 DEF Sole
    <3>2. copy'[w].attempts = table[j].attempts + 1 /\ fails'[j] = fails[j] + 1
          /\ fails[j] <= table[j].attempts + deaths
      BY <2>1, <2>3, <3>1 DEF Holds, Known, Shape
    <3>3. fails'[j] <= copy'[w].attempts + deaths'
      BY <2>1, <3>2, <1>n
    <3>4. Holds(w, j)'
      BY <2>1, <3>1, <3>2, <3>3 DEF Holds
    <3>5. Has(w, j)' /\ \A v \in Workers : Has(v, j)' => v = w
      BY <2>1, <2>3, <1>o
    <3> QED BY <2>1, <3>1, <3>4, <3>5, <1>n, SoleOf
  <2> QED BY <2>2, <2>3
<1>7. ASSUME NEW w \in Workers, Commit(w) PROVE Sole(j)'
  <2>1. /\ table' = [table EXCEPT ![hand[w]] = table'[hand[w]]]
        /\ copy[w].status = "completed" =>
             /\ table'[hand[w]].attempts = table[hand[w]].attempts
             /\ table'[hand[w]].status = "completed"
        /\ copy[w].status # "completed" => table'[hand[w]] = copy[w]
    BY <1>7, CommitRow
  <2>2. /\ UNCHANGED <<fails, deaths>> /\ place[w] = "done" /\ place'[w] = "idle"
        /\ \A v \in Workers : v # w => UNCHANGED <<place[v], hand[v], copy[v]>>
    BY <1>7 DEF Commit, Idle, Shape
  <2>3. CASE hand[w] # j
    <3>1. \A v \in Workers : \/ ~Has(v, j) /\ ~Has(v, j)'
                             \/ UNCHANGED <<place[v], hand[v], copy[v]>>
      BY <2>2, <2>3
    <3>2. table'[j] = table[j]
      BY <2>1, <2>3 DEF Shape
    <3> QED BY <2>2, <3>1, <3>2, <1>n, SoleKept
  <2>4. CASE hand[w] = j
    <3>1. Has(w, j) /\ Holds(w, j)
      BY <2>2, <2>4 DEF Sole
    <3>2. \A v \in Workers : ~Has(v, j)'
      BY <2>2, <2>4, <1>o
    <3>3. table[j].attempts < MaxAttempts /\ MaxAttempts \in Nat
      BY <3>1, QueueAssumption DEF Holds
    <3>4. /\ fails[j] <= table'[j].attempts + deaths
          /\ table'[j].attempts <= MaxAttempts /\ table'[j].status # "none"
      <4>1. CASE copy[w].status = "completed"
        BY <2>1, <2>2, <2>4, <3>1, <3>3, <4>1, <1>n DEF Holds
      <4>2. CASE copy[w].status # "completed"
        BY <2>1, <2>2, <2>4, <3>1, <3>3, <4>2, <1>n DEF Holds
      <4> QED BY <4>1, <4>2
    <3> QED BY <2>2, <3>2, <3>4, SoleOfNone
  <2> QED BY <2>3, <2>4
<1>8. ASSUME NEW w \in Workers, Die(w) PROVE Sole(j)'
  <2>1. /\ UNCHANGED <<table, fails>> /\ deaths' = deaths + 1
        /\ place[w] # "idle" /\ place'[w] = "idle"
        /\ \A v \in Workers : v # w => UNCHANGED <<place[v], hand[v], copy[v]>>
    BY <1>8 DEF Die, Idle, Shape
  <2>2. CASE hand[w] # j
    <3>1. \A v \in Workers : \/ ~Has(v, j) /\ ~Has(v, j)'
                             \/ UNCHANGED <<place[v], hand[v], copy[v]>>
      BY <2>1, <2>2
    <3>2. deaths' \in Nat /\ deaths' >= deaths
      BY <2>1, <1>n
    <3> QED BY <2>1, <3>1, <3>2, SoleKept
  <2>3. CASE hand[w] = j
    <3>1. /\ Holds(w, j) /\ table[j].attempts <= MaxAttempts
          /\ table[j].status = "none" => table[j].attempts = 0
      BY <2>1, <2>3 DEF Sole
    <3>2. \A v \in Workers : ~Has(v, j)'
      BY <2>1, <2>3, <1>o
    <3>3. fails[j] <= table[j].attempts + deaths + 1
      BY <3>1, <1>n DEF Holds
    <3>4. fails'[j] <= table'[j].attempts + deaths'
      BY <2>1, <3>3, <1>n
    <3> QED BY <2>1, <3>1, <3>2, <3>4, SoleOfNone
  <2> QED BY <2>2, <2>3
<1>9. CASE UNCHANGED queueVars
  BY <1>9, <1>n, SoleKept DEF queueVars
<1> QED
  BY <1>1, <1>2, <1>3, <1>4, <1>5, <1>6, <1>7, <1>8, <1>9 DEF QNext, Work

\* The histories never shrink.
LEMMA RacedGrows == [QNext]_queueVars => raced \subseteq raced'
  BY DEF QNext, Work, Enqueue, Select, Claim, HandlerCommits, Complete, Fail, Commit, Die,
         queueVars

\* Every step of a worker keeps the invariant.
LEMMA IInvStep == IInv /\ [QNext]_queueVars => IInv'
<1> SUFFICES ASSUME IInv, [QNext]_queueVars PROVE IInv'
  OBVIOUS
<1>1. Shape'
  BY ShapeStep DEF IInv
<1>2. AllEarned'
  BY EarnedStep DEF IInv
<1>3. ASSUME NEW j \in QJobs, j \notin raced' PROVE Sole(j)'
  BY <1>1, <1>3, RacedGrows, SoleStep DEF IInv
<1> QED BY <1>1, <1>2, <1>3 DEF IInv

\* The inductive invariant is an invariant.
LEMMA QueueInvariant == QSpec => []IInv
  BY InitIInv, IInvStep, PTL DEF QSpec

-----------------------------------------------------------------------------
(* The theorems *)

\* Whatever workers race for a job, the row that fail or complete leaves of it
\* was earned by that many handler calls.
THEOREM QueueEarns == QSpec => []SettledIsEarned
<1>1. IInv => SettledIsEarned
  <2> SUFFICES ASSUME IInv, NEW j \in QJobs
               PROVE  /\ table[j].status = "dead-letter" => fails[j] >= MaxAttempts
                      /\ table[j].status = "completed" => j \in good
    BY DEF SettledIsEarned
  <2> QED BY DEF IInv, AllEarned, Earned
<1> QED BY <1>1, QueueInvariant, PTL

\* Only the worker that has a job writes its row, once the job is enqueued.
LEMMA SettledRowStays ==
  ASSUME Shape, [QNext]_queueVars, NEW j \in QJobs, Sole(j), table[j].status \in Settled
  PROVE  table'[j] = table[j]
<1>1. \A w \in Workers : Busy(w) => hand[w] # j
  BY DEF Sole, Has, Holds
<1>2. ASSUME NEW i \in QJobs, Enqueue(i) PROVE table'[j] = table[j]
  BY <1>2 DEF Enqueue, Shape, Settled
<1>3. ASSUME NEW w \in Workers, HandlerCommits(w) \/ Commit(w) PROVE table'[j] = table[j]
  <2>1. hand[w] # j
    BY <1>1, <1>3 DEF HandlerCommits, Commit, Busy
  <2> QED BY <2>1, <1>3 DEF HandlerCommits, Commit, Shape
<1> QED BY <1>2, <1>3 DEF QNext, Work, Select, Claim, Complete, Fail, Die, queueVars

\* A job that no two workers had at once is settled for good, and its handler
\* raised MaxAttempts times at most, and once more for each worker that died.
THEOREM QueueSettlesOnce == QSpec => SettledOnce
<1> DEFINE Kept == \A j \in QJobs \ raced' :
                     /\ table[j].status \in Settled => table'[j] = table[j]
                     /\ fails'[j] <= MaxAttempts + deaths'
<1>1. IInv /\ IInv' /\ [QNext]_queueVars => Kept
  <2> SUFFICES ASSUME IInv, IInv', [QNext]_queueVars, NEW j \in QJobs \ raced'
               PROVE  /\ table[j].status \in Settled => table'[j] = table[j]
                      /\ fails'[j] <= MaxAttempts + deaths'
    OBVIOUS
  <2>1. Sole(j) /\ Sole(j)'
    BY RacedGrows DEF IInv
  <2>2. table[j].status \in Settled => table'[j] = table[j]
    BY <2>1, SettledRowStays DEF IInv
  <2>3. /\ table'[j].attempts \in Nat /\ fails'[j] \in Nat /\ deaths' \in Nat
        /\ \A w \in Workers : copy'[w].attempts \in Nat
    BY DEF IInv, Shape, IsRow
  <2>4. ASSUME NEW w \in Workers, Has(w, j)' PROVE fails'[j] <= MaxAttempts + deaths'
    <3>1. Holds(w, j)'
      BY <2>1, <2>4 DEF Sole
    <3> QED BY <2>3, <3>1, QueueAssumption DEF Holds
  <2>5. CASE \A w \in Workers : ~Has(w, j)'
    BY <2>1, <2>2, <2>3, <2>5, QueueAssumption DEF Sole
  <2> QED BY <2>2, <2>4, <2>5
<1> HIDE DEF Kept
<1>2. QSpec => [][Kept]_queueVars
  BY <1>1, QueueInvariant, PTL DEF QSpec
<1> QED BY <1>2 DEF SettledOnce, Kept
=============================================================================

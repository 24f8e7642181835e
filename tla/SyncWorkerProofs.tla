-------------------------- MODULE SyncWorkerProofs --------------------------
(***************************************************************************)
(* Proofs about SyncWorker, for every set of jobs, every batch size and    *)
(* every limit.                                                            *)
(***************************************************************************)
EXTENDS SyncWorker, FiniteSetTheorems, TLAPS

USE JobsAssumption, BoundsAssumption, SizesAssumption

\* A slice of a listing is part of it.
LEMMA PrefixIsSubset ==
  ASSUME NEW S, NEW k, NEW P \in Prefixes(S, k)
  PROVE  P \subseteq S
BY DEF Prefixes

\* Chunk sizes stay positive.
LEMMA SizesPositive ==
  ASSUME chunk \in SUBSET Jobs
  PROVE  InitialSize \in Nat \ {0} /\ HalvedSize \in Nat \ {0}
<1>1. Cardinality(chunk) \in Nat
  BY FS_Subset, FS_CardinalityType
<1>2. InitialSize \in Nat \ {0}
  BY DEF InitialSize, Least
<1>3. HalvedSize \in Nat \ {0}
  BY <1>1 DEF HalvedSize, Greatest
<1> QED BY <1>2, <1>3

\* Recording an outcome keeps an event an event.
LEMMA EventOps ==
  ASSUME NEW e \in Event, NEW limit \in Nat, run \in Nat
  PROVE  /\ Failure(e, limit) \in Event
         /\ Failure(e, limit).status \in {"failed", "dead-letter"}
         /\ Success(e) \in Event /\ Success(e).status = "sent"
         /\ Prepared(e) \in Event
         /\ Prepared(e).status = IF e.status = "none" THEN "pending" ELSE e.status
<1> USE DEF Event, Statuses
<1>0. e.attempts \in Nat /\ e.attempts + 1 \in Nat /\ e.run \in Nat /\ e.status \in Statuses
  OBVIOUS
<1>1. Failure(e, limit) \in Event /\ Failure(e, limit).status \in {"failed", "dead-letter"}
  BY <1>0 DEF Failure
<1>2. Success(e) \in Event /\ Success(e).status = "sent"
  BY <1>0 DEF Success
<1>3. Prepared(e) \in Event
  BY DEF Prepared
<1>4. Prepared(e).status = IF e.status = "none" THEN "pending" ELSE e.status
  BY DEF Prepared
<1> QED BY <1>1, <1>2, <1>3, <1>4

\* The payload of a job that has one.
LEMMA CurrentType ==
  ASSUME TypeOK, NEW j \in Jobs, version[j] > 0
  PROVE  Current(j) \in Payloads
<1>1. version[j] \in 1..MaxVersion
  BY DEF TypeOK
<1> QED BY <1>1 DEF Current, Payloads

-----------------------------------------------------------------------------
\* Sync rows, cursor, chunk and counts have their types in every reachable
\* state, chunk sizes never reach zero and a chunk is part of what the cursor
\* has not passed.
THEOREM TypeCorrect == Spec => []TypeOK
<1>1. Init => TypeOK
  BY DEF Init, TypeOK, Event, NoEvent, Statuses
<1>2. TypeOK /\ [Next]_vars => TypeOK'
  <2> SUFFICES ASSUME TypeOK, [Next]_vars PROVE TypeOK'
    OBVIOUS
  <2>z. MaxAttempts \in Nat /\ 1 \in Nat /\ run \in Nat
    BY DEF TypeOK
  <2>p. pending \subseteq Jobs /\ IsFiniteSet(pending) /\ chunk \subseteq Jobs /\ IsFiniteSet(chunk)
    BY FS_Subset DEF TypeOK
  <2>s. InitialSize \in Nat \ {0} /\ HalvedSize \in Nat \ {0}
    BY <2>p, SizesPositive
  <2>c. ASSUME NEW s \in Nat, NEW f \in Nat, NEW r \in BOOLEAN, ChunkDone(s, f, r),
               UNCHANGED version
        PROVE  /\ pending' \in SUBSET {j \in Jobs : version'[j] > 0}
               /\ chunk' \in SUBSET pending'
               /\ chunkSize' \in Nat \ {0}
               /\ tally' \in [attempted : Nat, sent : Nat, failed : Nat]
               /\ phase' \in {"next", "send"}
               /\ phase' # "send" => chunk' = {}
    <3>1. CASE Shrinks(s, r)
      <4>1. chunk' \in Prefixes(chunk, HalvedSize) /\ chunkSize' = HalvedSize
            /\ phase' = "send" /\ UNCHANGED <<pending, tally>>
        BY <2>c, <3>1 DEF ChunkDone
      <4>2. chunk' \subseteq chunk
        BY <4>1, PrefixIsSubset
      <4> QED BY <2>c, <2>s, <4>1, <4>2 DEF TypeOK
    <3>2. CASE ~Shrinks(s, r)
      <4>1. /\ tally' = [tally EXCEPT !.sent = @ + s, !.failed = @ + f]
            /\ pending' = pending \ chunk /\ chunk' = {} /\ phase' = "next"
            /\ chunkSize' = chunkSize
        BY <2>c, <3>2 DEF ChunkDone
      <4>2. tally.sent + s \in Nat /\ tally.failed + f \in Nat
        BY DEF TypeOK
      <4>3. tally' \in [attempted : Nat, sent : Nat, failed : Nat]
        BY <4>1, <4>2 DEF TypeOK
      <4> QED BY <2>c, <4>1, <4>3 DEF TypeOK
    <3> QED BY <3>1, <3>2
  <2>v. ValidJobs \subseteq Jobs /\ Cardinality(ValidJobs) \in Nat
        /\ Cardinality(chunk) \in Nat /\ Cardinality(chunk \ ValidJobs) \in Nat
        /\ Cardinality(pending) \in Nat
    <3>1. ValidJobs \subseteq chunk
      BY DEF ValidJobs
    <3> QED BY <3>1, <2>p, FS_Subset, FS_CardinalityType
  <2>w. Posted \subseteq Payloads
    BY CurrentType DEF Posted, ValidJobs, TypeOK
  <2>1. CASE Capture
    BY <2>1 DEF Capture, TypeOK, wireVars
  <2>2. CASE SelectCandidates
    <3>1. PICK P \in Prefixes(Candidates, Limit) :
            pending' = P /\ tally' = [attempted |-> Cardinality(P), sent |-> 0, failed |-> 0]
      BY <2>2 DEF SelectCandidates
    <3>2. P \subseteq {j \in Jobs : version[j] > 0}
      BY PrefixIsSubset DEF Candidates
    <3>3. Cardinality(P) \in Nat
      BY <3>2, FS_Subset, FS_CardinalityType
    <3> QED BY <2>2, <2>s, <3>1, <3>2, <3>3 DEF SelectCandidates, TypeOK, stagingVars, wireVars
  <2>3. CASE TakeChunk
    <3>1. chunk' \subseteq pending
      BY <2>3, PrefixIsSubset DEF TakeChunk
    <3> QED BY <2>3, <3>1 DEF TakeChunk, TypeOK, stagingVars, wireVars
  <2>4. CASE PrepareChunk
    <3>1. events' \in [Payloads -> Event]
      <4>1. \A p \in Payloads : events[p] \in Event /\ Prepared(events[p]) \in Event
              /\ Failure(Prepared(events[p]), 1) \in Event
        BY <2>z, EventOps DEF TypeOK
      <4> QED BY <2>4, <4>1 DEF PrepareChunk, PreparedEvents
    <3>2. CASE ValidJobs # {} /\ phase' = "post" /\ UNCHANGED <<pending, chunk, chunkSize, tally>>
      BY <2>4, <3>1, <3>2 DEF PrepareChunk, TypeOK, stagingVars, wireVars
    <3>3. CASE ChunkDone(0, Cardinality(chunk), FALSE)
      <4>1. UNCHANGED <<run, version, scope, committed, accepted, refused>> /\ tries' = 0
        BY <2>4 DEF PrepareChunk, stagingVars, wireVars
      <4>2. /\ pending' \in SUBSET {j \in Jobs : version'[j] > 0}
            /\ chunk' \in SUBSET pending'
            /\ chunkSize' \in Nat \ {0}
            /\ tally' \in [attempted : Nat, sent : Nat, failed : Nat]
            /\ phase' \in {"next", "send"}
            /\ phase' # "send" => chunk' = {}
        BY <2>v, <2>c, <3>3, <4>1
      <4> QED BY <3>1, <4>1, <4>2 DEF TypeOK
    <3> QED BY <2>4, <3>2, <3>3 DEF PrepareChunk
  <2>5. CASE PostAccepted
    <3>1. events' \in [Payloads -> Event]
      <4>1. \A p \in Payloads : events[p] \in Event /\ Success(events[p]) \in Event
        BY <2>z, EventOps DEF TypeOK
      <4> QED BY <2>5, <4>1 DEF PostAccepted
    <3> QED BY <2>5, <2>v, <2>w, <2>c, <3>1 DEF PostAccepted, TypeOK, stagingVars
  <2>6. CASE PostRetried
    BY <2>6, <2>w DEF PostRetried, BackendMayHaveStored, TypeOK, stagingVars
  <2>f. ASSUME NEW limit \in Nat, FailPosted(limit)
        PROVE  events' \in [Payloads -> Event]
    <3>1. \A p \in Payloads : events[p] \in Event /\ Failure(events[p], limit) \in Event
      BY <2>z, EventOps DEF TypeOK
    <3> QED BY <2>f, <3>1 DEF FailPosted
  <2>7. CASE PostFailed
    <3>1. events' \in [Payloads -> Event]
      BY <2>7, <2>z, <2>f DEF PostFailed
    <3> QED BY <2>7, <2>v, <2>w, <2>c, <3>1 DEF PostFailed, BackendMayHaveStored, TypeOK, stagingVars
  <2>8. CASE PostRejected
    <3>1. PICK notFound \in BOOLEAN :
            /\ FailPosted(IF notFound THEN MaxAttempts ELSE 1)
            /\ ChunkDone(0, Cardinality(chunk), notFound)
      BY <2>8 DEF PostRejected
    <3>2. events' \in [Payloads -> Event]
      BY <3>1, <2>z, <2>f
    <3> QED BY <2>8, <2>v, <2>w, <2>c, <3>1, <3>2 DEF PostRejected, TypeOK, stagingVars
  <2>9. CASE Finish
    BY <2>9 DEF Finish, TypeOK, stagingVars, wireVars
  <2>10. CASE Crash
    BY <2>10 DEF Crash, TypeOK, stagingVars, wireVars
  <2>12. CASE HookRaises
    BY <2>12 DEF HookRaises, TypeOK, stagingVars, wireVars
  <2>11. CASE UNCHANGED vars
    BY <2>11 DEF vars, stagingVars, workerVars, wireVars, TypeOK
  <2> QED
    BY <2>1, <2>2, <2>3, <2>4, <2>5, <2>6, <2>7, <2>8, <2>9, <2>10, <2>11, <2>12 DEF Next, WorkerStep
<1> QED BY <1>1, <1>2, PTL DEF Spec

-----------------------------------------------------------------------------
(* The delivery invariant *)

\* A payload is its job and its version.
LEMMA PayloadShape ==
  ASSUME NEW p \in Payloads
  PROVE  p[1] \in Jobs /\ p = <<p[1], p[2]>>
BY DEF Payloads

\* A first failure of a payload that cannot be built is already the last one.
LEMMA FailureOnce ==
  ASSUME NEW e \in Event
  PROVE  Failure(e, 1).status = "dead-letter"
<1>1. e.attempts \in Nat
  BY DEF Event
<1> QED BY <1>1 DEF Failure

\* After a chunk the cursor never moves back, the worker is between requests.
LEMMA ChunkDoneMoves ==
  ASSUME TypeOK, NEW s, NEW f, NEW r, ChunkDone(s, f, r)
  PROVE  pending' \subseteq pending /\ phase' \in {"next", "send"}
BY DEF ChunkDone

\* What is posted belongs to the chunk and can be sent.
LEMMA PostedFacts ==
  ASSUME TypeOK, NEW p \in Payloads
  PROVE  /\ p \in Posted <=> p[1] \in chunk /\ p = Current(p[1]) /\ p \notin Unsendable
         /\ p \in Posted => p[1] \in pending
<1>1. ASSUME p \in Posted
      PROVE  p[1] \in chunk /\ p = Current(p[1]) /\ p \notin Unsendable
  <2>1. PICK j \in chunk : Current(j) \notin Unsendable /\ p = Current(j)
    BY <1>1 DEF Posted, ValidJobs, Sendable
  <2>2. p[1] = j
    BY <2>1 DEF Current
  <2> QED BY <2>1, <2>2
<1>2. ASSUME p[1] \in chunk, p = Current(p[1]), p \notin Unsendable
      PROVE  p \in Posted
  BY <1>2 DEF Posted, ValidJobs, Sendable
<1>3. chunk \subseteq pending
  BY DEF TypeOK
<1> QED BY <1>1, <1>2, <1>3

\* Rows change only for the chunk: the effect of every step on the rows, as far
\* as DeliveryInv needs it.
LEMMA DeliveryStep == TypeOK /\ TypeOK' /\ DeliveryInv /\ [Next]_vars => DeliveryInv'
<1> SUFFICES ASSUME TypeOK, TypeOK', DeliveryInv, [Next]_vars PROVE DeliveryInv'
  OBVIOUS
<1> USE DEF DeliveryInv, SentWasAccepted, FailureIsOwn, PendingIsNew,
            UnsendableNeverSent, RowsKept, FinalFrozen
<1>n. MaxAttempts \in Nat /\ 1 \in Nat /\ run \in Nat /\ Unsendable \subseteq Payloads
  BY DEF TypeOK
<1>e. \A p \in Payloads : events[p] \in Event /\ committed[p] \in Event
  BY DEF TypeOK
<1>1. CASE Capture
  BY <1>1 DEF Capture, wireVars
<1>2. CASE SelectCandidates
  <2>1. PICK P \in Prefixes(Candidates, Limit) : pending' = P
    BY <1>2 DEF SelectCandidates
  <2>2. P \subseteq Candidates
    BY PrefixIsSubset
  <2>3. UNCHANGED <<version, committed, events, accepted, refused>> /\ phase' = "next"
        /\ phase = "captured"
    BY <1>2 DEF SelectCandidates, stagingVars, wireVars
  <2>4. ASSUME NEW p \in Payloads, committed[p].status \in {"sent", "dead-letter"},
               p \notin Unsendable, p = Current(p[1])
        PROVE  p[1] \notin P
    <3>1. events[p].status \in {"sent", "dead-letter"}
      BY <2>4
    <3> QED BY <2>2, <2>4, <3>1 DEF Candidates, Sendable, Retryable
  <2> QED BY <2>1, <2>3, <2>4 DEF Current
<1>3. CASE TakeChunk
  BY <1>3 DEF TakeChunk, stagingVars, wireVars, Current
<1>4. CASE PrepareChunk
  <2>1. UNCHANGED <<version, committed, accepted, refused>> /\ phase = "send"
        /\ events' = PreparedEvents
    BY <1>4 DEF PrepareChunk, stagingVars, wireVars
  <2>2. pending' \subseteq pending /\ phase' \in {"next", "send", "post"}
    BY <1>4, ChunkDoneMoves DEF PrepareChunk
  <2>3. ASSUME NEW p \in Payloads
        PROVE  /\ p[1] \in chunk /\ p = Current(p[1]) /\ p \in Unsendable
                    => events'[p].status = "dead-letter"
               /\ p \in Posted => events'[p].status =
                    IF events[p].status = "none" THEN "pending" ELSE events[p].status
               /\ ~(p[1] \in chunk /\ p = Current(p[1])) => events'[p] = events[p]
    <3>1. Prepared(events[p]) \in Event
          /\ Prepared(events[p]).status =
               IF events[p].status = "none" THEN "pending" ELSE events[p].status
      BY <1>e, <1>n, EventOps
    <3> QED BY <2>1, <3>1, FailureOnce, PostedFacts DEF PreparedEvents
  <2>5. SentWasAccepted' /\ FailureIsOwn' /\ PendingIsNew' /\ RowsKept'
    BY <2>1, <2>3, <1>e, PostedFacts DEF Event, Statuses
  <2>6. UnsendableNeverSent'
    BY <2>1, <2>3, <1>n
  <2>7. FinalFrozen'
    <3> SUFFICES ASSUME NEW p \in Payloads, committed[p].status \in {"sent", "dead-letter"}
                 PROVE  /\ events'[p].status = committed[p].status
                        /\ p \notin Unsendable /\ p = Current(p[1]) => p[1] \notin pending'
      BY <2>1 DEF Current
    <3>1. p \notin Unsendable /\ p = Current(p[1]) => p[1] \notin pending
      BY <2>1
    <3>2. p \notin Posted
      BY <3>1, PostedFacts
    <3>3. p \in Unsendable => committed[p].status = "dead-letter"
      BY <1>n
    <3> QED BY <2>2, <2>3, <3>1, <3>2, <3>3, PostedFacts
  <2> QED BY <2>5, <2>6, <2>7
<1>p. ASSUME phase = "post", UNCHANGED <<version, committed>>, pending' \subseteq pending,
             phase' \in {"next", "send"},
             \A p \in Payloads \ Posted : events'[p] = events[p],
             \A p \in Posted : events'[p].status \in {"sent", "failed", "dead-letter"}
      PROVE  PendingIsNew' /\ UnsendableNeverSent' /\ RowsKept' /\ FinalFrozen'
  <2>1. PendingIsNew' /\ RowsKept'
    BY <1>p, <1>e
  <2>2. UnsendableNeverSent'
    BY <1>p, <1>n, PostedFacts
  <2>3. FinalFrozen'
    <3> SUFFICES ASSUME NEW p \in Payloads, committed[p].status \in {"sent", "dead-letter"}
                 PROVE  /\ events'[p].status = committed[p].status
                        /\ p \notin Unsendable /\ p = Current(p[1]) => p[1] \notin pending'
      BY <1>p DEF Current
    <3>1. p \notin Posted
      BY <1>p, PostedFacts
    <3> QED BY <1>p, <3>1
  <2> QED BY <2>1, <2>2, <2>3
<1>f. ASSUME NEW limit \in Nat, FailPosted(limit), refused' = refused \cup Posted
      PROVE  /\ \A p \in Payloads \ Posted : events'[p] = events[p]
             /\ \A p \in Posted : events'[p].status \in {"failed", "dead-letter"}
  <2>1. Posted \subseteq Payloads
    BY CurrentType DEF Posted, ValidJobs, TypeOK
  <2>2. \A p \in Payloads : Failure(events[p], limit).status \in {"failed", "dead-letter"}
    BY <1>e, <1>n, <1>f, EventOps
  <2> QED BY <1>f, <2>1, <2>2 DEF FailPosted
<1>w. Posted \subseteq Payloads
  BY CurrentType DEF Posted, ValidJobs, TypeOK
<1>5. CASE PostAccepted
  <2>1. /\ phase = "post" /\ UNCHANGED <<version, committed, refused>>
        /\ accepted' = accepted \cup Posted
        /\ pending' \subseteq pending /\ phase' \in {"next", "send"}
    BY <1>5, ChunkDoneMoves DEF PostAccepted, stagingVars
  <2>2. /\ \A p \in Payloads \ Posted : events'[p] = events[p]
        /\ \A p \in Posted : events'[p].status = "sent"
    <3>1. \A p \in Payloads : Success(events[p]).status = "sent"
      BY <1>e, <1>n, EventOps
    <3> QED BY <1>5, <1>w, <3>1 DEF PostAccepted
  <2>3. PendingIsNew' /\ UnsendableNeverSent' /\ RowsKept' /\ FinalFrozen'
    BY <1>p, <2>1, <2>2
  <2>4. SentWasAccepted' /\ FailureIsOwn'
    BY <2>1, <2>2
  <2> QED BY <2>3, <2>4
<1>6. CASE PostRetried
  BY <1>6 DEF PostRetried, BackendMayHaveStored, stagingVars, Current
<1>7. CASE PostFailed
  <2>1. /\ phase = "post" /\ UNCHANGED <<version, committed>>
        /\ accepted \subseteq accepted' /\ refused' = refused \cup Posted
        /\ pending' \subseteq pending /\ phase' \in {"next", "send"}
    BY <1>7, ChunkDoneMoves DEF PostFailed, BackendMayHaveStored, stagingVars
  <2>2. /\ \A p \in Payloads \ Posted : events'[p] = events[p]
        /\ \A p \in Posted : events'[p].status \in {"failed", "dead-letter"}
    BY <1>7, <1>f, <1>n, <2>1 DEF PostFailed
  <2>3. PendingIsNew' /\ UnsendableNeverSent' /\ RowsKept' /\ FinalFrozen'
    BY <1>p, <2>1, <2>2
  <2>4. SentWasAccepted' /\ FailureIsOwn'
    BY <2>1, <2>2
  <2> QED BY <2>3, <2>4
<1>8. CASE PostRejected
  <2>1. PICK notFound \in BOOLEAN :
          /\ FailPosted(IF notFound THEN MaxAttempts ELSE 1)
          /\ ChunkDone(0, Cardinality(chunk), notFound)
    BY <1>8 DEF PostRejected
  <2>2. /\ phase = "post" /\ UNCHANGED <<version, committed, accepted>>
        /\ refused' = refused \cup Posted
        /\ pending' \subseteq pending /\ phase' \in {"next", "send"}
    BY <1>8, <2>1, ChunkDoneMoves DEF PostRejected, stagingVars
  <2>3. /\ \A p \in Payloads \ Posted : events'[p] = events[p]
        /\ \A p \in Posted : events'[p].status \in {"failed", "dead-letter"}
    BY <1>f, <1>n, <2>1, <2>2
  <2>4. PendingIsNew' /\ UnsendableNeverSent' /\ RowsKept' /\ FinalFrozen'
    BY <1>p, <2>2, <2>3
  <2>5. SentWasAccepted' /\ FailureIsOwn'
    BY <2>2, <2>3
  <2> QED BY <2>4, <2>5
<1>9. CASE Finish
  BY <1>9 DEF Finish, stagingVars, wireVars
<1>10. CASE Crash
  BY <1>10 DEF Crash, stagingVars, wireVars
<1>11. CASE UNCHANGED vars
  BY <1>11 DEF vars, stagingVars, workerVars, wireVars, Current
<1>12. CASE HookRaises
  BY <1>12 DEF HookRaises, stagingVars, wireVars
<1> QED
  BY <1>1, <1>2, <1>3, <1>4, <1>5, <1>6, <1>7, <1>8, <1>9, <1>10, <1>11, <1>12 DEF Next, WorkerStep

\* No row is `sent' without its payload at the backend, no row fails for another
\* row's request, and rows settle as the delivery ledger says.
THEOREM DeliveryIsSafe == Spec => []DeliveryInv
<1>1. Init => DeliveryInv
  BY DEF Init, NoEvent, DeliveryInv, SentWasAccepted, FailureIsOwn, PendingIsNew,
         UnsendableNeverSent, RowsKept, FinalFrozen
<1>2. TypeOK /\ TypeOK' /\ DeliveryInv /\ [Next]_vars => DeliveryInv'
  BY DeliveryStep
<1> QED BY <1>1, <1>2, TypeCorrect, PTL DEF Spec

-----------------------------------------------------------------------------
(* The worker implements the delivery ledger *)

\* The worker starts as the ledger does, and every step of it is a step of the
\* ledger or changes nothing the ledger shows: only the commit that ends a run
\* settles verdicts, and a request only adds to what the backend has stored.
THEOREM WorkerImplementsLedger == Spec => ImplementsLedger
<1>1. Init => Ledger!LedgerInit
  BY DEF Init, Ledger!LedgerInit, NoEvent, Verdict
<1>2. TypeOK /\ DeliveryInv /\ [Next]_vars => [Ledger!LedgerNext]_(Ledger!vars)
  <2> SUFFICES ASSUME TypeOK, DeliveryInv, [Next]_vars
               PROVE  [Ledger!LedgerNext]_(Ledger!vars)
    OBVIOUS
  <2>w. Posted \in SUBSET Payloads
    BY CurrentType DEF Posted, ValidJobs, TypeOK
  <2>s. ASSUME NEW S \in SUBSET Payloads, accepted' = accepted \cup S, UNCHANGED committed
        PROVE  Ledger!Store
    BY <2>s DEF Ledger!Store
  <2>q. ASSUME UNCHANGED <<accepted, committed>>
        PROVE  UNCHANGED Ledger!vars
    BY <2>q DEF Ledger!vars
  <2>1. CASE Capture
    BY <2>1, <2>q DEF Capture, wireVars
  <2>2. CASE SelectCandidates
    BY <2>2, <2>q DEF SelectCandidates, wireVars
  <2>3. CASE TakeChunk
    BY <2>3, <2>q DEF TakeChunk, wireVars
  <2>4. CASE PrepareChunk
    BY <2>4, <2>q DEF PrepareChunk, wireVars
  <2>5. CASE PostAccepted
    BY <2>5, <2>s, <2>w DEF PostAccepted, Ledger!LedgerNext
  <2>6. CASE PostRetried
    BY <2>6, <2>s, <2>q, <2>w DEF PostRetried, BackendMayHaveStored, Ledger!LedgerNext
  <2>7. CASE PostFailed
    BY <2>7, <2>s, <2>q, <2>w DEF PostFailed, BackendMayHaveStored, Ledger!LedgerNext
  <2>8. CASE PostRejected
    BY <2>8, <2>q DEF PostRejected
  <2>e. ASSUME committed' = events, UNCHANGED accepted
        PROVE  Ledger!Settle
    <3>1. ASSUME NEW p \in Payloads
          PROVE  /\ Verdict(events[p]) \in {"none", "failed", "sent", "dead-letter"}
                 /\ \/ Verdict(events[p]) = Verdict(committed[p])
                    \/ /\ Verdict(committed[p]) \notin {"sent", "dead-letter"}
                       /\ \/ Verdict(events[p]) \in {"failed", "dead-letter"}
                          \/ Verdict(events[p]) = "sent" /\ p \in accepted
      <4>1. events[p].status \in Statuses /\ committed[p].status \in Statuses
        BY DEF TypeOK, Event
      <4>2. events[p].status \in {"none", "pending"} => committed[p].status \in {"none", "pending"}
        BY DEF DeliveryInv, RowsKept, PendingIsNew
      <4>3. committed[p].status \in {"sent", "dead-letter"} => events[p].status = committed[p].status
        BY DEF DeliveryInv, FinalFrozen
      <4>4. events[p].status = "sent" => p \in accepted
        BY DEF DeliveryInv, SentWasAccepted
      <4> QED BY <4>1, <4>2, <4>3, <4>4 DEF Statuses, Verdict
    <3> QED BY <2>e, <3>1 DEF Ledger!Settle, Ledger!Final
  <2>9. CASE Finish
    BY <2>9, <2>e DEF Finish, wireVars, Ledger!LedgerNext
  <2>12. CASE HookRaises
    BY <2>12, <2>e DEF HookRaises, wireVars, Ledger!LedgerNext
  <2>10. CASE Crash
    BY <2>10, <2>q DEF Crash, wireVars
  <2>11. CASE UNCHANGED vars
    BY <2>11, <2>q DEF vars, wireVars
  <2> QED
    BY <2>1, <2>2, <2>3, <2>4, <2>5, <2>6, <2>7, <2>8, <2>9, <2>10, <2>11, <2>12 DEF Next, WorkerStep
<1> QED BY <1>1, <1>2, TypeCorrect, DeliveryIsSafe, PTL DEF Spec, ImplementsLedger, Ledger!LedgerSpec

-----------------------------------------------------------------------------
(* Counting *)

\* The jobs of a chunk are the valid ones and the others.
LEMMA ChunkSplits ==
  ASSUME TypeOK
  PROVE  /\ Cardinality(ValidJobs) \in Nat /\ Cardinality(chunk \ ValidJobs) \in Nat
         /\ Cardinality(chunk) \in Nat /\ Cardinality(pending) \in Nat
         /\ Cardinality(chunk) = Cardinality(ValidJobs) + Cardinality(chunk \ ValidJobs)
         /\ Cardinality(pending) = Cardinality(chunk) + Cardinality(pending \ chunk)
<1>1. IsFiniteSet(pending) /\ chunk \subseteq pending /\ ValidJobs \subseteq chunk
  BY FS_Subset DEF TypeOK, ValidJobs
<1>2. IsFiniteSet(chunk) /\ IsFiniteSet(ValidJobs) /\ IsFiniteSet(chunk \ ValidJobs)
      /\ IsFiniteSet(pending \ chunk)
  BY <1>1, FS_Subset
<1>3. Cardinality(chunk \ ValidJobs) = Cardinality(chunk) - Cardinality(chunk \cap ValidJobs)
  BY <1>2, FS_Difference
<1>4. Cardinality(pending \ chunk) = Cardinality(pending) - Cardinality(pending \cap chunk)
  BY <1>1, FS_Difference
<1>5. chunk \cap ValidJobs = ValidJobs /\ pending \cap chunk = chunk
  BY <1>1
<1>6. /\ Cardinality(ValidJobs) \in Nat /\ Cardinality(chunk \ ValidJobs) \in Nat
      /\ Cardinality(chunk) \in Nat /\ Cardinality(pending) \in Nat
      /\ Cardinality(pending \ chunk) \in Nat
  BY <1>1, <1>2, FS_CardinalityType
<1>7. Cardinality(chunk \ ValidJobs) = Cardinality(chunk) - Cardinality(ValidJobs)
  BY <1>3, <1>5, Zenon
<1>8. Cardinality(pending \ chunk) = Cardinality(pending) - Cardinality(chunk)
  BY <1>4, <1>5, Zenon
<1> QED BY <1>6, <1>7, <1>8

\* When the outcome of a chunk covers the whole chunk, counting it keeps the
\* books balanced, whether the chunk is shrunk or settled.
LEMMA ChunkDoneBalances ==
  ASSUME TypeOK, NEW s \in Nat, NEW f \in Nat, NEW r,
         s + f = Cardinality(chunk),
         tally.attempted = tally.sent + tally.failed + Cardinality(pending),
         ChunkDone(s, f, r)
  PROVE  tally'.attempted = tally'.sent + tally'.failed + Cardinality(pending')
<1>1. CASE Shrinks(s, r)
  BY <1>1 DEF ChunkDone
<1>2. CASE ~Shrinks(s, r)
  <2>1. tally' = [tally EXCEPT !.sent = @ + s, !.failed = @ + f] /\ pending' = pending \ chunk
    BY <1>2 DEF ChunkDone
  <2>2. /\ tally'.attempted = tally.attempted
        /\ tally'.sent = tally.sent + s
        /\ tally'.failed = tally.failed + f
    BY <2>1 DEF TypeOK
  <2>3. tally.sent \in Nat /\ tally.failed \in Nat /\ Cardinality(pending \ chunk) \in Nat
    <3>1. IsFiniteSet(pending \ chunk)
      BY FS_Subset DEF TypeOK
    <3> QED BY <3>1, FS_CardinalityType DEF TypeOK
  <2> QED BY <2>1, <2>2, <2>3, ChunkSplits
<1> QED BY <1>1, <1>2

\* Whatever the backend answers and however chunks shrink, every candidate of a
\* run ends up counted once, as sent or as failed.
THEOREM CountedOnce == Spec => []EachCandidateCountedOnce
<1>1. Init => EachCandidateCountedOnce
  BY DEF Init, EachCandidateCountedOnce
<1>2. TypeOK /\ TypeOK' /\ EachCandidateCountedOnce /\ [Next]_vars => EachCandidateCountedOnce'
  <2> SUFFICES ASSUME TypeOK, TypeOK', EachCandidateCountedOnce, [Next]_vars
               PROVE  EachCandidateCountedOnce'
    OBVIOUS
  <2> USE DEF EachCandidateCountedOnce
  <2>z. 0 \in Nat /\ Cardinality(chunk) \in Nat /\ 0 + Cardinality(chunk) = Cardinality(chunk)
    BY ChunkSplits
  <2>1. CASE Capture
    BY <2>1 DEF Capture
  <2>2. CASE SelectCandidates
    <3>1. PICK P \in Prefixes(Candidates, Limit) :
            pending' = P /\ tally' = [attempted |-> Cardinality(P), sent |-> 0, failed |-> 0]
      BY <2>2 DEF SelectCandidates
    <3>2. Cardinality(P) \in Nat
      BY <3>1, FS_Subset, FS_CardinalityType DEF TypeOK
    <3> QED BY <3>1, <3>2
  <2>3. CASE TakeChunk
    BY <2>3 DEF TakeChunk
  <2>4. CASE PrepareChunk
    <3>1. phase = "send"
      BY <2>4 DEF PrepareChunk
    <3>2. CASE UNCHANGED <<pending, tally>>
      BY <3>1, <3>2
    <3>3. CASE ChunkDone(0, Cardinality(chunk), FALSE)
      BY <2>z, <3>1, <3>3, ChunkDoneBalances
    <3> QED BY <2>4, <3>2, <3>3 DEF PrepareChunk
  <2>5. CASE PostAccepted
    <3>1. phase = "post" /\ ChunkDone(Cardinality(ValidJobs), Cardinality(chunk \ ValidJobs), FALSE)
      BY <2>5 DEF PostAccepted
    <3> QED BY <3>1, ChunkSplits, ChunkDoneBalances
  <2>6. CASE PostRetried
    BY <2>6 DEF PostRetried
  <2>7. CASE PostFailed
    <3>1. phase = "post" /\ ChunkDone(0, Cardinality(chunk), TRUE)
      BY <2>7 DEF PostFailed
    <3> QED BY <2>z, <3>1, ChunkDoneBalances
  <2>8. CASE PostRejected
    <3>1. phase = "post"
      BY <2>8 DEF PostRejected
    <3>2. PICK notFound \in BOOLEAN : ChunkDone(0, Cardinality(chunk), notFound)
      BY <2>8 DEF PostRejected
    <3> QED BY <2>z, <3>1, <3>2, ChunkDoneBalances
  <2>9. CASE Finish
    BY <2>9 DEF Finish
  <2>10. CASE Crash
    BY <2>10 DEF Crash
  <2>12. CASE HookRaises
    BY <2>12 DEF HookRaises
  <2>11. CASE UNCHANGED vars
    BY <2>11 DEF vars, workerVars
  <2> QED
    BY <2>1, <2>2, <2>3, <2>4, <2>5, <2>6, <2>7, <2>8, <2>9, <2>10, <2>11, <2>12 DEF Next, WorkerStep
<1> QED BY <1>1, <1>2, TypeCorrect, PTL DEF Spec

-----------------------------------------------------------------------------
(* What a run has written when its loop ends *)

\* The stage has selected its candidates and not finished.
Walking == phase \in {"next", "send", "post"}

\* The row of a job's current payload, and whether this run has written it.
Row(j) == events[Current(j)]
Owned(j) == version[j] > 0 /\ Row(j).run = run

\* Jobs that the cursor has passed, by the outcome of their row.
Done(S) == {j \in Jobs : Owned(j) /\ j \notin pending /\ Row(j).status \in S}

Decided(j) ==
  \/ Row(j).status \in {"sent", "dead-letter"}
  \/ Row(j).status = "failed" /\ (Row(j).run = run \/ Row(j).attempts >= MaxAttempts)

\* This run writes current payloads of its candidates, none of those still
\* ahead of the cursor is delivered, and those of a posted chunk are prepared.
RowsAhead ==
  /\ \A p \in Payloads : events[p].run = run => p = Current(p[1])
  /\ \A j \in pending : Row(j).status # "sent"
  /\ phase = "post" => \A j \in chunk :
       Row(j).run = run /\ (~Sendable(j) => Row(j).status = "dead-letter")

\* The counts are those of the rows behind the cursor.
TallyOfDone ==
  /\ tally.sent = Cardinality(Done({"sent"}))
  /\ tally.failed = Cardinality(Done({"failed", "dead-letter"}))

\* A run that the limit does not cut off passes over decided jobs only.
BehindDecided ==
  tally.attempted < Limit =>
    \A j \in Jobs : version[j] > 0 /\ scope[j] = run => j \in pending \/ Decided(j)

RunInv ==
  /\ \A p \in Payloads : events[p].run <= run /\ committed[p].run <= run
  /\ phase = "captured" => \A p \in Payloads : events[p].run < run
  /\ Walking => RowsAhead /\ TallyOfDone /\ BehindDecided

\* Outcomes and preparation keep or set the run of a row.
LEMMA EventRuns ==
  ASSUME NEW e \in Event, NEW limit \in Nat, run \in Nat
  PROVE  /\ Failure(e, limit).run = e.run /\ Success(e).run = e.run
         /\ Prepared(e).run = run
BY DEF Event, Failure, Success, Prepared

\* Slices that are smaller than asked for are the whole listing.
LEMMA ShortPrefix ==
  ASSUME NEW S \in SUBSET Jobs, NEW k \in Nat, NEW P \in Prefixes(S, k), Cardinality(P) < k
  PROVE  P = S
<1>1. IsFiniteSet(S) /\ P \in SUBSET S /\ Cardinality(P) = Least(k, Cardinality(S))
  BY FS_Subset DEF Prefixes
<1>2. Cardinality(S) \in Nat
  BY <1>1, FS_CardinalityType
<1>3. Cardinality(P) = Cardinality(S)
  BY <1>1, <1>2 DEF Least
<1> QED BY <1>1, <1>3, FS_Subset

\* A step of the loop touches rows of the chunk in hand only.
Touches ==
  /\ UNCHANGED stagingVars
  /\ \A p \in Payloads : events'[p] # events[p] => p[1] \in chunk /\ p = Current(p[1])
  /\ \A j \in chunk : Row(j)'.run = run

\* What such a step leaves alone, and that it starts no row of another run.
LEMMA TouchKeeps ==
  ASSUME TypeOK, RunInv, Walking, Touches, committed' = committed
  PROVE  /\ \A p \in Payloads : events'[p].run <= run /\ committed'[p].run <= run
         /\ \A p \in Payloads : events'[p].run = run => p = Current(p[1])
         /\ \A j \in Jobs : version[j] > 0 /\ j \notin chunk => Row(j)' = Row(j)
         /\ \A j : Current(j)' = Current(j) /\ Sendable(j)' = Sendable(j)
<1>0. \A j : Current(j)' = Current(j)
  BY DEF Touches, stagingVars, Current
<1>1. \A p \in Payloads : events'[p] # events[p] => p = Current(p[1]) /\ events'[p].run = run
  BY <1>0 DEF Touches, Row
<1>2. run \in Nat
  BY DEF TypeOK
<1>3. \A p \in Payloads : events'[p].run <= run /\ committed'[p].run <= run
  BY <1>1, <1>2 DEF RunInv
<1>4. \A p \in Payloads : events'[p].run = run => p = Current(p[1])
  BY <1>1 DEF RunInv, RowsAhead
<1>5. ASSUME NEW j \in Jobs, version[j] > 0, j \notin chunk PROVE Row(j)' = Row(j)
  <2>1. Current(j) \in Payloads /\ Current(j)[1] = j
    BY <1>5, CurrentType DEF Current
  <2>2. events'[Current(j)] = events[Current(j)]
    BY <1>5, <2>1 DEF Touches
  <2> QED BY <1>0, <2>2 DEF Row
<1> QED BY <1>0, <1>3, <1>4, <1>5 DEF Sendable

\* A step that leaves the cursor where it is.
LEMMA StayKeeps ==
  ASSUME TypeOK, RunInv, Walking, Touches, UNCHANGED <<committed, pending>>,
         tally' = tally, phase' \in {"next", "send", "post"},
         \A j \in pending : Row(j)'.status # "sent",
         phase' = "post" => \A j \in chunk' : Row(j)'.run = run
                              /\ (~Sendable(j) => Row(j)'.status = "dead-letter")
  PROVE  RunInv'
<1>1. \A j \in Jobs : version[j] > 0 /\ j \notin pending => Row(j)' = Row(j)
  BY TouchKeeps DEF TypeOK
<1>2. UNCHANGED <<run, version, scope, pending>>
  BY DEF Touches, stagingVars
<1>3. ASSUME NEW S PROVE Done(S)' = Done(S)
  BY <1>1, <1>2 DEF Done, Owned
<1>4. TallyOfDone'
  BY <1>3 DEF TallyOfDone, RunInv
<1>5. BehindDecided'
  BY <1>1, <1>2 DEF BehindDecided, RunInv, Decided
<1>6. RowsAhead'
  BY <1>2, TouchKeeps DEF RowsAhead
<1> QED BY <1>2, <1>4, <1>5, <1>6, TouchKeeps DEF RunInv, Walking

\* A step that moves the cursor past the chunk and counts its outcomes.
LEMMA AdvanceKeeps ==
  ASSUME TypeOK, RunInv, Walking, Touches, UNCHANGED committed,
         phase' = "next", chunk' = {}, pending' = pending \ chunk,
         NEW S \in SUBSET chunk,
         \A j \in S : Row(j)'.status = "sent",
         \A j \in chunk \ S : Row(j)'.status \in {"failed", "dead-letter"},
         tally' = [tally EXCEPT !.sent = @ + Cardinality(S),
                                !.failed = @ + Cardinality(chunk \ S)]
  PROVE  RunInv'
<1>0. /\ UNCHANGED <<run, version, scope>>
      /\ chunk \subseteq pending /\ pending \subseteq Jobs
      /\ \A j \in chunk : version[j] > 0 /\ Row(j)'.run = run
  BY DEF Touches, stagingVars, TypeOK
<1>1. \A j \in Jobs : version[j] > 0 /\ j \notin chunk => Row(j)' = Row(j)
  BY TouchKeeps
<1>2. Done({"sent"})' = Done({"sent"}) \cup S
  BY <1>0, <1>1 DEF Done, Owned
<1>3. Done({"failed", "dead-letter"})' = Done({"failed", "dead-letter"}) \cup (chunk \ S)
  BY <1>0, <1>1 DEF Done, Owned
<1>4. ASSUME NEW T, NEW C \in SUBSET chunk
      PROVE  /\ Cardinality(Done(T) \cup C) = Cardinality(Done(T)) + Cardinality(C)
             /\ Cardinality(C) \in Nat
  <2>1. IsFiniteSet(Done(T)) /\ IsFiniteSet(C) /\ Done(T) \cap C = {}
    BY <1>0, FS_Subset DEF Done
  <2>2. Cardinality(Done(T) \cup C)
          = Cardinality(Done(T)) + Cardinality(C) - Cardinality(Done(T) \cap C)
    BY <2>1, FS_Union
  <2>3. Cardinality(Done(T) \cap C) = 0
    BY <2>1, FS_EmptySet, Zenon
  <2>4. Cardinality(Done(T)) \in Nat /\ Cardinality(C) \in Nat
    BY <2>1, FS_CardinalityType
  <2> QED BY <2>2, <2>3, <2>4
<1>5. TallyOfDone'
  <2>1. /\ tally'.sent = tally.sent + Cardinality(S)
        /\ tally'.failed = tally.failed + Cardinality(chunk \ S)
    BY DEF TypeOK
  <2>2. /\ Cardinality(Done({"sent"})') = Cardinality(Done({"sent"})) + Cardinality(S)
        /\ Cardinality(Done({"failed", "dead-letter"})')
             = Cardinality(Done({"failed", "dead-letter"})) + Cardinality(chunk \ S)
    BY <1>2, <1>3, <1>4
  <2> QED BY <2>1, <2>2 DEF TallyOfDone, RunInv
<1>6. BehindDecided'
  <2> SUFFICES ASSUME tally'.attempted < Limit, NEW j \in Jobs, version[j] > 0, scope[j] = run,
                      j \notin pending'
               PROVE  Decided(j)'
    BY <1>0 DEF BehindDecided
  <2>1. tally.attempted < Limit
    BY DEF TypeOK
  <2>2. CASE j \in chunk
    BY <1>0, <2>2 DEF Decided
  <2>3. CASE j \notin chunk
    BY <1>0, <1>1, <2>1, <2>3 DEF Decided, BehindDecided, RunInv
  <2> QED BY <2>2, <2>3
<1>7. RowsAhead'
  <2>1. \A j \in pending' : Row(j)' = Row(j) /\ Row(j).status # "sent"
    BY <1>0, <1>1 DEF RowsAhead, RunInv, TypeOK
  <2>2. \A p \in Payloads : events'[p].run = run => p = Current(p[1])'
    BY TouchKeeps
  <2> QED BY <1>0, <2>1, <2>2 DEF RowsAhead
<1> QED BY <1>0, <1>5, <1>6, <1>7, TouchKeeps DEF RunInv, Walking

\* Whatever the outer loop does with the outcomes of a chunk.
LEMMA ChunkDoneKeeps ==
  ASSUME TypeOK, RunInv, Walking, Touches, UNCHANGED committed, NEW r,
         NEW S \in SUBSET chunk,
         \A j \in S : Row(j)'.status = "sent",
         \A j \in chunk \ S : Row(j)'.status \in {"failed", "dead-letter"},
         ChunkDone(Cardinality(S), Cardinality(chunk \ S), r)
  PROVE  RunInv'
<1>1. CASE Shrinks(Cardinality(S), r)
  <2>1. UNCHANGED <<pending, tally>> /\ phase' = "send"
    BY <1>1 DEF ChunkDone
  <2>2. S = {}
    <3>1. IsFiniteSet(S)
      BY FS_Subset DEF TypeOK
    <3> QED BY <1>1, <3>1, FS_EmptySet DEF Shrinks
  <2>3. \A j \in pending : Row(j)'.status # "sent"
    <3> SUFFICES ASSUME NEW j \in pending, j \notin chunk PROVE Row(j)'.status # "sent"
      BY <2>2
    <3>1. Row(j)' = Row(j)
      BY TouchKeeps DEF TypeOK
    <3> QED BY <3>1 DEF RunInv, RowsAhead
  <2> QED BY <2>1, <2>3, StayKeeps
<1>2. CASE ~Shrinks(Cardinality(S), r)
  BY <1>2, AdvanceKeeps DEF ChunkDone
<1> QED BY <1>1, <1>2

\* Preparing a chunk writes the rows of the chunk for this run: one that cannot
\* be built is dead, the others are not delivered.
LEMMA PrepareTouches ==
  ASSUME TypeOK, RunInv, PrepareChunk
  PROVE  /\ Touches /\ UNCHANGED committed
         /\ \A j \in chunk : /\ Row(j)'.status # "sent"
                             /\ ~Sendable(j) => Row(j)'.status = "dead-letter"
<1>0. /\ UNCHANGED <<run, version, scope, committed>> /\ events' = PreparedEvents
      /\ phase = "send" /\ run \in Nat
  BY DEF PrepareChunk, stagingVars, TypeOK
<1>1. \A p \in Payloads : events'[p] # events[p] => p[1] \in chunk /\ p = Current(p[1])
  BY <1>0 DEF PreparedEvents
<1>2. ASSUME NEW j \in chunk
      PROVE  /\ Row(j)'.run = run /\ Row(j)'.status # "sent"
             /\ ~Sendable(j) => Row(j)'.status = "dead-letter"
  <2> DEFINE e == events[Current(j)]
  <2>1. /\ Current(j) \in Payloads /\ Current(j)[1] = j /\ Current(j)' = Current(j)
        /\ e \in Event /\ e.status # "sent"
    <3>1. j \in Jobs /\ version[j] > 0 /\ j \in pending
      BY DEF TypeOK
    <3>2. Current(j) \in Payloads
      BY <3>1, CurrentType
    <3>3. Row(j).status # "sent"
      BY <1>0, <3>1 DEF RunInv, Walking, RowsAhead
    <3> QED BY <1>0, <3>2, <3>3 DEF Current, TypeOK, Row
  <2>2. Row(j)' = IF Current(j) \in Unsendable THEN Failure(Prepared(e), 1) ELSE Prepared(e)
    BY <1>0, <2>1 DEF PreparedEvents, Row
  <2> HIDE DEF e
  <2>3. /\ Prepared(e) \in Event /\ Prepared(e).run = run /\ Prepared(e).status # "sent"
    BY <1>0, <2>1, EventOps, EventRuns
  <2>4. Failure(Prepared(e), 1).run = run /\ Failure(Prepared(e), 1).status = "dead-letter"
    BY <1>0, <2>3, EventRuns, FailureOnce
  <2> QED BY <2>2, <2>3, <2>4 DEF Sendable
<1> QED BY <1>0, <1>1, <1>2 DEF Touches, stagingVars

\* A posted chunk: the rows of its valid jobs get an outcome, the others keep theirs.
LEMMA PostTouches ==
  ASSUME TypeOK, RunInv, phase = "post", UNCHANGED <<stagingVars, committed>>,
         NEW Outcomes, Posted \subseteq Payloads,
         \A p \in Posted : events'[p].run = events[p].run /\ events'[p].status \in Outcomes,
         \A p \in Payloads \ Posted : events'[p] = events[p]
  PROVE  /\ Touches
         /\ \A j \in ValidJobs : Row(j)'.status \in Outcomes
         /\ \A j \in chunk \ ValidJobs : Row(j)'.status = "dead-letter"
<1>0. \A j \in chunk : /\ Current(j) \in Payloads /\ Current(j)[1] = j /\ Current(j)' = Current(j)
                       /\ Row(j) \in Event /\ Row(j).run = run
                       /\ ~Sendable(j) => Row(j).status = "dead-letter"
  <2> SUFFICES ASSUME NEW j \in chunk
               PROVE  /\ Current(j) \in Payloads /\ Current(j)[1] = j /\ Current(j)' = Current(j)
                      /\ Row(j) \in Event /\ Row(j).run = run
                      /\ ~Sendable(j) => Row(j).status = "dead-letter"
    OBVIOUS
  <2>1. j \in Jobs /\ version[j] > 0
    BY DEF TypeOK
  <2>2. Current(j) \in Payloads
    BY <2>1, CurrentType
  <2>3. Row(j).run = run /\ (~Sendable(j) => Row(j).status = "dead-letter")
    BY DEF RunInv, Walking, RowsAhead
  <2> QED BY <2>2, <2>3 DEF Current, Row, TypeOK, stagingVars
<1>1. \A p \in Payloads : events'[p] # events[p] => p[1] \in chunk /\ p = Current(p[1])
  BY PostedFacts
<1>2. ASSUME NEW j \in ValidJobs PROVE Row(j)'.run = run /\ Row(j)'.status \in Outcomes /\ j \in chunk
  <2>1. Current(j) \in Posted /\ j \in chunk
    BY DEF Posted, ValidJobs
  <2> QED BY <1>0, <2>1 DEF Row
<1>3. ASSUME NEW j \in chunk \ ValidJobs PROVE Row(j)' = Row(j) /\ Row(j).status = "dead-letter"
  <2>1. ~Sendable(j) /\ Current(j) \in Unsendable
    BY DEF ValidJobs, Sendable
  <2>2. Current(j) \notin Posted
    BY <1>0, <2>1, PostedFacts
  <2> QED BY <1>0, <2>1, <2>2 DEF Row
<1>4. \A j \in chunk : Row(j)'.run = run
  BY <1>0, <1>2, <1>3
<1> QED BY <1>0, <1>1, <1>2, <1>3, <1>4 DEF Touches

\* The same when nothing of the chunk was sent.
LEMMA AllFailedKeeps ==
  ASSUME TypeOK, RunInv, Walking, Touches, UNCHANGED committed, NEW r,
         \A j \in chunk : Row(j)'.status \in {"failed", "dead-letter"},
         ChunkDone(0, Cardinality(chunk), r)
  PROVE  RunInv'
<1>1. Cardinality({}) = 0 /\ chunk \ {} = chunk /\ {} \in SUBSET chunk
  BY FS_EmptySet
<1>2. ChunkDone(Cardinality({}), Cardinality(chunk \ {}), r)
  BY <1>1
<1>3. /\ \A j \in {} : Row(j)'.status = "sent"
      /\ \A j \in chunk \ {} : Row(j)'.status \in {"failed", "dead-letter"}
  BY <1>1
<1> QED BY <1>1, <1>2, <1>3, ChunkDoneKeeps

\* A failed request: every row of the chunk is failed or dead.
LEMMA FailedKeeps ==
  ASSUME TypeOK, RunInv, phase = "post", UNCHANGED <<stagingVars, committed>>,
         NEW limit \in Nat, FailPosted(limit), NEW r, ChunkDone(0, Cardinality(chunk), r)
  PROVE  RunInv'
<1>0. Posted \subseteq Payloads /\ run \in Nat /\ \A p \in Payloads : events[p] \in Event
  BY CurrentType DEF Posted, ValidJobs, TypeOK
<1>1. /\ \A p \in Posted : /\ events'[p].run = events[p].run
                           /\ events'[p].status \in {"failed", "dead-letter"}
      /\ \A p \in Payloads \ Posted : events'[p] = events[p]
  <2>1. \A p \in Posted : events'[p] = Failure(events[p], limit)
    BY <1>0 DEF FailPosted
  <2>2. \A p \in Payloads \ Posted : events'[p] = events[p]
    BY DEF FailPosted
  <2> QED BY <1>0, <2>1, <2>2, EventOps, EventRuns
<1>2. /\ Touches
      /\ \A j \in ValidJobs : Row(j)'.status \in {"failed", "dead-letter"}
      /\ \A j \in chunk \ ValidJobs : Row(j)'.status = "dead-letter"
  BY <1>0, <1>1, PostTouches
<1>3. \A j \in chunk : Row(j)'.status \in {"failed", "dead-letter"}
  BY <1>2
<1> QED BY <1>2, <1>3, AllFailedKeeps DEF Walking

\* The start of the stage: no row is of this run yet.
LEMMA SelectStarts ==
  ASSUME TypeOK, DeliveryInv, RunInv, SelectCandidates
  PROVE  RunInv'
<1>1. PICK P \in Prefixes(Candidates, Limit) :
        pending' = P /\ tally' = [attempted |-> Cardinality(P), sent |-> 0, failed |-> 0]
  BY DEF SelectCandidates
<1>2. /\ UNCHANGED <<run, version, scope, committed, events>> /\ phase' = "next" /\ run \in Nat
      /\ \A p \in Payloads : events[p].run < run /\ events[p].run # run
  BY DEF SelectCandidates, stagingVars, TypeOK, RunInv, Event
<1>3. P \subseteq Candidates /\ Candidates \subseteq Jobs
      /\ \A j \in Candidates : version[j] > 0 /\ Current(j) \in Payloads
  BY PrefixIsSubset, CurrentType DEF Candidates
<1>4. \A p \in Payloads : events'[p].run <= run' /\ committed'[p].run <= run'
  BY <1>2 DEF RunInv
<1>5. RowsAhead'
  <2>1. \A j \in Candidates : Row(j).status # "sent"
    BY <1>3 DEF Candidates, Row, Retryable, Sendable, DeliveryInv, UnsendableNeverSent
  <2>2. \A j \in pending' : Row(j)'.status # "sent"
    BY <1>1, <1>2, <1>3, <2>1 DEF Row, Current
  <2> QED BY <1>2, <2>2 DEF RowsAhead
<1>6. TallyOfDone'
  <2>1. ASSUME NEW S PROVE Done(S)' = {}
    <3>1. \A j \in Jobs : version[j] > 0 => Row(j).run # run
      BY <1>2, CurrentType DEF Row
    <3> QED BY <1>2, <3>1 DEF Done, Owned, Row, Current
  <2>2. tally'.sent = 0 /\ tally'.failed = 0
    BY <1>1
  <2> QED BY <2>1, <2>2, FS_EmptySet DEF TallyOfDone
<1>7. BehindDecided'
  <2> SUFFICES ASSUME Cardinality(P) < Limit, NEW j \in Jobs, version[j] > 0, scope[j] = run,
                      j \notin P
               PROVE  Decided(j)
    BY <1>1, <1>2 DEF BehindDecided, Decided, Row, Current
  <2>1. j \notin Candidates
    BY <1>1, <1>3, ShortPrefix
  <2>2. Row(j) \in Event
    BY CurrentType DEF Row, TypeOK
  <2>3. Sendable(j) /\ Row(j).status # "none" /\ ~Retryable(Row(j))
    BY <2>1 DEF Candidates, Row
  <2> QED BY <2>2, <2>3 DEF Decided, Retryable, Event, Statuses
<1> QED BY <1>2, <1>4, <1>5, <1>6, <1>7 DEF RunInv

\* Every step keeps what a run has written.
LEMMA RunStep == TypeOK /\ DeliveryInv /\ RunInv /\ [Next]_vars => RunInv'
<1> SUFFICES ASSUME TypeOK, DeliveryInv, RunInv, [Next]_vars PROVE RunInv'
  OBVIOUS
<1>0. run \in Nat /\ Posted \subseteq Payloads
      /\ \A p \in Payloads : events[p] \in Event /\ committed[p] \in Event
  BY CurrentType DEF Posted, ValidJobs, TypeOK
<1>1. CASE Capture
  <2>1. run' = run + 1 /\ phase' = "captured" /\ UNCHANGED <<events, committed>>
    BY <1>1 DEF Capture
  <2> QED BY <1>0, <2>1 DEF RunInv, Walking, Event
<1>2. CASE SelectCandidates
  BY <1>2, SelectStarts
<1>3. CASE TakeChunk
  <2>1. /\ UNCHANGED <<run, version, scope, committed, events, pending, tally>>
        /\ phase = "next" /\ phase' = "send"
    BY <1>3 DEF TakeChunk, stagingVars
  <2>2. RowsAhead' /\ BehindDecided'
    BY <2>1 DEF RunInv, Walking, RowsAhead, BehindDecided, Row, Current, Decided
  <2>3. \A S : Done(S)' = Done(S)
    BY <2>1 DEF Done, Owned, Row, Current
  <2>4. TallyOfDone'
    BY <2>1, <2>3 DEF RunInv, Walking, TallyOfDone
  <2> QED BY <2>1, <2>2, <2>4 DEF RunInv
<1>4. CASE PrepareChunk
  <2>0. /\ Walking /\ Touches /\ UNCHANGED committed
        /\ \A j \in chunk : /\ Row(j)'.run = run /\ Row(j)'.status # "sent"
                            /\ ~Sendable(j) => Row(j)'.status = "dead-letter"
    BY <1>4, PrepareTouches DEF PrepareChunk, Walking, Touches
  <2>1. CASE phase' = "post" /\ UNCHANGED <<pending, chunk, chunkSize, tally>>
    <3>1. \A j \in pending : Row(j)'.status # "sent"
      <4> SUFFICES ASSUME NEW j \in pending, j \notin chunk PROVE Row(j)'.status # "sent"
        BY <2>0
      <4>1. Row(j)' = Row(j)
        BY <2>0, TouchKeeps DEF TypeOK
      <4> QED BY <2>0, <4>1 DEF RunInv, RowsAhead
    <3> QED BY <2>0, <2>1, <3>1, StayKeeps
  <2>2. CASE ValidJobs = {} /\ ChunkDone(0, Cardinality(chunk), FALSE)
    <3>1. \A j \in chunk : Row(j)'.status \in {"failed", "dead-letter"}
      BY <2>0, <2>2 DEF ValidJobs
    <3> QED BY <2>0, <2>2, <3>1, AllFailedKeeps
  <2> QED BY <1>4, <2>1, <2>2 DEF PrepareChunk
<1>5. CASE PostAccepted
  <2>1. /\ phase = "post" /\ UNCHANGED <<stagingVars, committed>> /\ ValidJobs \in SUBSET chunk
        /\ ChunkDone(Cardinality(ValidJobs), Cardinality(chunk \ ValidJobs), FALSE)
    BY <1>5 DEF PostAccepted, ValidJobs
  <2>2. /\ \A p \in Posted : events'[p].run = events[p].run /\ events'[p].status \in {"sent"}
        /\ \A p \in Payloads \ Posted : events'[p] = events[p]
    <3>1. \A p \in Posted : events'[p] = Success(events[p])
      BY <1>0, <1>5 DEF PostAccepted
    <3>2. \A p \in Payloads \ Posted : events'[p] = events[p]
      BY <1>5 DEF PostAccepted
    <3>3. \A p \in Posted : Success(events[p]).run = events[p].run /\ Success(events[p]).status = "sent"
      <4>1. 0 \in Nat
        OBVIOUS
      <4> QED BY <1>0, <4>1, EventOps, EventRuns
    <3> QED BY <3>1, <3>2, <3>3
  <2>3. /\ Touches
        /\ \A j \in ValidJobs : Row(j)'.status \in {"sent"}
        /\ \A j \in chunk \ ValidJobs : Row(j)'.status = "dead-letter"
    BY <1>0, <2>1, <2>2, PostTouches
  <2> QED BY <2>1, <2>3, ChunkDoneKeeps DEF Walking
<1>6. CASE PostRetried
  <2>1. UNCHANGED <<run, version, scope, committed, events, pending, chunk, tally, phase>>
    BY <1>6 DEF PostRetried, stagingVars
  <2> QED BY <2>1
      DEF RunInv, Walking, RowsAhead, TallyOfDone, BehindDecided, Done, Owned, Row, Current, Sendable, Decided
<1>7. CASE PostFailed
  <2>1. MaxAttempts \in Nat
    OBVIOUS
  <2> QED BY <1>7, <2>1, FailedKeeps DEF PostFailed
<1>8. CASE PostRejected
  <2>1. PICK notFound \in BOOLEAN :
          /\ FailPosted(IF notFound THEN MaxAttempts ELSE 1)
          /\ ChunkDone(0, Cardinality(chunk), notFound)
    BY <1>8 DEF PostRejected
  <2>2. (IF notFound THEN MaxAttempts ELSE 1) \in Nat
    OBVIOUS
  <2> QED BY <1>8, <2>1, <2>2, FailedKeeps DEF PostRejected
<1>9. CASE Finish \/ Crash \/ HookRaises
  <2>1. /\ phase' = "idle" /\ run' = run
        /\ events' \in {events, committed} /\ committed' \in {events, committed}
    BY <1>9 DEF Finish, Crash, HookRaises, stagingVars
  <2> QED BY <2>1 DEF RunInv, Walking
<1>10. CASE UNCHANGED vars
  BY <1>10
  DEF vars, stagingVars, workerVars, RunInv, Walking, RowsAhead, TallyOfDone, BehindDecided, Done,
      Owned, Row, Current, Sendable, Decided
<1> QED
  BY <1>1, <1>2, <1>3, <1>4, <1>5, <1>6, <1>7, <1>8, <1>9, <1>10 DEF Next, WorkerStep

\* No row is written initially.
LEMMA RunInit == Init => RunInv
BY DEF Init, NoEvent, RunInv, Walking

\* What a run has written is an invariant.
LEMMA RunInvariant == Spec => [](TypeOK /\ DeliveryInv /\ RunInv)
<1>1. TypeOK /\ DeliveryInv /\ RunInv /\ [Next]_vars => RunInv'
  BY RunStep
<1> QED BY <1>1, RunInit, TypeCorrect, DeliveryIsSafe, PTL DEF Spec

\* The rows of a run are the rows of the jobs it wrote.
LEMMA RowsAreJobs ==
  ASSUME TypeOK, \A p \in Payloads : events[p].run = run => p = Current(p[1]), NEW S
  PROVE  Cardinality(RowsOfRun(S))
           = Cardinality({j \in Jobs : Owned(j) /\ Row(j).status \in S})
<1> DEFINE J == {j \in Jobs : Owned(j) /\ Row(j).status \in S}
           f == [j \in J |-> Current(j)]
<1>1. \A j \in J : f[j] \in RowsOfRun(S) /\ f[j][1] = j
  <2> SUFFICES ASSUME NEW j \in J PROVE Current(j) \in RowsOfRun(S) /\ Current(j)[1] = j
    OBVIOUS
  <2>1. Current(j) \in Payloads
    BY CurrentType DEF Owned
  <2> QED BY <2>1 DEF RowsOfRun, Owned, Row, Current
<1>2. ASSUME NEW p \in RowsOfRun(S) PROVE p[1] \in J /\ f[p[1]] = p
  <2>1. p \in Payloads /\ events[p].run = run /\ events[p].status \in S /\ p = Current(p[1])
    BY DEF RowsOfRun
  <2>2. p[1] \in Jobs /\ p[2] \in 1..MaxVersion /\ p = <<p[1], p[2]>>
    BY <2>1 DEF Payloads
  <2>3. version[p[1]] = p[2]
    BY <2>1, <2>2 DEF Current
  <2>4. p[1] \in J
    BY <2>1, <2>2, <2>3 DEF Owned, Row
  <2> QED BY <2>1, <2>4
<1>3. IsFiniteSet(J)
  BY FS_Subset
<1>4. f \in [J -> RowsOfRun(S)]
  BY <1>1
<1>5. \A i, j \in J : f[i] = f[j] => i = j
  BY <1>1
<1>6. \A p \in RowsOfRun(S) : \E j \in J : f[j] = p
  BY <1>2
<1> HIDE DEF f, J
<1>7. f \in Bijection(J, RowsOfRun(S))
  BY <1>4, <1>5, <1>6 DEF Bijection, Injection, Surjection, IsInjective
<1>8. ExistsBijection(J, RowsOfRun(S))
  BY <1>7 DEF ExistsBijection
<1>9. Cardinality(RowsOfRun(S)) = Cardinality(J)
  BY <1>3, <1>8, FS_Bijection
<1> QED BY <1>9 DEF J

\* When the loop ends, what the stage reports is what it wrote, although a
\* chunk that shrinks is attempted, and its rows are written, several times.
THEOREM TallyIsRows == Spec => []TallyMatchesRows
<1>1. TypeOK /\ RunInv => TallyMatchesRows
  <2> SUFFICES ASSUME TypeOK, RunInv, phase = "next", pending = {}
               PROVE  /\ tally.sent = Cardinality(RowsOfRun({"sent"}))
                      /\ tally.failed = Cardinality(RowsOfRun({"failed", "dead-letter"}))
    BY DEF TallyMatchesRows
  <2>1. RowsAhead /\ TallyOfDone
    BY DEF RunInv, Walking
  <2>2. \A S : Cardinality(RowsOfRun(S)) = Cardinality({j \in Jobs : Owned(j) /\ Row(j).status \in S})
    BY <2>1, RowsAreJobs DEF RowsAhead
  <2>3. \A S : Done(S) = {j \in Jobs : Owned(j) /\ Row(j).status \in S}
    BY DEF Done
  <2> QED BY <2>1, <2>2, <2>3 DEF TallyOfDone
<1> QED BY <1>1, RunInvariant, PTL

\* A run that its limit does not cut off commits a decision for every job of
\* its scope.
THEOREM NoneIsLeftBehind == Spec => NoneLeftBehind
<1> DEFINE Decides ==
      Finish /\ tally.attempted < Limit =>
        \A j \in Jobs :
          version[j] > 0 /\ scope[j] = run =>
            LET e == committed'[Current(j)]
            IN  \/ e.status \in {"sent", "dead-letter"}
                \/ e.status = "failed" /\ (e.run = run \/ e.attempts >= MaxAttempts)
<1>1. RunInv => Decides
  BY DEF RunInv, Walking, BehindDecided, Decided, Row, Finish
<1> HIDE DEF Decides
<1>2. Spec => [][Decides]_vars
  BY <1>1, RunInvariant, PTL DEF Spec
<1> QED BY <1>2 DEF NoneLeftBehind, Decides

-----------------------------------------------------------------------------
(* Progress of the chunk loop *)

\* What is left of the loop: jobs ahead of the cursor, jobs of the chunk in hand
\* (none is in hand before a chunk is taken: more than any chunk), and answers
\* that the chunk may still get.
InLoop == phase \in {"next", "send", "post"}
JobsLeft == Cardinality(pending)
ChunkLeft == IF phase = "next" THEN Cardinality(pending) + 1 ELSE Cardinality(chunk)
AnswersLeft == IF phase = "post" THEN MaxRetries + 1 - tries ELSE MaxRetries + 2

\* The next state has less of it left, in the order of the dictionary.
LoopShrinks ==
  \/ JobsLeft' < JobsLeft
  \/ JobsLeft' = JobsLeft /\ ChunkLeft' < ChunkLeft
  \/ JobsLeft' = JobsLeft /\ ChunkLeft' = ChunkLeft /\ AnswersLeft' < AnswersLeft

ChunkHeld == phase \in {"send", "post"} => chunk # {}

\* A slice of a listing has as many jobs as it should, if there are so many.
LEMMA PrefixSize ==
  ASSUME NEW S, IsFiniteSet(S), S # {}, NEW k \in Nat \ {0}, NEW P \in Prefixes(S, k)
  PROVE  IsFiniteSet(P) /\ P # {} /\ Cardinality(P) = Least(k, Cardinality(S))
<1>1. P \subseteq S /\ Cardinality(P) = Least(k, Cardinality(S))
  BY DEF Prefixes
<1>2. IsFiniteSet(P)
  BY <1>1, FS_Subset
<1>3. Cardinality(S) \in Nat /\ Cardinality(S) # 0
  BY FS_CardinalityType, FS_EmptySet
<1>4. Cardinality(P) # 0
  BY <1>1, <1>3 DEF Least
<1>5. P # {}
  BY <1>4, FS_EmptySet
<1> QED BY <1>1, <1>2, <1>5

LEMMA LoopSizes ==
  ASSUME TypeOK
  PROVE  /\ IsFiniteSet(pending) /\ IsFiniteSet(chunk) /\ chunk \subseteq pending
         /\ Cardinality(pending) \in Nat /\ Cardinality(chunk) \in Nat
         /\ Cardinality(chunk) <= Cardinality(pending)
         /\ HalvedSize \in Nat \ {0} /\ chunkSize \in Nat \ {0} /\ tries \in Nat
<1>1. pending \subseteq Jobs /\ chunk \subseteq pending
  BY DEF TypeOK
<1>2. IsFiniteSet(pending) /\ IsFiniteSet(chunk)
  BY <1>1, FS_Subset
<1>3. Cardinality(chunk) <= Cardinality(pending)
  BY <1>1, <1>2, FS_Subset
<1>4. Cardinality(pending) \in Nat /\ Cardinality(chunk) \in Nat
  BY <1>2, FS_CardinalityType
<1>5. HalvedSize \in Nat \ {0}
  BY <1>1, SizesPositive
<1>6. chunkSize \in Nat \ {0} /\ tries \in Nat
  BY DEF TypeOK
<1> QED BY <1>1, <1>2, <1>3, <1>4, <1>5, <1>6

\* What a chunk was attempted for is settled, or is halved.
LEMMA ChunkShrinks ==
  ASSUME TypeOK, TypeOK', ChunkHeld, phase \in {"send", "post"}, NEW s, NEW f, NEW r, ChunkDone(s, f, r)
  PROVE  /\ chunk' # {} \/ phase' = "next"
         /\ LoopShrinks
<1>1. CASE Shrinks(s, r)
  <2>1. /\ chunk' \in Prefixes(chunk, HalvedSize) /\ phase' = "send" /\ pending' = pending
        /\ Cardinality(chunk) > MinBatch
    BY <1>1 DEF ChunkDone, Shrinks
  <2>2. chunk' # {} /\ Cardinality(chunk') = Least(HalvedSize, Cardinality(chunk))
    BY <2>1, LoopSizes, PrefixSize DEF ChunkHeld
  <2>3. HalvedSize < Cardinality(chunk)
    BY <2>1, LoopSizes DEF HalvedSize, Greatest
  <2>4. Cardinality(chunk') < Cardinality(chunk)
    BY <2>2, <2>3, LoopSizes DEF Least
  <2>5. JobsLeft' = JobsLeft /\ ChunkLeft' < ChunkLeft
    BY <2>1, <2>4 DEF JobsLeft, ChunkLeft
  <2> QED BY <2>2, <2>5 DEF LoopShrinks
<1>2. CASE ~Shrinks(s, r)
  <2>1. pending' = pending \ chunk /\ phase' = "next"
    BY <1>2 DEF ChunkDone
  <2>2. Cardinality(pending') < Cardinality(pending)
    <3>1. pending' \subseteq pending /\ pending' # pending
      BY <2>1, LoopSizes DEF ChunkHeld
    <3>2. Cardinality(pending') <= Cardinality(pending) /\ Cardinality(pending') # Cardinality(pending)
      BY <3>1, LoopSizes, FS_Subset
    <3>3. Cardinality(pending') \in Nat
      BY <3>1, LoopSizes, FS_Subset, FS_CardinalityType
    <3> QED BY <3>2, <3>3, LoopSizes
  <2> QED BY <2>1, <2>2 DEF LoopShrinks, JobsLeft
<1> QED BY <1>1, <1>2

LEMMA LoopStep ==
  ASSUME TypeOK, TypeOK', ChunkHeld, [Next]_vars
  PROVE  ChunkHeld' /\ (InLoop /\ InLoop' /\ vars' # vars => LoopShrinks)
<1> USE DEF ChunkHeld, InLoop
<1>1. CASE Capture
  BY <1>1 DEF Capture
<1>2. CASE SelectCandidates
  BY <1>2 DEF SelectCandidates
<1>3. CASE TakeChunk
  <2>1. /\ phase = "next" /\ phase' = "send" /\ pending' = pending /\ pending # {}
        /\ chunk' \in Prefixes(pending, chunkSize)
    BY <1>3 DEF TakeChunk
  <2>2. chunk' # {} /\ Cardinality(chunk') = Least(chunkSize, Cardinality(pending))
    BY <2>1, LoopSizes, PrefixSize
  <2>3. Cardinality(chunk') < Cardinality(pending) + 1
    BY <2>2, LoopSizes DEF Least
  <2>4. JobsLeft' = JobsLeft /\ ChunkLeft' < ChunkLeft
    BY <2>1, <2>3 DEF JobsLeft, ChunkLeft
  <2> QED BY <2>2, <2>4 DEF LoopShrinks
<1>4. CASE PrepareChunk
  <2>1. CASE phase' = "post" /\ UNCHANGED <<pending, chunk>>
    <3>1. phase = "send" /\ tries' = 0
      BY <1>4 DEF PrepareChunk
    <3>2. JobsLeft' = JobsLeft /\ ChunkLeft' = ChunkLeft
      BY <2>1, <3>1 DEF JobsLeft, ChunkLeft
    <3>3. AnswersLeft' < AnswersLeft
      BY <2>1, <3>1 DEF AnswersLeft
    <3> QED BY <2>1, <3>1, <3>2, <3>3 DEF LoopShrinks
  <2>2. CASE ChunkDone(0, Cardinality(chunk), FALSE)
    BY <1>4, <2>2, ChunkShrinks DEF PrepareChunk
  <2> QED BY <1>4, <2>1, <2>2 DEF PrepareChunk
<1>5. CASE PostAccepted
  BY <1>5, ChunkShrinks DEF PostAccepted
<1>6. CASE PostRetried
  <2>1. /\ phase = "post" /\ phase' = "post" /\ pending' = pending /\ chunk' = chunk
        /\ tries' = tries + 1
    BY <1>6 DEF PostRetried
  <2>2. JobsLeft' = JobsLeft /\ ChunkLeft' = ChunkLeft
    BY <2>1 DEF JobsLeft, ChunkLeft
  <2>3. AnswersLeft' < AnswersLeft
    BY <2>1, LoopSizes DEF AnswersLeft
  <2> QED BY <2>1, <2>2, <2>3 DEF LoopShrinks
<1>7. CASE PostFailed
  BY <1>7, ChunkShrinks DEF PostFailed
<1>8. CASE PostRejected
  BY <1>8, ChunkShrinks DEF PostRejected
<1>9. CASE Finish
  BY <1>9 DEF Finish
<1>10. CASE Crash \/ HookRaises
  BY <1>10 DEF Crash, HookRaises
<1>11. CASE UNCHANGED vars
  BY <1>11 DEF vars, workerVars
<1> QED BY <1>1, <1>2, <1>3, <1>4, <1>5, <1>6, <1>7, <1>8, <1>9, <1>10, <1>11 DEF Next, WorkerStep

\* However requests fail, are retried and halved, each step of the chunk loop
\* leaves less of it: jobs ahead of the cursor, then jobs of the chunk, then
\* answers to it.  These are natural numbers, so that a loop that is not cut off ends.
THEOREM LoopAlwaysShrinks ==
  Spec => [][InLoop /\ InLoop' => LoopShrinks]_vars
<1>1. Init => ChunkHeld
  BY DEF Init, ChunkHeld
<1>2. TypeOK /\ TypeOK' /\ ChunkHeld /\ [Next]_vars =>
        ChunkHeld' /\ [InLoop /\ InLoop' => LoopShrinks]_vars
  BY LoopStep
<1> QED BY <1>1, <1>2, TypeCorrect, PTL DEF Spec

=============================================================================

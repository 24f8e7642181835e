------------------------ MODULE NormalizeStageProofs ------------------------
(* Proofs about NormalizeStage: its type invariant; that a row the gate can  *)
(* find is neither normalized twice nor normalized and held; that a closed   *)
(* stage counted every row once and left it in the store as it counted it;   *)
(* and the measure by which a stage comes to its end.                        *)
EXTENDS NormalizeStage, FiniteSetTheorems, TLAPS

\* Rows that the stage may still write or reject.
Pending == left \cup batch \cup prompts \cup asked

\* Which lists are in use where, and that no row is in two of them.
Shape ==
  /\ pc # "idle" => stage \in 1..MaxStages
  /\ pc \in {"idle", "gate", "close"} => left = {} /\ work = db
  /\ pc \notin {"prepare", "record"} => batch = {} /\ prompts = {}
  /\ pc # "record" => asked = {}
  /\ pc = "record" => batch = {}
  /\ left \cap (batch \cup prompts \cup asked) = {}
  /\ batch \cap prompts = {} /\ prompts \cap asked = {}

\* A store in which the rows of P are not normalized, nor any held row.
Sound(d, P) ==
  /\ ~Quarantine => d.held = {}
  /\ \A r \in Lower : r \in d.held => d.norm[r] = 0
  /\ \A r \in Lower : r \in P => d.norm[r] = 0

\* The session sees what is committed.
Agree(d, w) == \A r \in Lower : d.norm[r] # 0 => w.norm[r] = d.norm[r]

IInv == /\ TypeOK
        /\ Shape
        /\ Sound(db, Pending) /\ Sound(work, Pending)
        /\ Agree(db, work)

-----------------------------------------------------------------------------
(* The operations on a store *)

\* Sound is antitone in its set of rows.
LEMMA SoundSubset ==
  ASSUME NEW d, NEW P, NEW Q, Q \subseteq P, Sound(d, P)
  PROVE  Sound(d, Q)
  BY DEF Sound

\* Writing a row keeps the store's shape and changes one entry.
LEMMA WriteStore ==
  ASSUME NEW d \in Store, NEW r \in Rows, stage \in 1..MaxStages, MaxStages \in Nat
  PROVE  /\ Write(d, r) \in Store
         /\ Write(d, r).held = d.held
         /\ \A t \in Rows \ {r} : Write(d, r).norm[t] = d.norm[t]
  <1>1. stage \in 0..MaxStages
    OBVIOUS
  <1>2. [d.norm EXCEPT ![r] = stage] \in [Rows -> 0..MaxStages]
    BY <1>1 DEF Store
  <1>3. Write(d, r) = [d EXCEPT !.norm = [d.norm EXCEPT ![r] = stage]]
    BY DEF Write, Store
  <1> QED BY <1>2, <1>3 DEF Store

\* A log entry leaves rows and quarantine records alone.
LEMMA LogStore ==
  ASSUME NEW d \in Store, NEW r \in Rows, NEW s \in {"success", "failed"},
         stage \in 1..MaxStages
  PROVE  /\ Log(d, r, s) \in Store
         /\ Log(d, r, s).norm = d.norm /\ Log(d, r, s).held = d.held
  <1>1. <<r, stage, s>> \in Rows \X (1..MaxStages) \X {"success", "failed"}
    OBVIOUS
  <1>2. d.logs \cup {<<r, stage, s>>}
          \in SUBSET (Rows \X (1..MaxStages) \X {"success", "failed"})
    BY <1>1 DEF Store
  <1> QED BY <1>2 DEF Log, Store

\* Writing a pending row and closing its quarantine record.
LEMMA WriteRelease ==
  ASSUME NEW d \in Store, NEW P, NEW r \in Rows, Sound(d, P), Agree(db, d),
         r \in Lower => db.norm[r] = 0, stage \in 1..MaxStages, MaxStages \in Nat,
         NEW e \in {Write(d, r), Log(Write(d, r), r, "success")}
  PROVE  /\ Release(e, r) \in Store
         /\ Sound(Release(e, r), P \ {r})
         /\ Agree(db, Release(e, r))
  <1>1. e \in Store /\ e.held = d.held /\ \A t \in Rows \ {r} : e.norm[t] = d.norm[t]
    <2> DEFINE w == Write(d, r)
    <2>1. w \in Store /\ w.held = d.held /\ \A t \in Rows \ {r} : w.norm[t] = d.norm[t]
      BY WriteStore
    <2>2. CASE e = w
      BY <2>1, <2>2
    <2>3. CASE e = Log(w, r, "success")
      <3> HIDE DEF w
      <3>1. Log(w, r, "success") \in Store /\ Log(w, r, "success").norm = w.norm
            /\ Log(w, r, "success").held = w.held
        BY <2>1, LogStore
      <3> QED BY <2>1, <2>3, <3>1
    <2> QED BY <2>2, <2>3
  <1>2. /\ Release(e, r) \in Store /\ Sound(Release(e, r), P \ {r})
        /\ \A t \in Rows \ {r} : Release(e, r).norm[t] = d.norm[t]
    <2>1. CASE Quarantine
      <3>1. Release(e, r) = [e EXCEPT !.held = e.held \ {r}]
        BY <2>1 DEF Release
      <3>2. Release(e, r) \in Store /\ Release(e, r).norm = e.norm
            /\ Release(e, r).held = d.held \ {r}
        BY <1>1, <3>1 DEF Store
      <3> QED BY <1>1, <2>1, <3>2, KeysAssumption DEF Sound
    <2>2. CASE ~Quarantine
      BY <1>1, <2>2, KeysAssumption DEF Release, Sound
    <2> QED BY <2>1, <2>2
  <1> QED BY <1>2, KeysAssumption DEF Agree

\* Quarantining a pending row, and logging, leave the normalized rows alone.
LEMMA HoldLog ==
  ASSUME NEW d \in Store, NEW P, NEW r \in Rows, r \in P, Sound(d, P),
         stage \in 1..MaxStages, MaxStages \in Nat
  PROVE  /\ Hold(d, r) \in Store /\ Sound(Hold(d, r), P)
         /\ Hold(d, r).norm = d.norm
         /\ \A s \in {"success", "failed"} :
              /\ Log(d, r, s) \in Store /\ Sound(Log(d, r, s), P)
              /\ Log(d, r, s).norm = d.norm
  <1>1. Hold(d, r) \in Store /\ Hold(d, r).norm = d.norm
    BY DEF Hold, Store
  <1>2. Sound(Hold(d, r), P)
    BY DEF Hold, Store, Sound
  <1>3. \A s \in {"success", "failed"} :
           Log(d, r, s) \in Store /\ Log(d, r, s).norm = d.norm
    BY LogStore
  <1>4. \A s \in {"success", "failed"} : Sound(Log(d, r, s), P)
    BY LogStore DEF Sound
  <1> QED BY <1>1, <1>2, <1>3, <1>4

\* Closing a record keeps a store sound.
LEMMA ReleaseSound ==
  ASSUME NEW d \in Store, NEW P, NEW r \in Rows, Sound(d, P)
  PROVE  /\ Release(d, r) \in Store /\ Sound(Release(d, r), P)
         /\ Release(d, r).norm = d.norm
  BY DEF Release, Store, Sound

-----------------------------------------------------------------------------
(* What the outcomes of a row have in common *)

\* The session after an outcome of row r, and the counts.
Settled(r) ==
  /\ work' \in Store
  /\ Sound(work', Pending \ {r})
  /\ Agree(db, work')
  /\ tally' \in Count
  /\ outcome' \in [Rows -> {"none", "normalized", "failed"}]
  /\ reconnects' \in Nat /\ dropped' \in BOOLEAN

\* Both counts stay counts.
LEMMA Counts ==
  ASSUME NEW r \in Rows, TypeOK, CountSuccess(r) \/ CountFailure(r)
  PROVE  tally' \in Count /\ outcome' \in [Rows -> {"none", "normalized", "failed"}]
  <1>0. /\ tally \in [fetched : Nat, normalized : Nat, skipped : Nat, errors : Nat]
        /\ outcome \in [Rows -> {"none", "normalized", "failed"}]
    BY DEF TypeOK, Count
  <1>1. CASE CountSuccess(r)
    BY <1>0, <1>1 DEF CountSuccess, Count
  <1>2. CASE CountFailure(r)
    <2>1. tally.skipped + 1 \in Nat /\ tally.errors + 1 \in Nat
      BY <1>0
    <2>2. tally' = [tally EXCEPT !.skipped = tally.skipped + 1,
                                 !.errors = tally.errors + 1]
      BY <1>2 DEF CountFailure
    <2>3. tally' \in Count
      BY <1>0, <2>1, <2>2 DEF Count
    <2> QED BY <1>0, <1>2, <2>3 DEF CountFailure
  <1> QED BY <1>1, <1>2

\* What a lost connection leaves of the session is a store like any other.
LEMMA Bases ==
  ASSUME IInv, NEW base \in {work, db}
  PROVE  base \in Store /\ Sound(base, Pending) /\ Agree(db, base)
  BY DEF IInv, TypeOK, Agree

\* Each outcome settles its row.
LEMMA Outcomes ==
  ASSUME IInv, NEW r \in Rows, r \in Pending, stage \in 1..MaxStages,
         \/ WriteMapped(r) \/ RejectRow(r) \/ WriteTwiceLost(r)
         \/ RecordJob(r) \/ RecordError(r)
  PROVE  Settled(r)
  <1> USE SwitchesAssumption
  <1>t. TypeOK /\ Sound(work, Pending) /\ Sound(db, Pending) /\ Agree(db, work)
        /\ work \in Store /\ db \in Store
    BY DEF IInv, TypeOK
  <1>c. tally' \in Count /\ outcome' \in [Rows -> {"none", "normalized", "failed"}]
    BY <1>t, Counts DEF WriteMapped, RejectRow, WriteTwiceLost, RecordJob, RecordError
  <1>l. reconnects' \in Nat /\ dropped' \in BOOLEAN
    <2>1. reconnects' = reconnects \/ reconnects' = reconnects + 1
      BY DEF WriteMapped, RejectRow, WriteTwiceLost, RecordJob, RecordError,
             Retried, lineVars
    <2>2. \/ dropped' = dropped
          \/ dropped' = (dropped \/ work # db)
          \/ dropped' = TRUE
          \/ dropped' = (dropped \/ Hold(work, r) # db)
      BY Zenon DEF WriteMapped, RejectRow, WriteTwiceLost, RecordJob, RecordError,
             Retried, lineVars
    <2>3. dropped' \in BOOLEAN
      BY <2>2, <1>t, Zenon DEF TypeOK
    <2> QED BY <2>1, <2>3, <1>t DEF TypeOK
  <1>s. Pending \ {r} \subseteq Pending
    OBVIOUS
  <1>z. r \in Lower => db.norm[r] = 0
    BY <1>t DEF Sound
  <1>w. work' \in Store /\ Sound(work', Pending \ {r}) /\ Agree(db, work')
    <2>1. CASE WriteMapped(r)
      <3>1. PICK base \in {work, db} : work' = Release(Write(base, r), r)
        BY <2>1 DEF WriteMapped
      <3>2. base \in Store /\ Sound(base, Pending) /\ Agree(db, base)
        BY Bases
      <3> QED BY <3>1, <3>2, <1>z, WriteRelease
    <2>2. CASE RejectRow(r)
      <3>1. work' = Hold(work, r)
        BY <2>2 DEF RejectRow
      <3>2. Hold(work, r) \in Store /\ Sound(Hold(work, r), Pending)
            /\ Hold(work, r).norm = work.norm
        BY <1>t, HoldLog
      <3> QED BY <3>1, <3>2, <1>t, <1>s, SoundSubset DEF Agree
    <2>3. CASE WriteTwiceLost(r)
      <3>1. work' = Hold(db, r)
        BY <2>3 DEF WriteTwiceLost
      <3>2. Hold(db, r) \in Store /\ Sound(Hold(db, r), Pending)
            /\ Hold(db, r).norm = db.norm
        BY <1>t, HoldLog
      <3> QED BY <3>1, <3>2, <1>t, <1>s, SoundSubset DEF Agree
    <2>4. CASE RecordJob(r)
      <3>1. CASE \E base \in {work, db} :
                    work' = Release(Log(Write(base, r), r, "success"), r)
        <4>1. PICK base \in {work, db} :
                    work' = Release(Log(Write(base, r), r, "success"), r)
          BY <3>1
        <4>2. base \in Store /\ Sound(base, Pending) /\ Agree(db, base)
          BY Bases
        <4> QED BY <4>1, <4>2, <1>z, WriteRelease
      <3>2. CASE work' = Release(Log(db, r, "success"), r)
        <4> DEFINE d == Log(db, r, "success")
        <4>1. d \in Store /\ Sound(d, Pending) /\ d.norm = db.norm
          BY <1>t, HoldLog
        <4>2. Release(d, r) \in Store /\ Sound(Release(d, r), Pending)
              /\ Release(d, r).norm = d.norm
          BY <4>1, ReleaseSound
        <4> QED BY <3>2, <4>1, <4>2, SoundSubset DEF Agree
      <3> QED BY <2>4, <3>1, <3>2 DEF RecordJob
    <2>5. CASE RecordError(r)
      <3>1. CASE work' = Log(Hold(work, r), r, "failed")
        <4> DEFINE d == Hold(work, r)
        <4>1. d \in Store /\ Sound(d, Pending) /\ d.norm = work.norm
          BY <1>t, HoldLog
        <4>2. Log(d, r, "failed") \in Store /\ Sound(Log(d, r, "failed"), Pending)
              /\ Log(d, r, "failed").norm = d.norm
          BY <4>1, HoldLog
        <4> QED BY <3>1, <4>1, <4>2, <1>t, SoundSubset DEF Agree
      <3>2. CASE work' = Log(db, r, "failed")
        BY <3>2, <1>t, HoldLog, SoundSubset DEF Agree
      <3> QED BY <2>5, <3>1, <3>2 DEF RecordError
    <2> QED BY <2>1, <2>2, <2>3, <2>4, <2>5
  <1> QED BY <1>c, <1>l, <1>w DEF Settled

-----------------------------------------------------------------------------
(* The inductive invariant *)

\* A row that is eligible is not normalized as far as the gate can find.
LEMMA EligibleIsNew ==
  ASSUME NEW known, NEW r \in Lower, r \in Eligible(known), TypeOK
  PROVE  work.norm[r] = 0
  <1>1. Found(r) = {}
    BY DEF Eligible, Decide, ExistingReason
  <1>2. work.norm[r] # 0 => r \in Found(r)
    BY DEF Found
  <1> QED BY <1>1, <1>2

\* Every decision is one of the reasons.
LEMMA DecisionType == ASSUME NEW known, NEW r PROVE Decide(r, known) \in Reasons
  BY DEF Decide, ExistingReason, Reasons

\* The sizes of the stage's row sets are numbers.
LEMMA Sizes == \A S \in SUBSET Rows : Cardinality(S) \in Nat
  BY RowsAssumption, FS_Subset, FS_CardinalityType

\* The invariant holds initially.
LEMMA InitIInv == Init => IInv
  <1> SUFFICES ASSUME Init PROVE IInv
    OBVIOUS
  <1>1. db \in Store /\ work \in Store
    BY SwitchesAssumption DEF Init, Store
  <1>2. TypeOK
    <2>1. sync \in [Rows -> SyncStates] /\ pc \in Places /\ tally \in Count
      BY DEF Init, SyncStates, Places, Count, NoCount
    <2>2. outcome \in [Rows -> {"none", "normalized", "failed"}]
      BY DEF Init
    <2>3. stage \in 0..MaxStages /\ reconnects \in Nat /\ dropped \in BOOLEAN
      <3>1. stage = 0 /\ reconnects = 0 /\ dropped = FALSE
        BY DEF Init
      <3>2. 0 \in 0..MaxStages /\ 0 \in Nat
        BY SwitchesAssumption
      <3>3. dropped \in BOOLEAN
        BY <3>1, Zenon
      <3> QED BY <3>1, <3>2, <3>3
    <2> HIDE DEF Init
    <2>4. /\ mode \in Modes /\ status = "none" /\ scope = {} /\ backend = {}
          /\ left = {} /\ batch = {} /\ prompts = {} /\ asked = {} /\ good = {}
      BY DEF Init
    <2> QED BY <1>1, <2>1, <2>2, <2>3, <2>4 DEF TypeOK
  <1>3. Shape
    BY DEF Init, Shape
  <1>4. Sound(db, Pending) /\ Sound(work, Pending) /\ Agree(db, work)
    BY DEF Init, Sound, Agree, Pending
  <1> QED BY <1>2, <1>3, <1>4 DEF IInv

\* A commit, or a commit that is repeated after a rollback.
LEMMA CommitKeeps ==
  ASSUME IInv, CommitProgress
  PROVE  /\ db' \in Store /\ work' \in Store
         /\ Sound(db', Pending) /\ Sound(work', Pending) /\ Agree(db', work')
         /\ reconnects' \in Nat /\ dropped' \in BOOLEAN
         /\ Agree(db, db')
  <1>t. TypeOK /\ Sound(work, Pending) /\ Sound(db, Pending) /\ Agree(db, work)
        /\ work \in Store /\ db \in Store
    BY DEF IInv, TypeOK
  <1>1. CASE db' = work /\ UNCHANGED <<work, lineVars>>
    BY <1>1, <1>t DEF lineVars, TypeOK, Agree
  <1>2. CASE /\ work' = db /\ reconnects' = reconnects + 1
             /\ dropped' = (dropped \/ work # db) /\ UNCHANGED db
    <2>1. reconnects' \in Nat /\ db' \in Store /\ work' \in Store
      BY <1>2, <1>t DEF TypeOK
    <2>2. dropped' \in BOOLEAN
      BY <1>2, <1>t, Zenon DEF TypeOK
    <2> QED BY <1>2, <1>t, <2>1, <2>2 DEF Agree
  <1> QED BY <1>1, <1>2 DEF CommitProgress

\* Every step keeps the invariant.
LEMMA StepIInv == IInv /\ [Next]_vars => IInv'
  <1> USE SwitchesAssumption
  <1> SUFFICES ASSUME IInv, [Next]_vars PROVE IInv'
    OBVIOUS
  <1>t. /\ TypeOK /\ Shape
        /\ Sound(work, Pending) /\ Sound(db, Pending) /\ Agree(db, work)
    BY DEF IInv
  <1>1. ASSUME NEW m \in Modes, NEW S \in SUBSET Rows, StartStage(m, S) PROVE IInv'
    <2>1. TypeOK'
      <3>1. tally' \in Count
        BY <1>1, Sizes DEF StartStage, NoCount, Count
      <3>2. stage' \in 0..MaxStages
        BY <1>t, <1>1 DEF StartStage, TypeOK
      <3> QED BY <1>t, <1>1, <3>1, <3>2
          DEF StartStage, TypeOK, storeVars, worldVars, queueVars, Places
    <2>2. Shape'
      BY <1>t, <1>1 DEF StartStage, Shape, TypeOK, storeVars, queueVars
    <2>3. UNCHANGED <<Pending, db, work>>
      BY <1>1 DEF StartStage, Pending, storeVars, queueVars
    <2> QED BY <1>t, <2>1, <2>2, <2>3 DEF IInv, Sound, Agree
  <1>2. ASSUME NEW r \in Rows, Deliver(r) PROVE IInv'
    <2>1. sync' \in [Rows -> SyncStates] /\ backend' \subseteq Rows
      BY <1>t, <1>2 DEF Deliver, TypeOK
    <2>2. TypeOK'
      BY <1>t, <1>2, <2>1
      DEF Deliver, TypeOK, storeVars, runVars, queueVars, lineVars
    <2>3. Shape'
      BY <1>t, <1>2 DEF Deliver, Shape, storeVars, runVars, queueVars
    <2>4. UNCHANGED <<Pending, db, work>>
      BY <1>2 DEF Deliver, Pending, storeVars, queueVars
    <2> QED BY <1>t, <2>2, <2>3, <2>4 DEF IInv, Sound, Agree
  <1>3. ASSUME Gate PROVE IInv'
    <2>1. PICK known \in {backend, {}} :
            /\ work' = [work EXCEPT !.decided =
                     [r \in Rows |-> IF r \in scope THEN Decide(r, known) ELSE @[r]]]
            /\ left' = Eligible(known)
            /\ tally' = [tally EXCEPT !.skipped = @ + Cardinality(scope \ Eligible(known))]
      BY <1>3 DEF Gate
    <2>2. work' \in Store /\ work'.norm = work.norm /\ work'.held = work.held
      BY <1>t, <2>1, DecisionType DEF TypeOK, Store
    <2>3. tally' \in Count
      <3>1. Cardinality(scope \ Eligible(known)) \in Nat
        BY <1>t, Sizes DEF TypeOK
      <3> QED BY <1>t, <2>1, <3>1 DEF TypeOK, Count
    <2>4. left' \subseteq Rows
      BY <1>t, <2>1 DEF TypeOK, Eligible
    <2>5. TypeOK'
      BY <1>t, <1>3, <2>2, <2>3, <2>4
      DEF Gate, TypeOK, worldVars, runVars, lineVars, Places
    <2>6. batch = {} /\ prompts = {} /\ asked = {} /\ work = db
      BY <1>t, <1>3 DEF Gate, Shape
    <2>7. Shape'
      BY <1>t, <1>3, <2>6 DEF Gate, Shape, runVars
    <2>8. \A r \in Lower : r \in Pending' => work.norm[r] = 0
      BY <1>t, <1>3, <2>1, <2>6, EligibleIsNew DEF Gate, Pending
    <2>9. Sound(db', Pending') /\ Sound(work', Pending') /\ Agree(db', work')
      BY <1>t, <1>3, <2>2, <2>6, <2>8 DEF Gate, Sound, Agree
    <2> QED BY <2>5, <2>7, <2>9 DEF IInv
  <1>4. ASSUME NEW r \in Rows, MapRow(r) PROVE IInv'
    <2>1. r \in left /\ r \in Pending /\ stage \in 1..MaxStages
      BY <1>t, <1>4 DEF MapRow, IsFirst, Pending, Shape
    <2>2. Settled(r)
      BY <1>4, <2>1, Outcomes DEF MapRow
    <2>3. TypeOK'
      BY <1>t, <1>4, <2>2 DEF MapRow, Settled, TypeOK, worldVars, runVars
    <2>4. Shape'
      BY <1>t, <1>4 DEF MapRow, Shape, runVars
    <2>5. Pending' \subseteq Pending \ {r}
      BY <1>t, <1>4, <2>1 DEF MapRow, Pending, Shape
    <2>6. Sound(db', Pending') /\ Sound(work', Pending') /\ Agree(db', work')
      BY <1>t, <1>4, <2>2, <2>5, SoundSubset DEF MapRow, Settled, Sound
    <2> QED BY <2>3, <2>4, <2>6 DEF IInv
  <1>5. ASSUME TakeBatch PROVE IInv'
    <2>1. PICK P \in Prefixes(left, BatchSize) : batch' = P /\ left' = left \ P
      BY <1>5 DEF TakeBatch
    <2>2. P \subseteq left
      BY <2>1 DEF Prefixes
    <2>3. /\ db' \in Store /\ work' \in Store
          /\ Sound(db', Pending) /\ Sound(work', Pending) /\ Agree(db', work')
          /\ reconnects' \in Nat /\ dropped' \in BOOLEAN
      BY <1>5, CommitKeeps DEF TakeBatch
    <2>4. TypeOK'
      BY <1>t, <1>5, <2>1, <2>2, <2>3 DEF TakeBatch, TypeOK, worldVars, runVars, Places
    <2>5. Shape'
      BY <1>t, <1>5, <2>1, <2>2 DEF TakeBatch, Shape, runVars
    <2>6. Pending' \subseteq Pending
      BY <1>5, <2>1, <2>2 DEF TakeBatch, Pending
    <2> QED BY <2>3, <2>4, <2>5, <2>6, SoundSubset DEF IInv
  <1>6. ASSUME NEW r \in Rows, PrepareRow(r) PROVE IInv'
    <2>1. r \in batch /\ r \in Pending /\ stage \in 1..MaxStages /\ pc = "prepare"
      BY <1>t, <1>6 DEF PrepareRow, IsFirst, Pending, Shape
    <2>2. CASE (RejectRow(r) \/ WriteMapped(r)) /\ UNCHANGED prompts
      <3>0. UNCHANGED prompts
        BY <2>2
      <3>2. Settled(r)
        BY <2>1, <2>2, Outcomes
      <3>3. TypeOK'
        BY <1>t, <1>6, <3>0, <3>2 DEF PrepareRow, Settled, TypeOK, worldVars, runVars
      <3>4. Shape'
        BY <1>t, <1>6, <3>0, <2>1 DEF PrepareRow, Shape, runVars
      <3>5. Pending' \subseteq Pending \ {r}
        BY <1>t, <1>6, <2>1, <3>0 DEF PrepareRow, Pending, Shape
      <3>6. Sound(db', Pending') /\ Sound(work', Pending') /\ Agree(db', work')
        BY <1>t, <1>6, <3>2, <3>5, SoundSubset DEF PrepareRow, Settled, Sound
      <3> QED BY <3>3, <3>4, <3>6 DEF IInv
    <2>3. CASE prompts' = prompts \cup {r} /\ UNCHANGED <<work, tally, outcome, lineVars>>
      <3>1. TypeOK'
        BY <1>t, <1>6, <2>3 DEF PrepareRow, TypeOK, worldVars, runVars, lineVars
      <3>2. Shape'
        BY <1>t, <1>6, <2>1, <2>3 DEF PrepareRow, Shape, runVars
      <3>3. Pending' \subseteq Pending
        BY <1>6, <2>1, <2>3 DEF PrepareRow, Pending
      <3>4. UNCHANGED <<db, work>>
        BY <1>6, <2>3 DEF PrepareRow
      <3>5. Sound(db', Pending') /\ Sound(work', Pending') /\ Agree(db', work')
        BY <1>t, <3>3, <3>4, SoundSubset
      <3> QED BY <3>1, <3>2, <3>5 DEF IInv
    <2> QED BY <1>6, <2>2, <2>3 DEF PrepareRow
  <1>7. ASSUME Ask PROVE IInv'
    <2>1. PICK A \in Prefixes(prompts, IF mode = "batch" THEN Cardinality(prompts) ELSE 1) :
            asked' = A /\ prompts' = prompts \ A /\ good' \in SUBSET A
      BY <1>7 DEF Ask
    <2>2. A \subseteq prompts
      BY <2>1 DEF Prefixes
    <2>3. /\ db' \in Store /\ work' \in Store
          /\ Sound(db', Pending) /\ Sound(work', Pending) /\ Agree(db', work')
          /\ reconnects' \in Nat /\ dropped' \in BOOLEAN
      BY <1>7, CommitKeeps DEF Ask
    <2>4. TypeOK'
      BY <1>t, <1>7, <2>1, <2>2, <2>3 DEF Ask, TypeOK, worldVars, runVars, Places
    <2>5. Shape'
      BY <1>t, <1>7, <2>1, <2>2 DEF Ask, Shape, runVars
    <2>6. Pending' \subseteq Pending
      BY <1>7, <2>1, <2>2 DEF Ask, Pending
    <2> QED BY <2>3, <2>4, <2>5, <2>6, SoundSubset DEF IInv
  <1>8. ASSUME NEW r \in Rows, RecordResult(r) PROVE IInv'
    <2>1. r \in asked /\ r \in Pending /\ stage \in 1..MaxStages /\ pc = "record"
      BY <1>t, <1>8 DEF RecordResult, IsFirst, Pending, Shape
    <2>2. Settled(r)
      BY <1>8, <2>1, Outcomes DEF RecordResult
    <2>3. TypeOK'
      BY <1>t, <1>8, <2>2 DEF RecordResult, Settled, TypeOK, worldVars, runVars, Places
    <2>4. Shape'
      BY <1>t, <1>8, <2>1 DEF RecordResult, Shape, runVars
    <2>5. Pending' \subseteq Pending \ {r}
      BY <1>t, <1>8, <2>1 DEF RecordResult, Pending, Shape
    <2>6. Sound(db', Pending') /\ Sound(work', Pending') /\ Agree(db', work')
      BY <1>t, <1>8, <2>2, <2>5, SoundSubset DEF RecordResult, Settled, Sound
    <2> QED BY <2>3, <2>4, <2>6 DEF IInv
  <1>9. ASSUME BatchDone PROVE IInv'
    <2>3. /\ db' \in Store /\ work' \in Store
          /\ Sound(db', Pending) /\ Sound(work', Pending) /\ Agree(db', work')
          /\ reconnects' \in Nat /\ dropped' \in BOOLEAN
      BY <1>9, CommitKeeps DEF BatchDone
    <2>4. TypeOK'
      BY <1>t, <1>9, <2>3 DEF BatchDone, TypeOK, worldVars, runVars, queueVars, Places
    <2>5. Shape'
      BY <1>t, <1>9 DEF BatchDone, Shape, runVars, queueVars
    <2>6. Pending' = Pending
      BY <1>9 DEF BatchDone, Pending, queueVars
    <2> QED BY <2>3, <2>4, <2>5, <2>6 DEF IInv
  <1>10. ASSUME EndRows PROVE IInv'
    <2>1. TypeOK'
      BY <1>t, <1>10 DEF EndRows, TypeOK, worldVars, runVars, queueVars, lineVars, Places
    <2>2. Shape'
      BY <1>t, <1>10 DEF EndRows, Shape, runVars, queueVars
    <2>3. Pending' = Pending /\ db' = work /\ work' = work
      BY <1>10 DEF EndRows, Pending, queueVars
    <2> QED BY <1>t, <2>1, <2>2, <2>3 DEF IInv, Agree
  <1>11. ASSUME CloseRun PROVE IInv'
    <2>1. TypeOK'
      BY <1>t, <1>11
      DEF CloseRun, TypeOK, storeVars, worldVars, queueVars, lineVars, Places
    <2>2. Shape'
      BY <1>t, <1>11 DEF CloseRun, Shape, storeVars, queueVars
    <2>3. Pending' = Pending /\ db' = db /\ work' = work
      BY <1>11 DEF CloseRun, Pending, storeVars, queueVars
    <2> QED BY <1>t, <2>1, <2>2, <2>3 DEF IInv, Agree
  <1>12. ASSUME Abort PROVE IInv'
    <2>1. TypeOK'
      BY <1>t, <1>12 DEF Abort, TypeOK, worldVars, runVars, lineVars, Places
    <2>2. Shape'
      BY <1>t, <1>12 DEF Abort, Shape, runVars
    <2>3. Pending' \subseteq Pending /\ db' = db /\ work' = db
      BY <1>12 DEF Abort, Pending
    <2> QED BY <1>t, <2>1, <2>2, <2>3, SoundSubset DEF IInv, Agree
  <1>13. ASSUME UNCHANGED vars PROVE IInv'
    <2>1. TypeOK' /\ Shape'
      BY <1>t, <1>13 DEF vars, TypeOK, Shape, storeVars, worldVars, runVars, queueVars, lineVars
    <2>2. Pending' = Pending /\ db' = db /\ work' = work
      BY <1>13 DEF vars, Pending, storeVars, queueVars
    <2> QED BY <1>t, <2>1, <2>2 DEF IInv, Agree
  <1> QED BY <1>1, <1>2, <1>3, <1>4, <1>5, <1>6, <1>7, <1>8, <1>9, <1>10,
             <1>11, <1>12, <1>13 DEF Next, Step

-----------------------------------------------------------------------------
(* Theorems *)

\* The inductive invariant is an invariant.
LEMMA Invariance == Spec => []IInv
  BY InitIInv, StepIInv, PTL DEF Spec

\* Type correctness: the stage's variables hold what the code keeps in them.
THEOREM TypeCorrect == Spec => []TypeOK
  <1>1. IInv => TypeOK
    BY DEF IInv
  <1> QED BY <1>1, Invariance, PTL

\* A row with an open quarantine record is not normalized, in the session or
\* in the database, whatever run_normalize rolled back or repeated.
THEOREM HeldUnnormalized == Spec => []HeldIsUnnormalized
  <1>1. IInv => HeldIsUnnormalized
    BY DEF IInv, Sound, HeldIsUnnormalized
  <1> QED BY <1>1, Invariance, PTL

\* A normalized row that the eligibility gate can find is not written again.
THEOREM NormalizedOnce == Spec => WrittenOnce
  <1>1. IInv /\ [Next]_vars => [\A r \in Lower : db.norm[r] # 0 => db'.norm[r] = db.norm[r]]_vars
    <2> SUFFICES ASSUME IInv, Next
                 PROVE  \A r \in Lower : db.norm[r] # 0 => db'.norm[r] = db.norm[r]
      OBVIOUS
    <2>1. db' = db \/ db' = work
      BY DEF Next, Step, StartStage, Deliver, Gate, MapRow, PrepareRow, RecordResult,
             TakeBatch, Ask, BatchDone, EndRows, CloseRun, Abort, CommitProgress, storeVars
    <2> QED BY <2>1 DEF IInv, Agree
  <1> QED BY <1>1, Invariance, PTL DEF Spec, WrittenOnce

-----------------------------------------------------------------------------
(* The counts of a stage *)

Normalized == {r \in scope : outcome[r] = "normalized"}
Failed == {r \in scope : outcome[r] = "failed"}

\* The gate has decided about the rows of the stage.
Gated == pc \notin {"idle", "gate"} \/ Closed

\* Each row of the scope is counted, or still pending.
Counted ==
  /\ Pending \subseteq scope
  /\ \A r \in Pending : outcome[r] = "none"
  /\ tally.normalized = Cardinality(Normalized)
  /\ tally.errors = Cardinality(Failed)
  /\ tally.fetched = tally.normalized + tally.skipped + Cardinality(Pending)

CountInv ==
  /\ pc # "idle" => status = "started"
  /\ pc = "gate" => /\ tally = [NoCount EXCEPT !.fetched = Cardinality(scope)]
                    /\ \A r \in Rows : outcome[r] = "none"
  /\ Gated => Counted

\* A row more in one of the stage's row sets, and a row less.
LEMMA OneMore ==
  ASSUME NEW S \in SUBSET Rows, NEW r \in Rows
  PROVE  /\ Cardinality(S) \in Nat
         /\ r \notin S => Cardinality(S \cup {r}) = Cardinality(S) + 1
         /\ r \in S => Cardinality(S \ {r}) = Cardinality(S) - 1
  <1>1. IsFiniteSet(S)
    BY RowsAssumption, FS_Subset
  <1> QED BY <1>1, FS_CardinalityType, FS_AddElement, FS_RemoveElement

\* An outcome of a pending row is counted, and no other.
LEMMA OutcomeCounts ==
  ASSUME TypeOK, Counted, NEW r \in Pending, CountSuccess(r) \/ CountFailure(r),
         scope' = scope, Pending' = Pending \ {r}
  PROVE  Counted'
  <1>0. r \in Rows /\ r \in scope /\ outcome[r] = "none" /\ Pending \in SUBSET Rows
    BY DEF TypeOK, Counted, Pending
  <1>1. Normalized \in SUBSET Rows /\ Failed \in SUBSET Rows /\ r \notin Normalized \cup Failed
    BY <1>0 DEF Normalized, Failed, TypeOK
  <1>2. \A s \in Pending' : outcome'[s] = "none"
    BY <1>0 DEF CountSuccess, CountFailure, TypeOK, Counted
  <1>3. Cardinality(Pending') = Cardinality(Pending) - 1 /\ Cardinality(Pending) \in Nat
    BY <1>0, OneMore
  <1>4. tally \in [fetched : Nat, normalized : Nat, skipped : Nat, errors : Nat]
    BY DEF TypeOK, Count
  <1>5. Cardinality(Normalized) \in Nat /\ Cardinality(Failed) \in Nat
    BY <1>1, OneMore
  <1>6. CASE CountSuccess(r)
    <2>1. Normalized' = Normalized \cup {r} /\ Failed' = Failed
      BY <1>0, <1>6 DEF CountSuccess, TypeOK, Normalized, Failed
    <2>2. Cardinality(Normalized') = Cardinality(Normalized) + 1
      BY <1>0, <1>1, <2>1, OneMore
    <2>3. /\ tally'.normalized = tally.normalized + 1 /\ tally'.errors = tally.errors
          /\ tally'.fetched = tally.fetched /\ tally'.skipped = tally.skipped
      BY <1>4, <1>6 DEF CountSuccess
    <2> QED BY <1>2, <1>3, <1>4, <1>5, <2>1, <2>2, <2>3 DEF Counted
  <1>7. CASE CountFailure(r)
    <2>1. Normalized' = Normalized /\ Failed' = Failed \cup {r}
      BY <1>0, <1>7 DEF CountFailure, TypeOK, Normalized, Failed
    <2>2. Cardinality(Failed') = Cardinality(Failed) + 1
      BY <1>0, <1>1, <2>1, OneMore
    <2>3. /\ tally'.normalized = tally.normalized /\ tally'.errors = tally.errors + 1
          /\ tally'.fetched = tally.fetched /\ tally'.skipped = tally.skipped + 1
      BY <1>4, <1>7 DEF CountFailure
    <2> QED BY <1>2, <1>3, <1>4, <1>5, <2>1, <2>2, <2>3 DEF Counted
  <1> QED BY <1>6, <1>7

\* The gate skips the rows that are not eligible and leaves the others pending.
LEMMA GateCounts ==
  ASSUME IInv, CountInv, Gate
  PROVE  Counted'
  <1>t. TypeOK /\ Shape
    BY DEF IInv
  <1>1. PICK known \in {backend, {}} :
          /\ left' = Eligible(known)
          /\ tally' = [tally EXCEPT !.skipped = @ + Cardinality(scope \ Eligible(known))]
    BY DEF Gate
  <1> DEFINE E == Eligible(known)
  <1>2. E \subseteq scope /\ scope \in SUBSET Rows /\ UNCHANGED <<scope, outcome>>
    BY <1>t DEF Eligible, TypeOK, Gate, runVars
  <1>3. tally = [NoCount EXCEPT !.fetched = Cardinality(scope)] /\ \A r \in Rows : outcome[r] = "none"
    BY DEF CountInv, Gate
  <1>4. Pending' = E
    BY <1>t, <1>1 DEF Pending, Gate, Shape
  <1> HIDE DEF E
  <1>5. Cardinality(scope) = Cardinality(scope \ E) + Cardinality(E)
        /\ Cardinality(E) \in Nat /\ Cardinality(scope \ E) \in Nat
    <2>1. IsFiniteSet(scope) /\ scope \cap E = E
      BY <1>2, RowsAssumption, FS_Subset
    <2>2. Cardinality(scope \ E) = Cardinality(scope) - Cardinality(E)
      BY <2>1, FS_Difference
    <2>3. Cardinality(E) \in Nat /\ Cardinality(scope) \in Nat /\ Cardinality(scope \ E) \in Nat
      BY <1>2, Sizes
    <2> QED BY <2>2, <2>3
  <1>6. Normalized' = {} /\ Failed' = {} /\ Cardinality({}) = 0
    BY <1>2, <1>3, FS_EmptySet DEF Normalized, Failed
  <1>7. /\ tally'.fetched = Cardinality(scope) /\ tally'.skipped = Cardinality(scope \ E)
        /\ tally'.normalized = 0 /\ tally'.errors = 0
    <2>1. tally' = [tally EXCEPT !.skipped = @ + Cardinality(scope \ E)]
      BY <1>1 DEF E
    <2> QED BY <1>3, <1>5, <2>1 DEF NoCount
  <1> QED BY <1>2, <1>3, <1>4, <1>5, <1>6, <1>7 DEF Counted

\* A step that moves pending rows between the lists counts nothing.
LEMMA MoveCounts ==
  ASSUME Counted, UNCHANGED <<scope, tally, outcome>>, Pending' = Pending
  PROVE  Counted'
  BY DEF Counted, Normalized, Failed

\* The counts hold initially.
LEMMA InitCounts == Init => CountInv
  BY DEF Init, CountInv, Gated, Closed

\* Which of the pending rows a step takes.
LEMMA PendingSteps ==
  ASSUME IInv
  PROVE  /\ \A r \in Rows : MapRow(r) \/ RecordResult(r) => r \in Pending /\ Pending' = Pending \ {r}
         /\ \A r \in Rows : PrepareRow(r) =>
              /\ r \in Pending
              /\ Pending' = IF prompts' = prompts THEN Pending \ {r} ELSE Pending
         /\ TakeBatch \/ Ask \/ BatchDone \/ EndRows => Pending' = Pending
  <1>t. Shape
    BY DEF IInv
  <1>1. ASSUME NEW r \in Rows, MapRow(r) PROVE r \in Pending /\ Pending' = Pending \ {r}
    BY <1>t, <1>1 DEF MapRow, IsFirst, Pending, Shape
  <1>2. ASSUME NEW r \in Rows, RecordResult(r) PROVE r \in Pending /\ Pending' = Pending \ {r}
    BY <1>t, <1>2 DEF RecordResult, IsFirst, Pending, Shape
  <1>3. ASSUME NEW r \in Rows, PrepareRow(r)
        PROVE  r \in Pending /\ Pending' = IF prompts' = prompts THEN Pending \ {r} ELSE Pending
    <2>1. /\ r \in batch /\ batch' = batch \ {r} /\ left' = left /\ asked' = asked
          /\ prompts' = prompts \/ prompts' = prompts \cup {r}
          /\ r \notin left /\ r \notin prompts /\ asked = {}
      BY <1>t, <1>3 DEF PrepareRow, IsFirst, Shape
    <2>2. prompts' = prompts \cup {r} => prompts' # prompts
      BY <2>1
    <2> QED BY <2>1, <2>2 DEF Pending
  <1>4. ASSUME TakeBatch PROVE Pending' = Pending
    <2>1. PICK P \in Prefixes(left, BatchSize) : batch' = P /\ left' = left \ P
      BY <1>4 DEF TakeBatch
    <2>2. P \subseteq left /\ batch = {}
      BY <1>t, <1>4, <2>1 DEF Prefixes, TakeBatch, Shape
    <2> QED BY <1>4, <2>1, <2>2 DEF TakeBatch, Pending
  <1>5. ASSUME Ask PROVE Pending' = Pending
    <2>1. PICK A \in Prefixes(prompts, IF mode = "batch" THEN Cardinality(prompts) ELSE 1) :
            asked' = A /\ prompts' = prompts \ A
      BY <1>5 DEF Ask
    <2>2. A \subseteq prompts /\ asked = {}
      BY <1>t, <1>5, <2>1 DEF Prefixes, Ask, Shape
    <2> QED BY <1>5, <2>1, <2>2 DEF Ask, Pending
  <1>6. ASSUME BatchDone \/ EndRows PROVE Pending' = Pending
    BY <1>6 DEF BatchDone, EndRows, Pending, queueVars
  <1> QED BY <1>1, <1>2, <1>3, <1>4, <1>5, <1>6

\* The outcome that a row gets in one of the three places, and its count.
LEMMA Settles ==
  ASSUME NEW r \in Rows
  PROVE  /\ MapRow(r) \/ RecordResult(r) => CountSuccess(r) \/ CountFailure(r)
         /\ PrepareRow(r) => \/ prompts' = prompts /\ (CountSuccess(r) \/ CountFailure(r))
                             \/ UNCHANGED <<tally, outcome>>
         /\ MapRow(r) \/ RecordResult(r) \/ PrepareRow(r) => UNCHANGED <<scope, status, stage, mode>>
  BY DEF MapRow, RecordResult, PrepareRow, WriteMapped, RejectRow, WriteTwiceLost, RecordJob,
         RecordError, runVars

\* Every step keeps the counts.
LEMMA StepCounts == IInv /\ CountInv /\ [Next]_vars => CountInv'
  <1> SUFFICES ASSUME IInv, CountInv, [Next]_vars PROVE CountInv'
    OBVIOUS
  <1>1. ASSUME NEW m \in Modes, NEW S \in SUBSET Rows, StartStage(m, S) PROVE CountInv'
    BY <1>1 DEF StartStage, CountInv, Gated, Closed
  <1>2. ASSUME NEW r \in Rows, Deliver(r) PROVE CountInv'
    <2>1. UNCHANGED <<Pending, scope, tally, outcome, pc, status>>
      BY <1>2 DEF Deliver, runVars, queueVars, Pending
    <2> QED BY <1>2, <2>1 DEF Deliver, CountInv, Gated, Closed, Counted, Normalized, Failed
  <1>3. ASSUME Gate PROVE CountInv'
    <2>1. Counted'
      BY <1>3, GateCounts
    <2> QED BY <1>3, <2>1 DEF Gate, CountInv, Gated, Closed, runVars
  <1>4. ASSUME NEW r \in Rows, MapRow(r) \/ RecordResult(r) PROVE CountInv'
    <2>1. Counted'
      <3>1. Counted /\ TypeOK
        BY <1>4 DEF IInv, CountInv, Gated, MapRow, RecordResult
      <3> QED BY <1>4, <3>1, OutcomeCounts, PendingSteps, Settles
    <2> QED BY <1>4, <2>1, Settles DEF MapRow, RecordResult, CountInv, Gated
  <1>5. ASSUME NEW r \in Rows, PrepareRow(r) PROVE CountInv'
    <2>0. Counted /\ TypeOK
      BY <1>5 DEF IInv, CountInv, Gated, PrepareRow
    <2>1. CASE prompts' = prompts /\ (CountSuccess(r) \/ CountFailure(r))
      <3>1. Counted'
        BY <1>5, <2>0, <2>1, OutcomeCounts, PendingSteps, Settles
      <3> QED BY <1>5, <3>1, Settles DEF PrepareRow, CountInv, Gated
    <2>2. CASE prompts' # prompts /\ UNCHANGED <<tally, outcome>>
      <3>1. Counted'
        BY <1>5, <2>0, <2>2, MoveCounts, PendingSteps, Settles
      <3> QED BY <1>5, <3>1, Settles DEF PrepareRow, CountInv, Gated
    <2>3. prompts' = prompts => CountSuccess(r) \/ CountFailure(r)
      <3>1. prompts' = prompts \cup {r} => prompts' # prompts
        BY <1>5 DEF PrepareRow, IsFirst, IInv, Shape
      <3> QED BY <1>5, <3>1 DEF PrepareRow, WriteMapped, RejectRow
    <2> QED BY <1>5, <2>1, <2>2, <2>3, Settles
  <1>6. ASSUME TakeBatch \/ Ask \/ BatchDone \/ EndRows PROVE CountInv'
    <2>0. Counted
      BY <1>6 DEF CountInv, Gated, TakeBatch, Ask, BatchDone, EndRows
    <2>1. UNCHANGED <<scope, tally, outcome, status>> /\ pc' \notin {"idle", "gate"} /\ pc # "idle"
      BY <1>6 DEF TakeBatch, Ask, BatchDone, EndRows, runVars
    <2>2. Counted'
      BY <1>6, <2>0, <2>1, MoveCounts, PendingSteps
    <2> QED BY <2>1, <2>2 DEF CountInv, Gated
  <1>7. ASSUME CloseRun PROVE CountInv'
    <2>1. UNCHANGED <<Pending, scope, tally, outcome>> /\ pc = "close"
      BY <1>7 DEF CloseRun, queueVars, Pending
    <2>2. Counted'
      BY <2>1, MoveCounts DEF CountInv, Gated
    <2> QED BY <1>7, <2>2 DEF CloseRun, CountInv
  <1>8. ASSUME Abort PROVE CountInv'
    BY <1>8 DEF Abort, CountInv, Gated, Closed, runVars
  <1>9. CASE UNCHANGED vars
    BY <1>9 DEF vars, runVars, queueVars, CountInv, Gated, Closed, Counted, Normalized, Failed, Pending
  <1> QED BY <1>1, <1>2, <1>3, <1>4, <1>5, <1>6, <1>7, <1>8, <1>9 DEF Next, Step

\* The counts of handled rows agree with the rows in every reachable state.
LEMMA CountInvariance == Spec => [](IInv /\ CountInv)
  <1>1. IInv /\ CountInv /\ [Next]_vars => (IInv /\ CountInv)'
    BY StepIInv, StepCounts
  <1>2. Init => IInv /\ CountInv
    BY InitIInv, InitCounts
  <1> QED BY <1>1, <1>2, PTL DEF Spec

\* A stage that closes its run row has counted each raw row exactly once,
\* whatever requests, mappers and connections failed on the way.
THEOREM RowsCountedOnce == Spec => []EachRowCountedOnce
  <1>1. IInv /\ CountInv => EachRowCountedOnce
    <2> SUFFICES ASSUME IInv, CountInv, Closed
                 PROVE  /\ tally.fetched = tally.normalized + tally.skipped
                        /\ tally.normalized = Cardinality(Normalized)
                        /\ tally.errors = Cardinality(Failed)
      BY DEF EachRowCountedOnce, Normalized, Failed
    <2>1. Pending = {} /\ Cardinality({}) = 0
      BY FS_EmptySet DEF IInv, Shape, Closed, Pending
    <2>2. tally.normalized \in Nat /\ tally.skipped \in Nat
      BY DEF IInv, TypeOK, Count
    <2> QED BY <2>1, <2>2 DEF CountInv, Gated, Counted
  <1> QED BY <1>1, CountInvariance, PTL
-----------------------------------------------------------------------------
(* What the stage tells of its rows *)

\* No log entry is of a later stage, nor of this one before its gate.
LogsOf(d) ==
  \A r \in Rows, n \in 1..MaxStages, s \in {"success", "failed"} :
    <<r, n, s>> \in d.logs => n <= stage /\ (pc = "gate" => n < stage)

\* A store has what the outcome o says of row r.
Tells(d, o, r) ==
  /\ d.decided[r] # "undecided"
  /\ o = "normalized" =>
       /\ d.norm[r] = stage
       /\ r \notin d.held
       /\ mode # "mapper" /\ r \notin Bare => <<r, stage, "success">> \in d.logs
  /\ o = "failed" /\ Quarantine => r \in d.held
  /\ <<r, stage, "failed">> \in d.logs => o = "failed"

ToldInv ==
  /\ pc = "map" => mode = "mapper"
  /\ LogsOf(db) /\ LogsOf(work)
  /\ Gated /\ ~dropped => \A r \in scope : Tells(work, outcome[r], r)

\* The store after an outcome differs from d in the row of the outcome only.
OnlyRow(d, e, r) ==
  /\ e.decided = d.decided
  /\ \A t \in Rows \ {r} :
       /\ e.norm[t] = d.norm[t]
       /\ t \in e.held <=> t \in d.held
       /\ \A n \in 1..MaxStages, s \in {"success", "failed"} :
            <<t, n, s>> \in e.logs <=> <<t, n, s>> \in d.logs
  /\ \A n \in 1..MaxStages, s \in {"success", "failed"} :
       <<r, n, s>> \in e.logs => <<r, n, s>> \in d.logs \/ n = stage

\* The four operations on a store, field by field.
LEMMA Fields ==
  ASSUME NEW d \in Store, NEW r \in Rows, NEW s \in {"success", "failed"},
         stage \in 1..MaxStages, MaxStages \in Nat
  PROVE  /\ Write(d, r) \in Store /\ Write(d, r).norm = [d.norm EXCEPT ![r] = stage]
         /\ Write(d, r).held = d.held /\ Write(d, r).decided = d.decided
         /\ Write(d, r).logs = d.logs
         /\ Hold(d, r) \in Store /\ Hold(d, r).norm = d.norm
         /\ Hold(d, r).held = IF Quarantine THEN d.held \cup {r} ELSE d.held
         /\ Hold(d, r).decided = d.decided /\ Hold(d, r).logs = d.logs
         /\ Release(d, r) \in Store /\ Release(d, r).norm = d.norm
         /\ Release(d, r).held = IF Quarantine THEN d.held \ {r} ELSE d.held
         /\ Release(d, r).decided = d.decided /\ Release(d, r).logs = d.logs
         /\ Log(d, r, s) \in Store /\ Log(d, r, s).norm = d.norm
         /\ Log(d, r, s).held = d.held /\ Log(d, r, s).decided = d.decided
         /\ Log(d, r, s).logs = d.logs \cup {<<r, stage, s>>}
  <1>0. DOMAIN d = {"norm", "held", "decided", "logs"}
    BY DEF Store
  <1>1. Write(d, r) = [d EXCEPT !.norm = [d.norm EXCEPT ![r] = stage]]
    BY DEF Write, Store
  <1>2. Write(d, r) \in Store /\ Log(d, r, s) \in Store
    BY WriteStore, LogStore
  <1>3. Hold(d, r) \in Store /\ Release(d, r) \in Store
    BY DEF Hold, Release, Store
  <1>4. /\ Write(d, r).norm = [d.norm EXCEPT ![r] = stage]
        /\ Write(d, r).held = d.held /\ Write(d, r).decided = d.decided
        /\ Write(d, r).logs = d.logs
    BY <1>1 DEF Store
  <1>5. /\ Hold(d, r).norm = d.norm
        /\ Hold(d, r).held = IF Quarantine THEN d.held \cup {r} ELSE d.held
        /\ Hold(d, r).decided = d.decided /\ Hold(d, r).logs = d.logs
    BY DEF Store, Hold
  <1>6. /\ Release(d, r).norm = d.norm
        /\ Release(d, r).held = IF Quarantine THEN d.held \ {r} ELSE d.held
        /\ Release(d, r).decided = d.decided /\ Release(d, r).logs = d.logs
    BY DEF Store, Release
  <1>7. /\ Log(d, r, s).norm = d.norm
        /\ Log(d, r, s).held = d.held /\ Log(d, r, s).decided = d.decided
        /\ Log(d, r, s).logs = d.logs \cup {<<r, stage, s>>}
    BY DEF Store, Log
  <1> QED BY <1>2, <1>3, <1>4, <1>5, <1>6, <1>7

\* The same for the log alone.
LEMMA LogFields ==
  ASSUME NEW d \in Store, NEW r \in Rows, NEW s \in {"success", "failed"},
         stage \in 1..MaxStages, MaxStages \in Nat
  PROVE  /\ Log(d, r, s) \in Store /\ Log(d, r, s).norm = d.norm
         /\ Log(d, r, s).held = d.held /\ Log(d, r, s).decided = d.decided
         /\ Log(d, r, s).logs = d.logs \cup {<<r, stage, s>>}
  BY LogStore DEF Log, Store

\* A row that is written, and perhaps logged, with its quarantine record closed.
LEMMA SuccessTells ==
  ASSUME NEW d \in Store, NEW r \in Rows, ~Quarantine => d.held = {},
         stage \in 1..MaxStages, MaxStages \in Nat,
         NEW e \in {Write(d, r), Log(Write(d, r), r, "success")},
         d.decided[r] # "undecided", <<r, stage, "failed">> \notin d.logs,
         e = Log(Write(d, r), r, "success") \/ mode = "mapper" \/ r \in Bare
  PROVE  OnlyRow(d, Release(e, r), r) /\ Tells(Release(e, r), "normalized", r)
  <1> DEFINE w == Write(d, r)
             l == Log(w, r, "success")
             f == Release(e, r)
  <1>1. /\ w \in Store /\ w.norm = [d.norm EXCEPT ![r] = stage] /\ w.held = d.held
        /\ w.decided = d.decided /\ w.logs = d.logs
    BY Fields
  <1>2. /\ e \in Store /\ e.norm = w.norm /\ e.held = d.held /\ e.decided = d.decided
        /\ e.logs = d.logs \/ e.logs = d.logs \cup {<<r, stage, "success">>}
        /\ mode # "mapper" /\ r \notin Bare => e.logs = d.logs \cup {<<r, stage, "success">>}
    <2>1. CASE e = w /\ (mode = "mapper" \/ r \in Bare)
      BY <1>1, <2>1
    <2>2. CASE e = l
      <3> HIDE DEF w
      <3>1. /\ l \in Store /\ l.norm = w.norm /\ l.held = w.held /\ l.decided = w.decided
            /\ l.logs = w.logs \cup {<<r, stage, "success">>}
        BY <1>1, Fields
      <3> HIDE DEF l
      <3> QED BY <1>1, <2>2, <3>1
    <2> QED BY <2>1, <2>2
  <1> HIDE DEF w, l
  <1>3. /\ f.norm = e.norm /\ f.decided = e.decided /\ f.logs = e.logs
        /\ f.held = d.held \ {r}
    <2>1. /\ f.norm = e.norm /\ f.decided = e.decided /\ f.logs = e.logs
          /\ f.held = IF Quarantine THEN e.held \ {r} ELSE e.held
      <3>1. "success" \in {"success", "failed"}
        OBVIOUS
      <3> QED BY <1>2, <3>1, Fields
    <2> HIDE DEF f
    <2> QED BY <1>2, <2>1
  <1> HIDE DEF f
  <1>4. d.norm \in [Rows -> 0..MaxStages]
    BY DEF Store
  <1>5. /\ f.norm = [d.norm EXCEPT ![r] = stage] /\ f.held = d.held \ {r} /\ f.decided = d.decided
        /\ f.logs = d.logs \/ f.logs = d.logs \cup {<<r, stage, "success">>}
        /\ mode # "mapper" /\ r \notin Bare => f.logs = d.logs \cup {<<r, stage, "success">>}
    BY <1>1, <1>2, <1>3
  <1>6. Tells(f, "normalized", r)
    BY <1>4, <1>5 DEF Tells
  <1>7. OnlyRow(d, f, r)
    BY <1>4, <1>5 DEF OnlyRow
  <1> QED BY <1>6, <1>7 DEF f

\* A row that is held, and perhaps logged.
LEMMA FailureTells ==
  ASSUME NEW d \in Store, NEW r \in Rows, stage \in 1..MaxStages, MaxStages \in Nat,
         NEW e \in {Hold(d, r), Log(Hold(d, r), r, "failed")}, d.decided[r] # "undecided"
  PROVE  OnlyRow(d, e, r) /\ Tells(e, "failed", r)
  <1> DEFINE h == Hold(d, r)
  <1>1. /\ h \in Store /\ h.norm = d.norm /\ h.decided = d.decided /\ h.logs = d.logs
        /\ h.held = IF Quarantine THEN d.held \cup {r} ELSE d.held
    BY Fields
  <1>2. /\ e.norm = d.norm /\ e.decided = d.decided /\ e.held = h.held
        /\ e.logs = d.logs \/ e.logs = d.logs \cup {<<r, stage, "failed">>}
    <2>1. CASE e = h
      BY <1>1, <2>1
    <2>2. CASE e = Log(h, r, "failed")
      <3> HIDE DEF h
      <3> QED BY <1>1, <2>2, Fields
    <2> QED BY <2>1, <2>2
  <1>3. Tells(e, "failed", r)
    BY <1>1, <1>2 DEF Tells
  <1>4. OnlyRow(d, e, r)
    BY <1>1, <1>2 DEF OnlyRow
  <1> QED BY <1>3, <1>4

\* What the session has to say of row r before the row gets its outcome.
Untold(r) ==
  /\ r \in Rows /\ stage \in 1..MaxStages /\ MaxStages \in Nat
  /\ db \in Store /\ work \in Store
  /\ ~Quarantine => db.held = {} /\ work.held = {}
  /\ ~dropped => work.decided[r] # "undecided" /\ <<r, stage, "failed">> \notin work.logs

\* The session after an outcome: the store it started from with row r changed,
\* and if nothing was discarded the session of before with row r told.
TellsOutcome(r, o) ==
  /\ \E d \in {work, db} : OnlyRow(d, work', r)
  /\ ~dropped' => ~dropped /\ OnlyRow(work, work', r) /\ Tells(work', o, r)

\* The logs of an outcome, apart from what the rest of the row says.
LEMMA OnlyRowLogs ==
  ASSUME NEW d \in Store, NEW r \in Rows, stage \in 1..MaxStages, MaxStages \in Nat,
         ~Quarantine => d.held = {}
  PROVE  /\ OnlyRow(d, Release(Write(d, r), r), r)
         /\ OnlyRow(d, Release(Log(Write(d, r), r, "success"), r), r)
         /\ OnlyRow(d, Release(Log(d, r, "success"), r), r)
         /\ OnlyRow(d, Hold(d, r), r)
         /\ OnlyRow(d, Log(Hold(d, r), r, "failed"), r)
         /\ OnlyRow(d, Log(d, r, "failed"), r)
  <1>0. d.norm \in [Rows -> 0..MaxStages]
    BY DEF Store
  <1>1. /\ Write(d, r) \in Store /\ OnlyRow(d, Write(d, r), r)
        /\ Hold(d, r) \in Store /\ OnlyRow(d, Hold(d, r), r)
    <2>1. "success" \in {"success", "failed"}
      OBVIOUS
    <2>2. /\ Write(d, r) \in Store /\ Write(d, r).norm = [d.norm EXCEPT ![r] = stage]
          /\ Write(d, r).held = d.held /\ Write(d, r).decided = d.decided
          /\ Write(d, r).logs = d.logs
      BY <2>1, Fields
    <2>3. /\ Hold(d, r) \in Store /\ Hold(d, r).norm = d.norm
          /\ Hold(d, r).held = IF Quarantine THEN d.held \cup {r} ELSE d.held
          /\ Hold(d, r).decided = d.decided /\ Hold(d, r).logs = d.logs
      BY <2>1, Fields
    <2>4. OnlyRow(d, Write(d, r), r)
      BY <1>0, <2>2 DEF OnlyRow
    <2>5. OnlyRow(d, Hold(d, r), r)
      BY <2>3 DEF OnlyRow
    <2> QED BY <2>2, <2>3, <2>4, <2>5
  <1>2. ASSUME NEW e \in Store, OnlyRow(d, e, r), NEW s \in {"success", "failed"}
        PROVE  Log(e, r, s) \in Store /\ OnlyRow(d, Log(e, r, s), r)
    <2>1. /\ Log(e, r, s) \in Store /\ Log(e, r, s).norm = e.norm
          /\ Log(e, r, s).held = e.held /\ Log(e, r, s).decided = e.decided
          /\ Log(e, r, s).logs = e.logs \cup {<<r, stage, s>>}
      BY <1>2, LogFields
    <2> QED BY <1>2, <2>1 DEF OnlyRow
  <1>3. ASSUME NEW e \in Store, OnlyRow(d, e, r)
        PROVE  Release(e, r) \in Store /\ OnlyRow(d, Release(e, r), r)
    <2>0. "success" \in {"success", "failed"}
      OBVIOUS
    <2>1. /\ Release(e, r) \in Store /\ Release(e, r).norm = e.norm
          /\ Release(e, r).held = IF Quarantine THEN e.held \ {r} ELSE e.held
          /\ Release(e, r).decided = e.decided /\ Release(e, r).logs = e.logs
      BY <2>0, Fields
    <2> QED BY <1>3, <2>1 DEF OnlyRow
  <1>4. OnlyRow(d, d, r)
    BY DEF OnlyRow
  <1>5. OnlyRow(d, Release(Write(d, r), r), r)
    BY <1>1, <1>3
  <1>6. OnlyRow(d, Release(Log(Write(d, r), r, "success"), r), r)
    BY <1>1, <1>2, <1>3
  <1>7. OnlyRow(d, Release(Log(d, r, "success"), r), r)
    BY <1>2, <1>3, <1>4
  <1>8. OnlyRow(d, Log(Hold(d, r), r, "failed"), r) /\ OnlyRow(d, Log(d, r, "failed"), r)
    BY <1>1, <1>2, <1>4
  <1> QED BY <1>1, <1>5, <1>6, <1>7, <1>8

\* An operation that discards nothing works on the session.
LEMMA NothingDropped ==
  ASSUME NEW base, Retried(base), ~dropped'
  PROVE  ~dropped /\ base = work
  <1>1. CASE base = work /\ UNCHANGED lineVars
    BY <1>1, Zenon DEF lineVars
  <1>2. CASE base = db /\ dropped' = (dropped \/ work # db)
    BY <1>2, Zenon
  <1> QED BY <1>1, <1>2 DEF Retried

\* A row mapped without a request is told as normalized.
LEMMA MappedTells ==
  ASSUME NEW r, Untold(r), WriteMapped(r), mode = "mapper" \/ r \in Bare
  PROVE  TellsOutcome(r, "normalized") /\ CountSuccess(r)
  <1>1. PICK base \in {work, db} : Retried(base) /\ work' = Release(Write(base, r), r)
    BY DEF WriteMapped
  <1>2. OnlyRow(base, work', r)
    BY <1>1, OnlyRowLogs DEF Untold
  <1>3. ASSUME ~dropped' PROVE ~dropped /\ OnlyRow(work, work', r) /\ Tells(work', "normalized", r)
    <2>1. ~dropped /\ base = work
      BY <1>1, <1>3, NothingDropped
    <2> QED BY <1>1, <1>2, <2>1, SuccessTells DEF Untold
  <1> QED BY <1>2, <1>3 DEF TellsOutcome, WriteMapped

\* A row of an answer is told as normalized.
LEMMA RecordedTells ==
  ASSUME NEW r, Untold(r), RecordJob(r)
  PROVE  TellsOutcome(r, "normalized") /\ CountSuccess(r)
  <1>1. CASE \E base \in {work, db} :
               Retried(base) /\ work' = Release(Log(Write(base, r), r, "success"), r)
    <2>1. PICK base \in {work, db} :
            Retried(base) /\ work' = Release(Log(Write(base, r), r, "success"), r)
      BY <1>1
    <2>2. OnlyRow(base, work', r)
      BY <2>1, OnlyRowLogs DEF Untold
    <2>3. ASSUME ~dropped' PROVE ~dropped /\ OnlyRow(work, work', r) /\ Tells(work', "normalized", r)
      <3>1. ~dropped /\ base = work
        BY <2>1, <2>3, NothingDropped
      <3>2. /\ work \in Store /\ r \in Rows /\ (~Quarantine => work.held = {})
            /\ stage \in 1..MaxStages /\ MaxStages \in Nat
            /\ work.decided[r] # "undecided" /\ <<r, stage, "failed">> \notin work.logs
        BY <3>1 DEF Untold
      <3> QED BY <2>1, <2>2, <3>1, <3>2, SuccessTells
    <2> QED BY <2>2, <2>3 DEF TellsOutcome, RecordJob
  <1>2. CASE work' = Release(Log(db, r, "success"), r) /\ dropped' = TRUE
    <2>1. OnlyRow(db, work', r)
      BY <1>2, OnlyRowLogs DEF Untold
    <2> QED BY <1>2, <2>1 DEF TellsOutcome, RecordJob
  <1> QED BY <1>1, <1>2 DEF RecordJob

\* A row that fails is told as failed.
LEMMA FailedTells ==
  ASSUME NEW r, Untold(r), RejectRow(r) \/ WriteTwiceLost(r) \/ RecordError(r)
  PROVE  TellsOutcome(r, "failed") /\ CountFailure(r)
  <1>0. OnlyRow(work, Hold(work, r), r) /\ OnlyRow(db, Hold(db, r), r)
        /\ OnlyRow(work, Log(Hold(work, r), r, "failed"), r) /\ OnlyRow(db, Log(db, r, "failed"), r)
    BY OnlyRowLogs DEF Untold
  <1>1. ASSUME ~dropped PROVE /\ Tells(Hold(work, r), "failed", r)
                              /\ Tells(Log(Hold(work, r), r, "failed"), "failed", r)
    BY <1>1, FailureTells DEF Untold
  <1>2. CASE RejectRow(r)
    <2>1. dropped' = dropped
      BY <1>2, Zenon DEF RejectRow, lineVars
    <2> QED BY <1>0, <1>1, <1>2, <2>1 DEF RejectRow, TellsOutcome
  <1>3. CASE WriteTwiceLost(r)
    <2>1. ~dropped' => ~dropped /\ work = db
      BY <1>3, Zenon DEF WriteTwiceLost
    <2> QED BY <1>0, <1>1, <1>3, <2>1 DEF WriteTwiceLost, TellsOutcome
  <1>4. CASE work' = Log(Hold(work, r), r, "failed") /\ UNCHANGED lineVars /\ CountFailure(r)
    <2>1. dropped' = dropped
      BY <1>4, Zenon DEF lineVars
    <2> QED BY <1>0, <1>1, <1>4, <2>1 DEF TellsOutcome
  <1>5. CASE /\ work' = Log(db, r, "failed") /\ dropped' = (dropped \/ Hold(work, r) # db)
             /\ CountFailure(r)
    <2>1. ~dropped' => ~dropped /\ Hold(work, r) = db
      BY <1>5, Zenon
    <2> QED BY <1>0, <1>1, <1>5, <2>1 DEF TellsOutcome
  <1> QED BY <1>2, <1>3, <1>4, <1>5 DEF RecordError

\* Whatever becomes of a pending row, the stage tells it.
LEMMA OutcomeTells ==
  ASSUME IInv, CountInv, ToldInv, NEW r \in Rows,
         \/ MapRow(r) \/ RecordResult(r)
         \/ PrepareRow(r) /\ prompts' = prompts
  PROVE  \/ TellsOutcome(r, "normalized") /\ CountSuccess(r)
         \/ TellsOutcome(r, "failed") /\ CountFailure(r)
  <1>1. r \in Pending /\ pc \notin {"idle", "gate"}
    BY PendingSteps DEF MapRow, RecordResult, PrepareRow
  <1>2. r \in scope /\ outcome[r] = "none"
    BY <1>1 DEF CountInv, Gated, Counted
  <1>3. Untold(r)
    <2>1. stage \in 1..MaxStages /\ MaxStages \in Nat /\ db \in Store /\ work \in Store
      BY <1>1, SwitchesAssumption DEF IInv, Shape, TypeOK
    <2>2. ~Quarantine => db.held = {} /\ work.held = {}
      BY DEF IInv, Sound
    <2>3. ~dropped => Tells(work, outcome[r], r)
      BY <1>1, <1>2 DEF ToldInv, Gated
    <2>4. ~dropped => work.decided[r] # "undecided" /\ <<r, stage, "failed">> \notin work.logs
      BY <1>2, <2>3 DEF Tells
    <2> QED BY <2>1, <2>2, <2>4 DEF Untold
  <1>4. CASE MapRow(r)
    <2>1. mode = "mapper" /\ (WriteMapped(r) \/ RejectRow(r) \/ WriteTwiceLost(r))
      BY <1>4 DEF MapRow, ToldInv
    <2> QED BY <1>3, <2>1, MappedTells, FailedTells
  <1>5. CASE RecordResult(r)
    BY <1>3, <1>5, RecordedTells, FailedTells DEF RecordResult
  <1>6. CASE PrepareRow(r) /\ prompts' = prompts
    <2>1. prompts' # prompts \cup {r}
      BY <1>6 DEF PrepareRow, IsFirst, IInv, Shape
    <2>2. RejectRow(r) \/ (r \in Bare /\ WriteMapped(r))
      BY <1>6, <2>1 DEF PrepareRow
    <2> QED BY <1>3, <2>2, MappedTells, FailedTells
  <1> QED BY <1>4, <1>5, <1>6

\* A row that is told leaves what the stage tells of the others alone.
LEMMA OutcomeKeepsTold ==
  ASSUME IInv, CountInv, ToldInv, NEW r \in Rows, NEW o \in {"normalized", "failed"},
         TellsOutcome(r, o), outcome' = [outcome EXCEPT ![r] = o],
         UNCHANGED <<scope, stage, mode, db>>, pc \notin {"idle", "gate"},
         pc' \notin {"idle", "gate"}, pc' = "map" => pc = "map"
  PROVE  ToldInv'
  <1>s. stage \in 1..MaxStages /\ scope \subseteq Rows
    BY DEF IInv, Shape, TypeOK
  <1>1. LogsOf(db)'
    BY DEF ToldInv, LogsOf
  <1>2. LogsOf(work)'
    <2>1. PICK d \in {work, db} : OnlyRow(d, work', r)
      BY DEF TellsOutcome
    <2>2. LogsOf(d)
      BY DEF ToldInv
    <2> SUFFICES ASSUME NEW t \in Rows, NEW n \in 1..MaxStages, NEW s \in {"success", "failed"},
                        <<t, n, s>> \in work'.logs
                 PROVE  n <= stage
      BY DEF LogsOf
    <2>3. <<t, n, s>> \in d.logs \/ n = stage
      BY <2>1 DEF OnlyRow
    <2>4. <<t, n, s>> \in d.logs => n <= stage
      BY <2>2 DEF LogsOf
    <2> QED BY <1>s, <2>3, <2>4, SwitchesAssumption
  <1>3. ASSUME ~dropped', NEW t \in scope PROVE Tells(work, outcome[t], t)'
    <2>1. ~dropped /\ OnlyRow(work, work', r) /\ Tells(work', o, r)
      BY <1>3 DEF TellsOutcome
    <2>2. CASE t = r
      <3>1. outcome'[t] = o
        BY <2>2 DEF IInv, TypeOK
      <3> QED BY <2>1, <2>2, <3>1 DEF Tells
    <2>3. CASE t # r
      <3>1. outcome'[t] = outcome[t] /\ Tells(work, outcome[t], t) /\ t \in Rows
        BY <1>s, <2>1, <2>3 DEF IInv, TypeOK, ToldInv, Gated
      <3>2. /\ work'.decided = work.decided /\ work'.norm[t] = work.norm[t]
            /\ t \in work'.held <=> t \in work.held
            /\ <<t, stage, "success">> \in work'.logs <=> <<t, stage, "success">> \in work.logs
            /\ <<t, stage, "failed">> \in work'.logs <=> <<t, stage, "failed">> \in work.logs
        BY <1>s, <2>1, <2>3, <3>1 DEF OnlyRow
      <3> QED BY <3>1, <3>2 DEF Tells
    <2> QED BY <2>2, <2>3
  <1> QED BY <1>1, <1>2, <1>3 DEF ToldInv

\* A commit, done or repeated, keeps what the session tells unless it is dropped.
LEMMA CommitTells ==
  ASSUME ToldInv, CommitProgress
  PROVE  /\ db' \in {db, work} /\ work' \in {db, work}
         /\ ~dropped' => ~dropped /\ work' = work
  <1>1. CASE db' = work /\ UNCHANGED <<work, lineVars>>
    BY <1>1, Zenon DEF lineVars
  <1>2. CASE work' = db /\ UNCHANGED db /\ dropped' = (dropped \/ work # db)
    BY <1>2, Zenon
  <1> QED BY <1>1, <1>2 DEF CommitProgress

\* Stores that were there before, told after the gate as before it.
LEMMA MoveTells ==
  ASSUME ToldInv, pc # "idle", pc # "gate", pc' # "gate", pc' = "map" => pc = "map",
         UNCHANGED <<scope, stage, mode, outcome>>,
         db' \in {db, work}, work' \in {db, work}, ~dropped' => ~dropped /\ work' = work
  PROVE  ToldInv'
  <1>1. LogsOf(db)' /\ LogsOf(work)'
    BY DEF ToldInv, LogsOf
  <1>2. ASSUME ~dropped' PROVE \A r \in scope : Tells(work, outcome[r], r)'
    BY <1>2 DEF ToldInv, Gated, Tells
  <1> QED BY <1>1, <1>2 DEF ToldInv

\* After the gate every row of the scope is decided, and none is told yet.
LEMMA GateTells ==
  ASSUME IInv, CountInv, ToldInv, Gate
  PROVE  ToldInv'
  <1>1. PICK known \in {backend, {}} :
          work' = [work EXCEPT !.decided =
                     [r \in Rows |-> IF r \in scope THEN Decide(r, known) ELSE @[r]]]
    BY DEF Gate
  <1>2. /\ work \in Store /\ scope \subseteq Rows /\ stage \in 1..MaxStages
        /\ pc = "gate" /\ \A r \in Rows : outcome[r] = "none"
        /\ UNCHANGED <<db, outcome, scope, stage, mode>>
        /\ pc' # "gate" /\ (pc' = "map" => mode = "mapper")
    BY DEF IInv, TypeOK, Shape, Gate, CountInv, runVars
  <1>3. work'.logs = work.logs
        /\ work'.decided = [r \in Rows |-> IF r \in scope THEN Decide(r, known) ELSE work.decided[r]]
    BY <1>1, <1>2 DEF Store
  <1>4. LogsOf(db)' /\ LogsOf(work)'
    BY <1>2, <1>3 DEF ToldInv, LogsOf
  <1>5. ASSUME NEW r \in scope PROVE Tells(work, outcome[r], r)'
    <2>1. work'.decided[r] = Decide(r, known) /\ outcome'[r] = "none"
      BY <1>2, <1>3
    <2>2. Decide(r, known) # "undecided"
      BY DecisionType DEF Reasons
    <2>3. <<r, stage, "failed">> \notin work.logs
      <3>1. LogsOf(work) /\ r \in Rows /\ "failed" \in {"success", "failed"}
        BY <1>2 DEF ToldInv
      <3>2. ~(stage < stage)
        BY <1>2, SwitchesAssumption
      <3> QED BY <1>2, <3>1, <3>2 DEF LogsOf
    <2> QED BY <1>2, <1>3, <2>1, <2>2, <2>3 DEF Tells
  <1> QED BY <1>2, <1>4, <1>5 DEF ToldInv

\* Initially nothing is logged.
LEMMA InitTold == Init => ToldInv
  BY DEF Init, ToldInv, LogsOf, Gated, Closed

\* Every step keeps what the stage tells.
LEMMA StepTold == IInv /\ CountInv /\ ToldInv /\ [Next]_vars => ToldInv'
  <1> SUFFICES ASSUME IInv, CountInv, ToldInv, [Next]_vars PROVE ToldInv'
    OBVIOUS
  <1>1. ASSUME NEW m \in Modes, NEW S \in SUBSET Rows, StartStage(m, S) PROVE ToldInv'
    <2>1. /\ pc' = "gate" /\ stage' = stage + 1 /\ db' = db /\ work' = work
          /\ stage \in 0..MaxStages
      BY <1>1 DEF StartStage, storeVars, IInv, TypeOK
    <2>2. LogsOf(db)' /\ LogsOf(work)'
      BY <2>1, SwitchesAssumption DEF ToldInv, LogsOf
    <2> QED BY <2>1, <2>2 DEF ToldInv, Gated, Closed
  <1>2. ASSUME NEW r \in Rows, Deliver(r) PROVE ToldInv'
    BY <1>2 DEF Deliver, storeVars, runVars, lineVars, ToldInv, LogsOf, Tells, Gated, Closed
  <1>3. ASSUME Gate PROVE ToldInv'
    BY <1>3, GateTells
  <1>4. ASSUME NEW r \in Rows,
               \/ MapRow(r) \/ RecordResult(r)
               \/ PrepareRow(r) /\ prompts' = prompts
        PROVE  ToldInv'
    <2>1. UNCHANGED <<scope, stage, mode, db>> /\ pc \notin {"idle", "gate"}
          /\ pc' \notin {"idle", "gate"} /\ (pc' = "map" => pc = "map")
      BY <1>4 DEF MapRow, RecordResult, PrepareRow, runVars
    <2>2. PICK o \in {"normalized", "failed"} :
            TellsOutcome(r, o) /\ outcome' = [outcome EXCEPT ![r] = o]
      BY <1>4, OutcomeTells DEF CountSuccess, CountFailure
    <2> QED BY <2>1, <2>2, OutcomeKeepsTold
  <1>5. ASSUME NEW r \in Rows, PrepareRow(r), prompts' # prompts PROVE ToldInv'
    <2>1. UNCHANGED <<scope, stage, mode, outcome, db, work, dropped>> /\ pc = "prepare" /\ pc' = pc
      BY <1>5 DEF PrepareRow, RejectRow, runVars, lineVars
    <2> QED BY <2>1, MoveTells
  <1>6. ASSUME TakeBatch \/ Ask \/ BatchDone PROVE ToldInv'
    <2>1. /\ CommitProgress /\ UNCHANGED <<scope, stage, mode, outcome>>
          /\ pc \notin {"idle", "gate"} /\ pc' \notin {"gate", "map"}
      BY <1>6 DEF TakeBatch, Ask, BatchDone, runVars
    <2> QED BY <2>1, CommitTells, MoveTells
  <1>7. ASSUME EndRows \/ CloseRun PROVE ToldInv'
    <2>1. /\ db' \in {db, work} /\ UNCHANGED <<scope, stage, mode, outcome, work, dropped>>
          /\ pc \notin {"idle", "gate"} /\ pc' \notin {"gate", "map"}
      BY <1>7 DEF EndRows, CloseRun, runVars, storeVars, lineVars
    <2> QED BY <2>1, MoveTells
  <1>8. ASSUME Abort PROVE ToldInv'
    <2>1. /\ db' = db /\ work' = db /\ pc' = "idle" /\ stage' = stage /\ status' = "started"
      BY <1>8 DEF Abort, CountInv, runVars
    <2>2. LogsOf(db)' /\ LogsOf(work)'
      BY <2>1 DEF ToldInv, LogsOf
    <2> QED BY <2>1, <2>2 DEF ToldInv, Gated, Closed
  <1>9. CASE UNCHANGED vars
    BY <1>9 DEF vars, storeVars, runVars, lineVars, ToldInv, LogsOf, Tells, Gated, Closed
  <1> QED BY <1>1, <1>2, <1>3, <1>4, <1>5, <1>6, <1>7, <1>8, <1>9 DEF Next, Step

\* If no rollback discarded anything, a closed stage left each row in the
\* database as it counted it.
THEOREM ReportIsTrue == Spec => []ReportMatchesStore
  <1>1. IInv /\ CountInv /\ ToldInv /\ [Next]_vars => (IInv /\ CountInv /\ ToldInv)'
    BY StepIInv, StepCounts, StepTold
  <1>2. Init => IInv /\ CountInv /\ ToldInv
    BY InitIInv, InitCounts, InitTold
  <1>3. IInv /\ CountInv /\ ToldInv => ReportMatchesStore
    <2> SUFFICES ASSUME IInv, ToldInv, Closed, ~dropped, NEW r \in scope
                 PROVE  Tells(db, outcome[r], r)
      BY DEF ReportMatchesStore, Tells
    <2>1. work = db
      BY DEF IInv, Shape, Closed
    <2> QED BY <2>1 DEF ToldInv, Gated
  <1> QED BY <1>1, <1>2, <1>3, PTL DEF Spec

-----------------------------------------------------------------------------
(* Progress of a stage *)

\* A row that is still to come has four ways ahead of it: into a batch, into a
\* prompt, into a request and to its result.  Before the gate, more than all
\* rows have.
WaysLeft ==
  IF pc = "gate" THEN 4 * Cardinality(Rows) + 1
  ELSE 4 * Cardinality(left) + 3 * Cardinality(batch) + 2 * Cardinality(prompts) + Cardinality(asked)

\* Between the rows: the end of a batch, the last commit, the end of the run.
PlacesLeft == [gate |-> 3, prepare |-> 3, record |-> 3, map |-> 2, chunk |-> 2, close |-> 1]

StageShrinks ==
  \/ WaysLeft' < WaysLeft
  \/ WaysLeft' = WaysLeft /\ PlacesLeft[pc'] < PlacesLeft[pc]

\* Rows of a list that some are taken from.
LEMMA Taken ==
  ASSUME NEW S \in SUBSET Rows, NEW k \in Nat \ {0}, NEW P \in Prefixes(S, k), S # {}
  PROVE  Cardinality(S \ P) = Cardinality(S) - Cardinality(P) /\ Cardinality(P) > 0
<1>1. P \in SUBSET S /\ Cardinality(P) = Least(k, Cardinality(S))
  BY DEF Prefixes
<1>2. IsFiniteSet(S)
  BY RowsAssumption, FS_Subset
<1>3. Cardinality(S) \in Nat /\ Cardinality(S) # 0
  BY <1>2, FS_CardinalityType, FS_EmptySet
<1>4. Cardinality(P) > 0
  BY <1>1, <1>3 DEF Least
<1>5. S \cap P = P
  BY <1>1
<1>6. Cardinality(S \ P) = Cardinality(S) - Cardinality(P)
  BY <1>2, <1>5, FS_Difference
<1> QED BY <1>4, <1>6

\* Each step of the stage, but its start and an abort.
LEMMA StageStep ==
  ASSUME IInv, IInv', Step, pc' # "idle"
  PROVE  StageShrinks
<1>t. TypeOK /\ TypeOK' /\ Shape /\ Shape'
  BY DEF IInv
<1>p. PlacesLeft["prepare"] = 3 /\ PlacesLeft["map"] = 2 /\ PlacesLeft["chunk"] = 2 /\ PlacesLeft["close"] = 1
  BY DEF PlacesLeft
<1>s. /\ left \in SUBSET Rows /\ batch \in SUBSET Rows /\ prompts \in SUBSET Rows /\ asked \in SUBSET Rows
      /\ left' \in SUBSET Rows
  BY <1>t DEF TypeOK
<1>n. /\ Cardinality(left) \in Nat /\ Cardinality(batch) \in Nat
      /\ Cardinality(prompts) \in Nat /\ Cardinality(asked) \in Nat
  BY <1>s, Sizes
<1>e. Cardinality({}) = 0
  BY FS_EmptySet
<1>1. CASE Gate
  <2>1. pc = "gate" /\ pc' # "gate" /\ UNCHANGED <<batch, prompts, asked>>
    BY <1>1 DEF Gate
  <2>2. batch = {} /\ prompts = {} /\ asked = {}
    BY <1>t, <2>1 DEF Shape
  <2>3. Cardinality(left') <= Cardinality(Rows)
    BY <1>s, RowsAssumption, FS_Subset
  <2>4. Cardinality(left') \in Nat /\ Cardinality(Rows) \in Nat
    BY <1>s, Sizes
  <2> QED BY <1>e, <2>1, <2>2, <2>3, <2>4 DEF StageShrinks, WaysLeft
<1>2. ASSUME NEW r \in Rows, MapRow(r) PROVE StageShrinks
  <2>1. /\ pc = "map" /\ pc' = "map" /\ r \in left /\ left' = left \ {r}
        /\ batch' = batch /\ prompts' = prompts /\ asked' = asked
    BY <1>2 DEF MapRow, IsFirst
  <2>2. Cardinality(left') = Cardinality(left) - 1
    BY <1>s, <2>1, OneMore
  <2> QED BY <1>n, <2>1, <2>2 DEF StageShrinks, WaysLeft
<1>3. ASSUME NEW r \in Rows, PrepareRow(r) PROVE StageShrinks
  <2>1. /\ pc = "prepare" /\ pc' = "prepare" /\ r \in batch /\ batch' = batch \ {r}
        /\ left' = left /\ asked' = asked /\ (prompts' = prompts \/ prompts' = prompts \cup {r})
        /\ r \notin prompts
    BY <1>t, <1>3 DEF PrepareRow, IsFirst, Shape
  <2>2. Cardinality(batch') = Cardinality(batch) - 1
    BY <1>s, <2>1, OneMore
  <2>3. Cardinality(prompts') = Cardinality(prompts) \/ Cardinality(prompts') = Cardinality(prompts) + 1
    BY <1>s, <2>1, OneMore
  <2> QED BY <1>n, <2>1, <2>2, <2>3 DEF StageShrinks, WaysLeft
<1>4. ASSUME NEW r \in Rows, RecordResult(r) PROVE StageShrinks
  <2>1. /\ pc = "record" /\ pc' # "gate" /\ r \in asked /\ asked' = asked \ {r}
        /\ left' = left /\ batch' = batch /\ prompts' = prompts
    BY <1>4 DEF RecordResult, IsFirst
  <2>2. Cardinality(asked') = Cardinality(asked) - 1
    BY <1>s, <2>1, OneMore
  <2> QED BY <1>n, <2>1, <2>2 DEF StageShrinks, WaysLeft
<1>5. CASE TakeBatch
  <2>1. PICK P \in Prefixes(left, BatchSize) : batch' = P /\ left' = left \ P
    BY <1>5 DEF TakeBatch
  <2>2. /\ pc = "chunk" /\ pc' = "prepare" /\ left # {} /\ batch = {}
        /\ prompts' = prompts /\ asked' = asked
    BY <1>t, <1>5 DEF TakeBatch, Shape
  <2>3. Cardinality(left') = Cardinality(left) - Cardinality(P) /\ Cardinality(P) > 0
    BY <1>s, <2>1, <2>2, Taken, SwitchesAssumption
  <2>4. Cardinality(batch') = Cardinality(P) /\ Cardinality(P) \in Nat
    BY <1>s, <2>1, Sizes DEF Prefixes
  <2> QED BY <1>n, <1>e, <2>2, <2>3, <2>4 DEF StageShrinks, WaysLeft
<1>6. CASE Ask
  <2> DEFINE k == IF mode = "batch" THEN Cardinality(prompts) ELSE 1
  <2>1. PICK A \in Prefixes(prompts, k) : asked' = A /\ prompts' = prompts \ A
    BY <1>6 DEF Ask
  <2>2. /\ pc = "prepare" /\ pc' = "record" /\ prompts # {} /\ asked = {}
        /\ left' = left /\ batch' = batch
    BY <1>t, <1>6 DEF Ask, Shape
  <2>3. Cardinality(prompts) # 0
    BY <1>s, <2>2, RowsAssumption, FS_Subset, FS_EmptySet
  <2>4. k \in Nat \ {0}
    BY <1>n, <2>3
  <2> HIDE DEF k
  <2>5. Cardinality(prompts') = Cardinality(prompts) - Cardinality(A) /\ Cardinality(A) > 0
    BY <1>s, <2>1, <2>2, <2>4, Taken
  <2>6. Cardinality(asked') = Cardinality(A) /\ Cardinality(A) \in Nat
    BY <1>s, <2>1, Sizes DEF Prefixes
  <2> QED BY <1>n, <1>e, <2>2, <2>5, <2>6 DEF StageShrinks, WaysLeft
<1>7. CASE BatchDone
  <2>1. pc = "prepare" /\ pc' = "chunk" /\ UNCHANGED <<left, batch, prompts, asked>>
    BY <1>7 DEF BatchDone, queueVars
  <2>2. WaysLeft' = WaysLeft
    BY <2>1 DEF WaysLeft
  <2>3. PlacesLeft[pc'] < PlacesLeft[pc]
    BY <1>p, <2>1
  <2> QED BY <2>2, <2>3 DEF StageShrinks
<1>8. CASE EndRows
  <2>1. pc \in {"map", "chunk"} /\ pc' = "close" /\ UNCHANGED <<left, batch, prompts, asked>>
    BY <1>8 DEF EndRows, queueVars
  <2>2. WaysLeft' = WaysLeft
    BY <2>1 DEF WaysLeft
  <2>3. PlacesLeft[pc'] < PlacesLeft[pc]
    BY <1>p, <2>1
  <2> QED BY <2>2, <2>3 DEF StageShrinks
<1>9. CASE CloseRun
  BY <1>9 DEF CloseRun
<1> QED BY <1>1, <1>2, <1>3, <1>4, <1>5, <1>6, <1>7, <1>8, <1>9 DEF Step

\* Whatever requests, rows and connections fail, each step of a stage leaves
\* less of it: fewer ways of rows to go, and then fewer places (run_normalize,
\* _normalize_batch).
THEOREM StagesAlwaysShrink ==
  Spec => [][pc # "idle" /\ pc' # "idle" => StageShrinks]_vars
<1>1. IInv /\ IInv' /\ [Next]_vars => [pc # "idle" /\ pc' # "idle" => StageShrinks]_vars
  <2> SUFFICES ASSUME IInv, IInv', Next, pc # "idle", pc' # "idle" PROVE StageShrinks
    OBVIOUS
  <2>1. ~(\E m \in Modes, S \in SUBSET Rows : StartStage(m, S)) /\ ~(\E r \in Rows : Deliver(r))
    BY DEF StartStage, Deliver
  <2>2. ~Abort
    BY DEF Abort
  <2> QED BY <2>1, <2>2, StageStep DEF Next
<1> QED BY <1>1, Invariance, PTL DEF Spec

=============================================================================

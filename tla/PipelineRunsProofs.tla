------------------------- MODULE PipelineRunsProofs -------------------------
(***************************************************************************)
(* Proofs about PipelineRuns.                                              *)
(*                                                                         *)
(* For any number of processes, calls and deaths: run rows are sound and   *)
(* close once, what is handed off was synced, sessions lock in order, and  *)
(* the handoff of a full run forgets no delivery (IInv is the inductive    *)
(* invariant).                                                             *)
(*                                                                         *)
(* For one process at a time, whatever it runs and wherever it dies: what  *)
(* is announced is what the run itself captured and delivered, and a sync  *)
(* leaves no job of its scope undecided but for its limit (SoloInv, what a *)
(* session knows of the committed rows, is inductive relative to IInv).    *)
(* With two processes these two are false: a session writes back what it   *)
(* read before the other one committed, and a job that the other captures  *)
(* while this one lists it is synced under the wrong run.                  *)
(***************************************************************************)
EXTENDS PipelineRuns, SequenceTheorems, FiniteSetTheorems, TLAPS

Begun(p) == at[p] \notin {"idle", "start"}

Step(p) ==
  \/ \E b \in Bases, c \in Calls : Invoke(p, b, c)
  \/ Work(p)
  \/ Die(p)

Rests == {SubSeq(Full, i, 5) : i \in 2..6}

\* The plan of a call is the full one or a single stage.
LEMMA CallParts ==
  ASSUME NEW c \in Calls
  PROVE  /\ c.plan \in {Full} \cup {<<s>> : s \in Stages}
         /\ c.jobs \subseteq Jobs /\ c.limit \in Nat \ {0}
  BY CallsAssumption

-----------------------------------------------------------------------------
(* What is left of a plan *)

\* The full plan is a sequence of five stages.
LEMMA FullSeq == Full \in Seq(Stages) /\ Len(Full) = 5
  BY DEF Full, Stages

\* Every suffix of the full plan but the empty one starts with a stage.
LEMMA RestLeft ==
  ASSUME NEW i \in 1..5
  PROVE  /\ Head(SubSeq(Full, i, 5)) \in Stages
         /\ Tail(SubSeq(Full, i, 5)) = SubSeq(Full, i + 1, 5)
         /\ Len(SubSeq(Full, i, 5)) = 6 - i
         /\ SubSeq(Full, i, 5) # <<>>
         /\ Head(SubSeq(Full, i, 5)) = Full[i]
<1>1. \A k \in i..5 : Full[k] \in Stages
  BY FullSeq, ElementOfSeq
<1>2. Len(SubSeq(Full, i, 5)) = 6 - i
  BY <1>1, SubSeqProperties
<1>3. Head(SubSeq(Full, i, 5)) = Full[i] /\ Tail(SubSeq(Full, i, 5)) = SubSeq(Full, i + 1, 5)
  BY FullSeq, HeadTailOfSubSeq
<1>4. Len(<<>>) = 0
  BY EmptySeq
<1>5. Len(SubSeq(Full, i, 5)) # 0
  BY <1>2
<1>6. SubSeq(Full, i, 5) # <<>>
  BY <1>4, <1>5
<1>7. Full[i] \in Stages
  BY <1>1
<1> QED BY <1>2, <1>3, <1>6, <1>7

\* Nothing is left of the full plan after its fifth stage.
LEMMA EmptyRest == SubSeq(Full, 6, 5) = <<>>
  BY SubSeqEmpty

\* A plan that is under way has a stage at its head, and loses one at a time.
LEMMA TodoLeft ==
  ASSUME NEW t \in Todos, t # <<>>
  PROVE  /\ Head(t) \in Stages
         /\ Len(t) > 1 => Tail(t) \in Rests /\ Tail(t) # <<>>
         /\ Len(t) > 1 /\ Head(Tail(t)) = "notify" => Head(t) = "sync"
<1>1. CASE t = Full
  <2>1. Tail(t) = SubSeq(Full, 2, 5) /\ Head(t) \in Stages
    BY <1>1 DEF Full, Stages
  <2>2. SubSeq(Full, 2, 5) # <<>> /\ SubSeq(Full, 2, 5) \in Rests
    BY RestLeft DEF Rests
  <2>3. Head(Tail(t)) = "normalize"
    BY <2>1, RestLeft DEF Full
  <2> QED BY <2>1, <2>2, <2>3
<1>2. CASE \E s \in Stages : t = <<s>>
  BY <1>2
<1>3. CASE t \in Rests
  <2>1. PICK i \in 2..6 : t = SubSeq(Full, i, 5)
    BY <1>3 DEF Rests
  <2>2. i \in 2..5
    BY <2>1, EmptyRest
  <2>3. Len(t) > 1 => i + 1 \in 1..5 /\ i + 1 \in 2..6
    BY <2>1, <2>2, RestLeft
  <2>4. ASSUME Len(t) > 1 PROVE Tail(t) \in Rests /\ Tail(t) # <<>>
    <3>1. Tail(t) = SubSeq(Full, i + 1, 5)
      BY <2>1, <2>2, RestLeft
    <3>2. SubSeq(Full, i + 1, 5) # <<>>
      BY <2>3, <2>4, RestLeft
    <3>3. SubSeq(Full, i + 1, 5) \in Rests
      BY <2>3, <2>4 DEF Rests
    <3> QED BY <3>1, <3>2, <3>3
  <2>5. Head(t) \in Stages
    BY <2>1, <2>2, RestLeft
  <2>6. ASSUME Len(t) > 1, Head(Tail(t)) = "notify" PROVE Head(t) = "sync"
    <3>1. Head(Tail(t)) = Full[i + 1] /\ Head(t) = Full[i] /\ i + 1 \in 2..5
      BY <2>1, <2>2, <2>3, <2>6, RestLeft
    <3>2. i + 1 = 5
      BY <2>6, <3>1 DEF Full
    <3> QED BY <3>1, <3>2 DEF Full
  <2> QED BY <2>4, <2>5, <2>6
<1>4. t \in {c.plan : c \in Calls} => t = Full \/ \E s \in Stages : t = <<s>>
  BY CallParts
<1> QED BY <1>1, <1>2, <1>3, <1>4 DEF Todos, Rests

-----------------------------------------------------------------------------
(* Types *)

\* What TypeOK says of a process that has an invocation.
LEMMA Busy ==
  ASSUME TypeOK, NEW p \in Procs, at[p] # "idle"
  PROVE  /\ base[p] \in Bases
         /\ todo[p] \in Todos /\ todo[p] # <<>>
         /\ Stage(p) \in Stages
         /\ Row(p) \in Bases \X Stages
         /\ Len(todo[p]) > 1 => Tail(todo[p]) \in Todos /\ Tail(todo[p]) # <<>>
<1>1. base[p] \in Bases /\ todo[p] \in Todos /\ todo[p] # <<>>
  BY DEF TypeOK
<1>2. Stage(p) \in Stages /\ (Len(todo[p]) > 1 => Tail(todo[p]) \in Todos /\ Tail(todo[p]) # <<>>)
  BY <1>1, TodoLeft DEF Stage, Todos, Rests
<1> QED BY <1>1, <1>2 DEF Row

\* A plan is not empty.
LEMMA PlanNonEmpty ==
  ASSUME NEW c \in Calls
  PROVE  c.plan \in Todos /\ c.plan # <<>>
<1>1. c.plan \in Todos
  BY DEF Todos
<1>2. CASE c.plan = Full
  <2>1. Len(c.plan) = 5 /\ Len(<<>>) = 0
    BY <1>2, FullSeq
  <2> QED BY <1>1, <2>1
<1>3. CASE \E s \in Stages : c.plan = <<s>>
  <2>1. PICK s \in Stages : c.plan = <<s>>
    BY <1>3
  <2>2. Len(<<s>>) = 1 /\ Len(<<>>) = 0
    OBVIOUS
  <2> QED BY <1>1, <2>1, <2>2
<1> QED BY <1>2, <1>3, CallParts

DbTypes ==
  /\ rows \in [Bases \X Stages -> RowStatuses]
  /\ scope \in [Jobs -> Bases \cup {None}]
  /\ norm \in SUBSET Jobs
  /\ event \in [Keys -> Events]
  /\ handoff \in [Jobs \X Bases -> {"none", "failed", "sent"}]

ProcTypes ==
  /\ at \in [Procs -> {"idle", "start", "list", "stage", "write", "post", "handed", "close"}]
  /\ base \in [Procs -> Bases \cup {None}]
  /\ call \in [Procs -> Calls \cup {NoCall}]
  /\ todo \in [Procs -> Todos]
  /\ \A p \in Procs : /\ (at[p] = "idle") = (todo[p] = <<>>)
                      /\ (at[p] = "idle") = (base[p] = None)
  /\ carried \in [Procs -> Bases \cup {None}]

SessionTypes ==
  /\ work \in [Procs -> SUBSET Jobs]
  /\ picked \in [Procs -> SUBSET Keys]
  /\ cur \in [Procs -> SUBSET Keys]
  /\ mem \in [Procs -> [Keys -> MemRows]]
  /\ held \in [Procs -> SUBSET Keys]

OutTypes ==
  /\ synced \in SUBSET Keys
  /\ notified \in SUBSET (Keys \X Bases)
  /\ invoked \in 0..MaxInvocations

\* The empty plan is a rest too: nothing is left after the last stage.
LEMMA EmptyTodo == <<>> \in Todos
<1>1. 6 \in 2..6
  OBVIOUS
<1> QED BY <1>1, EmptyRest DEF Todos, Rests

\* TypeOK in the groups in which the actions change the variables.
LEMMA TypeParts == TypeOK <=> DbTypes /\ ProcTypes /\ SessionTypes /\ OutTypes
  BY Zenon DEF TypeOK, DbTypes, ProcTypes, SessionTypes, OutTypes

\* The same after a step.
LEMMA TypePartsNext == DbTypes' /\ ProcTypes' /\ SessionTypes' /\ OutTypes' => TypeOK'
  BY Zenon DEF TypeOK, DbTypes, ProcTypes, SessionTypes, OutTypes

\* Initially every process is idle and every table is empty.
LEMMA TypeInit == Init => TypeOK
<1> SUFFICES ASSUME Init PROVE TypeOK
  OBVIOUS
<1>1. DbTypes /\ SessionTypes /\ OutTypes
  BY BoundAssumption DEF Init, DbTypes, SessionTypes, MemRows, NotRead, OutTypes, RowStatuses, EventStatuses, Events,
                         NoEvent
<1>2. ProcTypes
  BY EmptyTodo DEF Init, ProcTypes
<1> QED BY <1>1, <1>2, TypeParts

\* The end of an invocation, and of a stage.
LEMMA LeaveTypes ==
  ASSUME TypeOK, NEW p \in Procs, Leave(p)
  PROVE  ProcTypes' /\ SessionTypes'
<1> USE DEF Leave, EmptySession
<1>1. ProcTypes'
  BY TypeParts, EmptyTodo DEF ProcTypes
<1>2. SessionTypes'
  BY TypeParts DEF SessionTypes, MemRows, NotRead, EventStatuses
<1> QED BY <1>1, <1>2

\* The end of a stage leaves a plan with one stage less, or no invocation.
LEMMA CloseTypes ==
  ASSUME TypeOK, NEW p \in Procs, at[p] # "idle",
         NEW status \in {"completed", "failed"},
         NEW known \in Bases \cup {None}, Close(p, status, known)
  PROVE  ProcTypes' /\ SessionTypes' /\ rows' \in [Bases \X Stages -> RowStatuses]
<1>1. rows' \in [Bases \X Stages -> RowStatuses]
  BY Busy, TypeParts DEF Close, DbTypes, RowStatuses
<1>2. CASE Leave(p)
  BY <1>1, <1>2, LeaveTypes
<1>3. CASE ~Leave(p)
  <2>1. /\ Len(todo[p]) > 1
        /\ todo' = [todo EXCEPT ![p] = Tail(@)]
        /\ at' = [at EXCEPT ![p] = "start"]
        /\ carried' = [carried EXCEPT ![p] = known]
        /\ EmptySession(p)
        /\ UNCHANGED <<base, call>>
    BY <1>3 DEF Close
  <2>2. ProcTypes'
    BY <2>1, Busy, TypeParts DEF ProcTypes
  <2>3. SessionTypes'
    BY <2>1, TypeParts DEF SessionTypes, EmptySession, MemRows, NotRead, EventStatuses
  <2> QED BY <1>1, <2>2, <2>3
<1> QED BY <1>2, <1>3

\* What a sync session would commit is typed.
LEMMA CommittedType ==
  ASSUME TypeOK, NEW p \in Procs
  PROVE  Committed(p) \in [Keys -> Events]
<1>1. ASSUME NEW k \in Keys
      PROVE  /\ event[k] \in Events /\ event[k].status \in EventStatuses
             /\ mem[p][k].status \in EventStatuses /\ mem[p][k].run \in Bases \cup {None}
  BY TypeParts DEF DbTypes, SessionTypes, Events, MemRows
<1> QED BY <1>1 DEF Committed, Events

\* Changes of a row in a session.
LEMMA MemRowOps ==
  ASSUME NEW r \in MemRows
  PROVE  /\ \A s \in EventStatuses : [r EXCEPT !.status = s] \in MemRows
         /\ \A b \in Bases : [r EXCEPT !.run = b] \in MemRows
  BY DEF MemRows

\* A session that marks a row, or resets one, keeps rows of the right kind.
LEMMA MemOps ==
  ASSUME NEW m \in [Procs -> [Keys -> MemRows]], NEW p \in Procs, NEW k \in Keys
  PROVE  /\ \A s \in EventStatuses : [m EXCEPT ![p][k].status = s] \in [Procs -> [Keys -> MemRows]]
         /\ \A b \in Bases : [m EXCEPT ![p][k].run = b] \in [Procs -> [Keys -> MemRows]]
  BY MemRowOps

\* Every stage lists jobs.
LEMMA ListedAreJobs == TypeOK => \A p \in Procs : Listed(p) \subseteq Jobs
<1> SUFFICES ASSUME TypeOK, NEW p \in Procs PROVE Listed(p) \subseteq Jobs
  OBVIOUS
<1>1. call[p].jobs \subseteq Jobs
  BY TypeParts, CallParts DEF ProcTypes, NoCall
<1> QED BY <1>1 DEF Listed, InScope, Eligible

\* The version of a job that some run has captured is a key.
LEMMA VersionIsKey ==
  ASSUME TypeOK, NEW j \in Jobs
  PROVE  Version(j) \in Keys /\ Version(j)[1] = j
  BY TypeParts DEF Version, Keys, DbTypes

\* A notify stage has candidates only of a sync that its process completed.
HandoffKnown ==
  \A p \in Procs : InStage(p, "notify") /\ picked[p] # {} => carried[p] # None

\* Every step keeps the types.  A process hands off jobs under the run it carries;
\* that there is one (HandoffKnown) is needed for the pair to have its type.
LEMMA TypeStep == TypeOK /\ HandoffKnown /\ [Next]_vars => TypeOK'
<1> SUFFICES ASSUME TypeOK, HandoffKnown, [Next]_vars PROVE TypeOK'
  OBVIOUS
<1> USE TypePartsNext DEF dbVars, procVars, outVars
<1>t. DbTypes /\ ProcTypes /\ SessionTypes /\ OutTypes
  BY TypeParts
<1>db. UNCHANGED dbVars => DbTypes'
  BY <1>t DEF DbTypes
<1>out. UNCHANGED <<synced, notified, invoked>> => OutTypes'
  BY <1>t DEF OutTypes
<1>ses. UNCHANGED <<work, picked, cur, mem, held>> => SessionTypes'
  BY <1>t DEF SessionTypes
<1>proc. UNCHANGED <<at, base, call, todo, carried>> => ProcTypes'
  BY <1>t DEF ProcTypes
\* A step within a stage.
<1>at. ASSUME NEW p \in Procs, at[p] # "idle", UNCHANGED <<base, call, todo, carried>>,
              NEW s \in {"start", "list", "stage", "write", "post", "handed", "close"},
              at' = [at EXCEPT ![p] = s]
       PROVE  ProcTypes'
  BY <1>at, <1>t DEF ProcTypes
<1>1. ASSUME NEW p \in Procs, NEW b \in Bases, NEW c \in Calls, Invoke(p, b, c)
      PROVE  TypeOK'
  <2>1. ProcTypes'
    BY <1>1, <1>t, PlanNonEmpty, NoneAssumption DEF Invoke, ProcTypes
  <2>2. OutTypes'
    BY <1>1, <1>t, BoundAssumption DEF Invoke, OutTypes
  <2> QED BY <1>1, <1>db, <1>ses, <2>1, <2>2 DEF Invoke
<1>2. ASSUME NEW p \in Procs, StartStage(p) PROVE TypeOK'
  <2>1. DbTypes'
    BY <1>2, <1>t, Busy DEF StartStage, DbTypes, RowStatuses
  <2> QED BY <1>2, <1>at, <1>ses, <1>out, <2>1 DEF StartStage
<1>3. ASSUME NEW p \in Procs, Leave(p), UNCHANGED <<dbVars, invoked, outVars>> PROVE TypeOK'
  BY <1>3, <1>db, <1>out, LeaveTypes
<1>4. ASSUME NEW p \in Procs, List(p) PROVE TypeOK'
  <2>1. HandoffCandidates(p) \subseteq Keys
    BY DEF HandoffCandidates
  <2>2. SessionTypes'
    BY <1>4, <1>t, <2>1, ListedAreJobs DEF List, SessionTypes
  <2> QED BY <1>4, <1>at, <1>db, <1>out, <2>2 DEF List
<1>5. ASSUME NEW p \in Procs, ScrapeSource(p) PROVE TypeOK'
  <2>1. DbTypes'
    BY <1>5, <1>t DEF ScrapeSource, DbTypes, ProcTypes
  <2>2. SessionTypes'
    BY <1>5, <1>t DEF ScrapeSource, SessionTypes
  <2> QED BY <1>5, <1>proc, <1>out, <2>1, <2>2 DEF ScrapeSource
<1>6. ASSUME NEW p \in Procs, NormalizeBatch(p) PROVE TypeOK'
  <2>1. PICK batch \in SUBSET work[p], ok \in SUBSET work[p] :
               work' = [work EXCEPT ![p] = @ \ batch] /\ norm' = norm \cup ok
    BY <1>6, <1>t DEF NormalizeBatch
  <2>2. DbTypes'
    BY <1>6, <1>t, <2>1 DEF NormalizeBatch, DbTypes, SessionTypes
  <2>3. SessionTypes'
    BY <1>6, <1>t, <2>1 DEF NormalizeBatch, SessionTypes
  <2> QED BY <1>6, <1>proc, <1>out, <2>2, <2>3 DEF NormalizeBatch
<1>7. ASSUME NEW p \in Procs, FinishStage(p) PROVE TypeOK'
  <2>1. Close(p, "completed", carried[p]) /\ carried[p] \in Bases \cup {None}
    BY <1>7, <1>t DEF FinishStage, ProcTypes
  <2>2. ProcTypes' /\ SessionTypes' /\ rows' \in [Bases \X Stages -> RowStatuses]
    BY <1>7, <1>t, <2>1, CloseTypes DEF FinishStage
  <2>3. UNCHANGED <<scope, norm, event, handoff>> /\ OutTypes'
    BY <1>7, <1>out DEF FinishStage
  <2>4. DbTypes'
    BY <2>2, <2>3, <1>t DEF DbTypes
  <2> QED BY <2>2, <2>3, <2>4
<1>8. ASSUME NEW p \in Procs, ReadEvent(p) PROVE TypeOK'
  <2>1. PICK k \in Keys :
          /\ cur' = [cur EXCEPT ![p] = {k}]
          /\ mem' = [mem EXCEPT ![p][k] =
                       [status |-> event[k].status, run |-> event[k].run, was |-> event[k].status]]
    BY <1>8, <1>t DEF ReadEvent, NextVersions, SessionTypes
  <2>2. event[k].status \in EventStatuses /\ event[k].run \in Bases \cup {None}
    BY <1>t DEF DbTypes, Events
  <2>3. SessionTypes'
    BY <1>8, <1>t, <2>1, <2>2 DEF ReadEvent, SessionTypes, MemRows
  <2> QED BY <1>8, <1>at, <1>db, <1>out, <2>3 DEF ReadEvent, InStage
<1>9. ASSUME NEW p \in Procs, WriteEvent(p) PROVE TypeOK'
  <2>1. base[p] \in Bases
    BY <1>9, <1>t, Busy DEF WriteEvent
  <2>2. PICK k \in Keys :
          /\ \/ mem' = [mem EXCEPT ![p][k].status = "pending", ![p][k].run = base[p]]
             \/ mem' = [mem EXCEPT ![p][k].run = base[p]]
          /\ held' = [held EXCEPT ![p] = @ \cup {k}]
    BY <1>9, <1>t DEF WriteEvent, SessionTypes
  <2>4. mem' \in [Procs -> [Keys -> MemRows]]
    <3> DEFINE m == [mem EXCEPT ![p][k].status = "pending"]
    <3>1. m \in [Procs -> [Keys -> MemRows]] /\ mem \in [Procs -> [Keys -> MemRows]]
      BY <1>t, <2>1, MemOps DEF SessionTypes, EventStatuses
    <3>2. mem' = [m EXCEPT ![p][k].run = base[p]] \/ mem' = [mem EXCEPT ![p][k].run = base[p]]
      BY <2>2, Zenon
    <3> HIDE DEF m
    <3>4. [m EXCEPT ![p][k].run = base[p]] \in [Procs -> [Keys -> MemRows]]
      BY <2>1, <3>1, MemOps
    <3>5. [mem EXCEPT ![p][k].run = base[p]] \in [Procs -> [Keys -> MemRows]]
      BY <2>1, <3>1, MemOps
    <3> QED BY <3>2, <3>4, <3>5
  <2>3. SessionTypes'
    BY <1>9, <1>t, <2>2, <2>4 DEF WriteEvent, SessionTypes
  <2> QED BY <1>9, <1>at, <1>db, <1>out, <2>3 DEF WriteEvent
<1>r. ASSUME NEW p \in Procs, NEW status \in {"sent", "failed", "dead-letter"}, Record(p, status),
             UNCHANGED <<work, held>>
      PROVE  SessionTypes'
  <2>1. \A k \in Keys : mem[p][k] \in MemRows /\ [mem[p][k] EXCEPT !.status = status] \in MemRows
    BY <1>t, MemRowOps DEF SessionTypes, EventStatuses
  <2> QED BY <1>r, <1>t, <2>1 DEF Record, SessionTypes
<1>10. ASSUME NEW p \in Procs, PostJob(p) \/ RefuseJob(p) PROVE TypeOK'
  <2>1. PICK status \in {"sent", "failed", "dead-letter"} : Record(p, status)
    BY <1>10, <1>t DEF PostJob, RefuseJob
  <2>2. synced' \in {synced, synced \cup cur[p]} /\ UNCHANGED <<work, held>>
    BY <1>10, <1>t DEF PostJob, RefuseJob
  <2>3. OutTypes'
    BY <1>10, <1>t, <2>2 DEF PostJob, RefuseJob, OutTypes, SessionTypes
  <2>4. SessionTypes'
    BY <2>1, <2>2, <1>r
  <2> QED BY <1>10, <1>at, <1>db, <2>1, <2>3, <2>4 DEF PostJob, RefuseJob, Record
<1>11. ASSUME NEW p \in Procs, CommitSync(p) PROVE TypeOK'
  <2>1. DbTypes'
    BY <1>11, <1>t, CommittedType DEF CommitSync, DbTypes
  <2>2. SessionTypes'
    BY <1>11, <1>t DEF CommitSync, EmptySession, SessionTypes, MemRows, NotRead, EventStatuses
  <2> QED BY <1>11, <1>at, <1>out, <2>1, <2>2 DEF CommitSync, InStage
<1>12. ASSUME NEW p \in Procs, SyncRaises(p) PROVE TypeOK'
  <2>1. Close(p, "failed", carried[p]) /\ carried[p] \in Bases \cup {None} /\ at[p] # "idle"
    BY <1>12, <1>t DEF SyncRaises, InStage, ProcTypes
  <2>2. ProcTypes' /\ SessionTypes' /\ rows' \in [Bases \X Stages -> RowStatuses]
    BY <2>1, CloseTypes
  <2>3. DbTypes'
    BY <1>12, <1>t, <2>2, CommittedType DEF SyncRaises, DbTypes
  <2> QED BY <1>12, <1>out, <2>2, <2>3 DEF SyncRaises
<1>13. ASSUME NEW p \in Procs, HandOff(p) PROVE TypeOK'
  <2>1. PICK ok \in SUBSET picked[p], lost \in SUBSET picked[p] :
          /\ cur' = [cur EXCEPT ![p] = ok]
          /\ notified' = notified \cup ((ok \cup lost) \X {carried[p]})
    BY <1>13, <1>t DEF HandOff, HandoffSource
  <2>2. SessionTypes'
    BY <1>13, <1>t, <2>1 DEF HandOff, SessionTypes
  <2>3. OutTypes'
    <3>1. picked[p] # {} => carried[p] \in Bases
      BY <1>13, <1>t DEF HandOff, HandoffKnown, ProcTypes
    <3>2. picked[p] \subseteq Keys
      BY <1>t DEF SessionTypes
    <3>3. (ok \cup lost) \X {carried[p]} \subseteq Keys \X Bases
      BY <2>1, <3>1, <3>2
    <3> QED BY <1>13, <1>t, <2>1, <3>3 DEF HandOff, OutTypes
  <2> QED BY <1>13, <1>at, <1>db, <2>2, <2>3 DEF HandOff, InStage
<1>14. ASSUME NEW p \in Procs, CommitHandoff(p) PROVE TypeOK'
  <2>1. DbTypes'
    BY <1>14, <1>t DEF CommitHandoff, DbTypes
  <2>2. SessionTypes'
    BY <1>14, <1>t DEF CommitHandoff, EmptySession, SessionTypes, MemRows, NotRead, EventStatuses
  <2> QED BY <1>14, <1>at, <1>out, <2>1, <2>2 DEF CommitHandoff
<1>15. ASSUME NEW p \in Procs, FinishHook(p) \/ ReportRaises(p) PROVE TypeOK'
  <2>1. PICK status \in {"completed", "failed"}, known \in Bases \cup {None} : Close(p, status, known)
    <3>1. carried[p] \in Bases \cup {None} /\ base[p] \in Bases \cup {None}
      BY <1>t DEF ProcTypes
    <3> QED BY <1>15, <3>1 DEF FinishHook, ReportRaises
  <2>2. ProcTypes' /\ SessionTypes' /\ rows' \in [Bases \X Stages -> RowStatuses]
    BY <1>15, <1>t, <2>1, CloseTypes DEF FinishHook, ReportRaises
  <2>3. UNCHANGED <<scope, norm, event, handoff>> /\ OutTypes'
    BY <1>15, <1>out DEF FinishHook, ReportRaises
  <2>4. DbTypes'
    BY <2>2, <2>3, <1>t DEF DbTypes
  <2> QED BY <2>2, <2>3, <2>4
<1>17. ASSUME NEW p \in Procs, Consider(p) PROVE TypeOK'
  <2>1. PICK j \in work[p] :
          LET found == picked[p] \cup (IF IsCandidate(j) THEN {Version(j)} ELSE {})
          IN /\ picked' = [picked EXCEPT ![p] = found]
             /\ work' = [work EXCEPT ![p] = IF Cardinality(found) >= call[p].limit THEN {} ELSE @ \ {j}]
    BY <1>17 DEF Consider
  <2>2. Version(j) \in Keys
    BY <1>t, <2>1, VersionIsKey DEF SessionTypes
  <2>3. PICK f \in SUBSET Keys, w \in SUBSET Jobs :
          picked' = [picked EXCEPT ![p] = f] /\ work' = [work EXCEPT ![p] = w]
    BY <1>t, <2>1, <2>2 DEF SessionTypes
  <2>4. SessionTypes'
    BY <1>17, <1>t, <2>3 DEF Consider, SessionTypes
  <2> QED BY <1>17, <1>proc, <1>db, <1>out, <2>4 DEF Consider
<1>16. CASE UNCHANGED vars
  BY <1>16, <1>db, <1>out, <1>ses, <1>proc DEF vars
<1> QED
  BY <1>1, <1>2, <1>3, <1>4, <1>5, <1>6, <1>7, <1>8, <1>9, <1>10, <1>11, <1>12, <1>13, <1>14,
     <1>15, <1>16, <1>17 DEF Next, Work, RefuseStage, InsertConflict, Die

-----------------------------------------------------------------------------
(* The inductive invariant, for any number of processes *)

Syncing(p) == at[p] \in {"stage", "write", "post"} /\ Stage(p) = "sync"
Notifying(p) == at[p] \in {"stage", "handed"} /\ Stage(p) = "notify"

\* A stage that is under way has a row of its own, which is `started'; and a
\* process only carries the run id of a sync that has completed.
RowsOwned ==
  /\ \A p \in Procs : Begun(p) => rows[Row(p)] = "started"
  /\ \A p, q \in Procs : Begun(p) /\ Begun(q) /\ Row(p) = Row(q) => p = q
  /\ \A p \in Procs : carried[p] # None => rows[<<carried[p], "sync">>] = "completed"

\* The last stage of a full run has the sync before it, and carries its run id if
\* that has completed.
FullCarries(p) ==
  at[p] # "idle" /\ call[p].plan = Full /\ Stage(p) = "notify" =>
    /\ rows[<<base[p], "sync">>] \in {"completed", "failed"}
    /\ rows[<<base[p], "sync">>] = "completed" => carried[p] = base[p]

\* Nothing is called sent, in the database or in a session, that is not stored.
Backed ==
  /\ SentIsSynced
  /\ \A p \in Procs, k \in Keys : mem[p][k].status = "sent" => k \in synced

\* What is, or will be, handed off is stored, under a run whose sync has begun.
HandedBacked ==
  /\ HandoffFollowsSync
  /\ HandoffKnown
  /\ \A p \in Procs : InStage(p, "notify") => picked[p] \subseteq synced

\* A sync session finds and locks rows in listing order, one version of each job,
\* and takes over for its run those that it locks.
LocksInOrder(p) ==
  /\ held[p] # {} => Syncing(p) /\ work[p] = {}
  /\ at[p] \in {"write", "post"} =>
       /\ Stage(p) = "sync" /\ work[p] = {}
       /\ cur[p] \subseteq picked[p]
       /\ \A c \in cur[p], k \in picked[p] : c[1] <= k[1]
  /\ Syncing(p) =>
       /\ \A k \in picked[p], j \in work[p] : k[1] < j
       /\ \A k, l \in picked[p] : k[1] = l[1] => k = l
  /\ at[p] \in {"stage", "write"} => \A h \in held[p], k \in picked[p] : h[1] < k[1]
  /\ at[p] = "post" => \A h \in held[p], k \in picked[p] \ cur[p] : h[1] < k[1]

HeldRuns(p) == \A k \in held[p] : mem[p][k].run = base[p]

\* A handoff under the run id of the process's own sync has every delivery of that
\* sync before it, or behind it.
NotifyHas(p) ==
  /\ at[p] = "handed" => Stage(p) = "notify"
  /\ Notifying(p) /\ carried[p] = base[p] =>
       \A k \in Keys : event[k] = [status |-> "sent", run |-> base[p]] =>
         k \in picked[p] \/ handoff[<<k[1], base[p]>>] # "none"

ProcInv(p) == FullCarries(p) /\ LocksInOrder(p) /\ HeldRuns(p) /\ NotifyHas(p)

IInv ==
  /\ TypeOK
  /\ RowsOwned
  /\ Backed
  /\ HandedBacked
  /\ \A p \in Procs : ProcInv(p)

-----------------------------------------------------------------------------
(* The inductive invariant of a process that has the database to itself *)

OneProcess == \A p, q \in Procs : p = q

\* An event belongs to the run that captured the version, and no version without a
\* payload is called sent.
EventsOfCaptures ==
  \A k \in Keys :
    /\ event[k].status # "none" /\ k[1] \notin Unbuildable => event[k].run = k[2]
    /\ event[k].status = "sent" => k[1] \notin Unbuildable

\* The session's row of k is the committed one, or decides it.
Knows(p, k) ==
  /\ mem[p][k].was = event[k].status
  /\ mem[p][k].status = "sent" => k[1] \notin Unbuildable

\* Every eligible job is ahead of the session, a candidate of it, or decided by the
\* run; or the candidates before it are as many as the command takes.
Covers(p) ==
  \A j \in Eligible(p) :
    \/ j \in work[p]
    \/ Version(j) \in picked[p] \cup held[p]
    \/ Version(j) \in DecidedBy(base[p])
    \/ work[p] = {} /\ Cardinality({k \in picked[p] \cup held[p] : k[1] < j}) >= call[p].limit

\* A sync session knows the committed rows, and its candidates are the undelivered
\* versions of jobs that its own run captured.
SyncKnows(p) ==
  Syncing(p) =>
    /\ work[p] \subseteq Eligible(p)
    /\ \A k \in picked[p] \cup held[p] :
         k[1] \in InScope(p) /\ k = Version(k[1]) /\ IsCandidate(k[1])
    /\ \A k \in held[p] : Knows(p, k)
    /\ \A k \in held[p] \ picked[p] : mem[p][k].status \in Decided
    /\ at[p] \in {"write", "post"} => \A k \in cur[p] : Knows(p, k)
    /\ at[p] = "post" => cur[p] \subseteq held[p]
    /\ Covers(p)

\* A notify session hands off deliveries of its own sync.
NotifyKnows(p) ==
  Notifying(p) =>
    \A k \in picked[p] : carried[p] # None /\ event[k] = [status |-> "sent", run |-> carried[p]]

SoloInv ==
  /\ \A p \in Procs : SyncKnows(p) /\ NotifyKnows(p)
  /\ EventsOfCaptures
  /\ AnnouncedOnce

-----------------------------------------------------------------------------
(* What the steps of a process have in common *)

\* The session of p is empty after the step.
Emptied(p) ==
  /\ work'[p] = {} /\ picked'[p] = {} /\ cur'[p] = {} /\ held'[p] = {}
  /\ mem'[p] = [k \in Keys |-> NotRead]

\* A step of p leaves other processes alone.
Others(p) ==
  \A q \in Procs : q # p =>
    UNCHANGED <<at[q], base[q], call[q], todo[q], carried[q], work[q], picked[q], cur[q], mem[q], held[q]>>

\* Every process has its entry in each variable of the processes.
ProcFunctions ==
  /\ at = [p \in Procs |-> at[p]] /\ base = [p \in Procs |-> base[p]]
  /\ call = [p \in Procs |-> call[p]] /\ picked = [p \in Procs |-> picked[p]]
  /\ todo = [p \in Procs |-> todo[p]] /\ carried = [p \in Procs |-> carried[p]]
  /\ work = [p \in Procs |-> work[p]] /\ cur = [p \in Procs |-> cur[p]]
  /\ mem = [p \in Procs |-> mem[p]] /\ held = [p \in Procs |-> held[p]]

\* The variables of the processes are functions, so that [f EXCEPT ![p] = e][p] = e.
LEMMA TypesAreFunctions == TypeOK => ProcFunctions
<1> SUFFICES ASSUME ProcTypes, SessionTypes PROVE ProcFunctions
  BY TypeParts
<1> QED BY DEF ProcTypes, SessionTypes, ProcFunctions

\* What the end of an invocation does to the process that ends it.
LEMMA LeaveEffects ==
  ASSUME ProcFunctions, NEW p \in Procs, Leave(p)
  PROVE  Others(p) /\ Emptied(p) /\ at'[p] = "idle" /\ carried'[p] = None
  BY DEF Leave, EmptySession, ProcFunctions, Others, Emptied

\* What the end of a stage does to the process that closes it.
LEMMA CloseEffects ==
  ASSUME ProcFunctions, NEW p \in Procs, NEW status, NEW known, Close(p, status, known)
  PROVE  /\ Others(p) /\ Emptied(p)
         /\ rows' = [rows EXCEPT ![Row(p)] = status]
         /\ \/ at'[p] = "idle" /\ carried'[p] = None
            \/ /\ at'[p] = "start" /\ carried'[p] = known /\ Len(todo[p]) > 1
               /\ base'[p] = base[p] /\ call'[p] = call[p] /\ todo'[p] = Tail(todo[p])
<1>1. CASE Leave(p)
  BY <1>1, LeaveEffects DEF Close
<1>2. CASE ~Leave(p)
  BY <1>2 DEF Close, EmptySession, ProcFunctions, Others, Emptied
<1> QED BY <1>1, <1>2

\* The steps of a process by what they do to run rows.
Keeps(p) ==
  /\ rows' = rows
  /\ Begun(p)' => Begun(p) /\ base'[p] = base[p] /\ todo'[p] = todo[p]
  /\ carried'[p] \in {carried[p], None}

Closes(p) ==
  /\ Begun(p) /\ ~Begun(p)'
  /\ \E status \in {"completed", "failed"} :
       /\ rows' = [rows EXCEPT ![Row(p)] = status]
       /\ \/ carried'[p] \in {carried[p], None}
          \/ status = "completed" /\ Stage(p) = "sync" /\ carried'[p] = base[p]

\* A stage that is closed with the sync run id that it began with.
LEMMA ClosesAsBegun ==
  ASSUME ProcFunctions, NEW p \in Procs, Begun(p), NEW status \in {"completed", "failed"},
         Close(p, status, carried[p])
  PROVE  Closes(p)
  BY CloseEffects DEF Closes, Begun

\* A step of p changes the process variables of p alone; it starts a stage's row,
\* closes it, or leaves the rows as they are.
LEMMA StepKinds ==
  ASSUME TypeOK, NEW p \in Procs, Step(p)
  PROVE  Others(p) /\ (StartStage(p) \/ Keeps(p) \/ Closes(p))
<1> USE DEF dbVars, procVars, outVars
<1>f. ProcFunctions
  BY TypesAreFunctions
<1>1. ASSUME NEW b \in Bases, NEW c \in Calls, Invoke(p, b, c)
      PROVE  Others(p) /\ Keeps(p)
  BY <1>1, <1>f DEF Invoke, ProcFunctions, Others, Keeps, Begun
<1>2. ASSUME StartStage(p) PROVE Others(p)
  BY <1>2, <1>f DEF StartStage, ProcFunctions, Others
<1>3. ASSUME Leave(p), UNCHANGED dbVars PROVE Others(p) /\ Keeps(p)
  BY <1>3, <1>f, LeaveEffects DEF Keeps, Begun
<1>5. ASSUME List(p) PROVE Others(p) /\ Keeps(p)
  BY <1>5, <1>f DEF List, ProcFunctions, Others, Keeps, Begun
<1>6. ASSUME ScrapeSource(p) PROVE Others(p) /\ Keeps(p)
  BY <1>6, <1>f DEF ScrapeSource, ProcFunctions, Others, Keeps, Begun
<1>7. ASSUME NormalizeBatch(p) PROVE Others(p) /\ Keeps(p)
  BY <1>7, <1>f DEF NormalizeBatch, ProcFunctions, Others, Keeps, Begun
<1>8. ASSUME FinishStage(p) PROVE Others(p) /\ Closes(p)
  BY <1>8, <1>f, ClosesAsBegun, CloseEffects DEF FinishStage, Begun
<1>9. ASSUME ReadEvent(p) PROVE Others(p) /\ Keeps(p)
  BY <1>9, <1>f DEF ReadEvent, InStage, ProcFunctions, Others, Keeps, Begun
<1>10. ASSUME WriteEvent(p) PROVE Others(p) /\ Keeps(p)
  BY <1>10, <1>f DEF WriteEvent, ProcFunctions, Others, Keeps, Begun
<1>11. ASSUME PostJob(p) \/ RefuseJob(p) PROVE Others(p) /\ Keeps(p)
  BY <1>11, <1>f DEF PostJob, RefuseJob, Record, ProcFunctions, Others, Keeps, Begun
<1>12. ASSUME CommitSync(p) PROVE Others(p) /\ Keeps(p)
  BY <1>12, <1>f DEF CommitSync, InStage, EmptySession, ProcFunctions, Others, Keeps, Begun
<1>13. ASSUME SyncRaises(p) \/ ReportRaises(p) PROVE Others(p) /\ Closes(p)
  BY <1>13, <1>f, ClosesAsBegun, CloseEffects DEF SyncRaises, ReportRaises, InStage, Begun
<1>14. ASSUME HandOff(p) PROVE Others(p) /\ Keeps(p)
  BY <1>14, <1>f DEF HandOff, InStage, ProcFunctions, Others, Keeps, Begun
<1>15. ASSUME CommitHandoff(p) PROVE Others(p) /\ Keeps(p)
  BY <1>15, <1>f DEF CommitHandoff, EmptySession, ProcFunctions, Others, Keeps, Begun
<1>16. ASSUME FinishHook(p) PROVE Others(p) /\ Closes(p)
  <2>1. CASE Stage(p) # "sync"
    BY <1>16, <1>f, <2>1, ClosesAsBegun, CloseEffects DEF FinishHook, Begun
  <2>2. CASE Stage(p) = "sync"
    <3>1. Close(p, "completed", base[p]) /\ at[p] = "close"
      BY <1>16, <2>2 DEF FinishHook
    <3>2. rows' = [rows EXCEPT ![Row(p)] = "completed"] /\ carried'[p] \in {base[p], None}
      BY <1>f, <3>1, CloseEffects
    <3>3. Others(p) /\ at'[p] \in {"idle", "start"}
      BY <1>f, <3>1, CloseEffects
    <3> QED BY <2>2, <3>1, <3>2, <3>3 DEF Closes, Begun
  <2> QED BY <2>1, <2>2
<1>17. ASSUME Consider(p) PROVE Others(p) /\ Keeps(p)
  BY <1>17, <1>f DEF Consider, InStage, ProcFunctions, Others, Keeps, Begun
<1> QED
  BY <1>1, <1>2, <1>3, <1>5, <1>6, <1>7, <1>8, <1>9, <1>10, <1>11, <1>12, <1>13, <1>14, <1>15,
     <1>16, <1>17 DEF Step, Work, RefuseStage, InsertConflict, Die

\* Next is a step of some process.
LEMMA NextIsStep == Next <=> \E p \in Procs : Step(p)
  BY DEF Next, Step

-----------------------------------------------------------------------------
(* Run rows *)

\* The row that a process would close or start is a row.
LEMMA RowsAreRows ==
  ASSUME TypeOK
  PROVE  /\ rows = [r \in Bases \X Stages |-> rows[r]]
         /\ \A p \in Procs : at[p] # "idle" => Row(p) \in Bases \X Stages /\ base[p] \in Bases
         /\ \A p \in Procs : carried[p] # None => <<carried[p], "sync">> \in Bases \X Stages
<1>1. rows = [r \in Bases \X Stages |-> rows[r]]
  BY TypeParts DEF DbTypes
<1>2. \A p \in Procs : carried[p] # None => <<carried[p], "sync">> \in Bases \X Stages
  BY TypeParts DEF ProcTypes, Stages
<1> QED BY <1>1, <1>2, Busy

\* No run row exists initially.
LEMMA RowsInit == Init => RowsOwned
  BY DEF Init, RowsOwned, Begun

\* A row changes as its one owner starts or closes it.
LEMMA RowSteps ==
  ASSUME TypeOK, RowsOwned, NEW p \in Procs, Step(p)
  PROVE  \A r \in Bases \X Stages :
           rows'[r] # rows[r] =>
             \/ rows[r] = "none" /\ rows'[r] = "started"
             \/ /\ rows[r] = "started" /\ rows'[r] \in {"completed", "failed"}
                /\ r = Row(p) /\ Begun(p) /\ ~Begun(p)'
<1>1. StartStage(p) \/ Keeps(p) \/ Closes(p)
  BY StepKinds
<1>2. CASE StartStage(p)
  BY <1>2, RowsAreRows DEF StartStage
<1>3. CASE Keeps(p)
  BY <1>3 DEF Keeps
<1>4. CASE Closes(p)
  <2>1. PICK status \in {"completed", "failed"} : rows' = [rows EXCEPT ![Row(p)] = status]
    BY <1>4 DEF Closes
  <2>2. Begun(p) /\ ~Begun(p)' /\ rows[Row(p)] = "started"
    BY <1>4 DEF Closes, RowsOwned
  <2> QED BY <2>1, <2>2, RowsAreRows DEF Begun
<1> QED BY <1>1, <1>2, <1>3, <1>4

\* Every step keeps the ownership of run rows: the process at a stage, and no
\* other, owns the started row of that stage.
LEMMA RowsStep ==
  ASSUME TypeOK, RowsOwned, NEW p \in Procs, Step(p)
  PROVE  RowsOwned'
<1>o. \A q \in Procs : q # p =>
         /\ Begun(q)' <=> Begun(q)
         /\ Row(q)' = Row(q) /\ carried'[q] = carried[q]
  BY StepKinds DEF Others, Begun, Row, Stage
<1>k. StartStage(p) \/ Keeps(p) \/ Closes(p)
  BY StepKinds
\* The process that takes the step.
<1>1. Begun(p)' => \/ Begun(p) /\ Row(p)' = Row(p) /\ rows' = rows
                   \/ /\ rows[Row(p)] = "none" /\ Row(p)' = Row(p)
                      /\ rows' = [rows EXCEPT ![Row(p)] = "started"]
                      /\ Row(p) \in Bases \X Stages
  BY <1>k, RowsAreRows DEF StartStage, Keeps, Closes, Row, Stage, Begun
<1>2. ASSUME NEW q \in Procs, Begun(q)' PROVE rows'[Row(q)'] = "started"
  <2>1. CASE q = p
    BY <1>1, <1>2, <2>1, RowsAreRows DEF RowsOwned
  <2>2. CASE q # p
    <3>1. Begun(q) /\ Row(q)' = Row(q) /\ rows[Row(q)] = "started" /\ Row(q) \in Bases \X Stages
      BY <1>2, <1>o, <2>2, RowsAreRows DEF RowsOwned, Begun
    <3>2. rows'[Row(q)] # rows[Row(q)] => Begun(p) /\ Row(q) = Row(p)
      BY <3>1, RowSteps
    <3> QED BY <2>2, <3>1, <3>2 DEF RowsOwned
  <2> QED BY <2>1, <2>2
<1>3. ASSUME NEW q \in Procs, NEW r \in Procs, Begun(q)', Begun(r)', Row(q)' = Row(r)', q # r
      PROVE  FALSE
  <2>1. ASSUME NEW t \in Procs, t # p, Begun(t)', Begun(p)', Row(t)' = Row(p)' PROVE FALSE
    BY <1>1, <1>o, <2>1, RowsAreRows DEF RowsOwned
  <2>2. CASE q # p /\ r # p
    BY <1>3, <1>o, <2>2 DEF RowsOwned
  <2> QED BY <1>3, <2>1, <2>2
<1>4. ASSUME NEW q \in Procs, carried'[q] # None PROVE rows'[<<carried'[q], "sync">>] = "completed"
  <2>1. CASE carried'[q] = carried[q]
    <3>1. PICK k \in Bases \X Stages : k = <<carried'[q], "sync">> /\ rows[k] = "completed"
      BY <1>4, <2>1, RowsAreRows DEF RowsOwned
    <3>2. rows'[k] = rows[k]
      BY <3>1, RowSteps
    <3> QED BY <3>1, <3>2
  <2>2. CASE carried'[q] # carried[q]
    <3>1. q = p /\ ~StartStage(p) /\ ~Keeps(p)
      BY <1>4, <1>o, <2>2 DEF StartStage, Keeps
    <3>2. Closes(p)
      BY <1>k, <3>1
    <3>3. /\ rows' = [rows EXCEPT ![Row(p)] = "completed"] /\ Begun(p)
          /\ Stage(p) = "sync" /\ carried'[p] = base[p]
      BY <1>4, <2>2, <3>1, <3>2 DEF Closes
    <3> QED BY <3>1, <3>3, RowsAreRows DEF Row, Begun
  <2> QED BY <2>1, <2>2
<1> QED BY <1>2, <1>3, <1>4 DEF RowsOwned

\* How a process comes to the stage that it is at: in the same invocation it keeps
\* its stage, or closes the one before; else it has just begun one.
LEMMA StageSteps ==
  ASSUME TypeOK, NEW p \in Procs, Step(p), at'[p] # "idle"
  PROVE  \/ call'[p] = call[p] /\ base'[p] = base[p] /\ todo'[p] = todo[p] /\ at[p] # "idle"
            /\ carried'[p] = carried[p] /\ (rows' = rows \/ StartStage(p))
         \/ \E b \in Bases, c \in Calls : Invoke(p, b, c)
         \/ /\ Begun(p) /\ Len(todo[p]) > 1
            /\ call'[p] = call[p] /\ base'[p] = base[p] /\ todo'[p] = Tail(todo[p])
            /\ \E status \in {"completed", "failed"} :
                 /\ rows' = [rows EXCEPT ![Row(p)] = status]
                 /\ status = "completed" /\ Stage(p) = "sync" => carried'[p] = base[p]
<1> USE DEF dbVars, procVars, outVars
<1>f. ProcFunctions
  BY TypesAreFunctions
<1>1. ASSUME Leave(p) PROVE FALSE
  BY <1>1, <1>f, LeaveEffects
<1>2. ASSUME NEW status \in {"completed", "failed"}, NEW known, Begun(p), Close(p, status, known),
             status = "completed" /\ Stage(p) = "sync" => known = base[p]
      PROVE  /\ Len(todo[p]) > 1
             /\ call'[p] = call[p] /\ base'[p] = base[p] /\ todo'[p] = Tail(todo[p])
             /\ rows' = [rows EXCEPT ![Row(p)] = status]
             /\ status = "completed" /\ Stage(p) = "sync" => carried'[p] = base[p]
  BY <1>2, <1>f, CloseEffects
<1>3. CASE FinishStage(p)
  BY <1>2, <1>3 DEF FinishStage, Begun
<1>4. CASE SyncRaises(p) \/ ReportRaises(p)
  BY <1>2, <1>4 DEF SyncRaises, ReportRaises, InStage, Begun
<1>5. CASE FinishHook(p)
  BY <1>2, <1>5 DEF FinishHook, Begun
<1>6. CASE StartStage(p)
  BY <1>6 DEF StartStage
<1>7. CASE \/ List(p) \/ ScrapeSource(p) \/ NormalizeBatch(p) \/ Consider(p) \/ ReadEvent(p)
           \/ WriteEvent(p) \/ PostJob(p) \/ RefuseJob(p) \/ CommitSync(p) \/ HandOff(p) \/ CommitHandoff(p)
  BY <1>7 DEF List, ScrapeSource, NormalizeBatch, Consider, ReadEvent, WriteEvent, PostJob, RefuseJob,
              Record, CommitSync, HandOff, CommitHandoff, InStage
<1>8. Leave(p) \/ (\E b \in Bases, c \in Calls : Invoke(p, b, c)) \/ FinishStage(p) \/ SyncRaises(p)
      \/ ReportRaises(p) \/ FinishHook(p) \/ StartStage(p)
      \/ List(p) \/ ScrapeSource(p) \/ NormalizeBatch(p) \/ Consider(p) \/ ReadEvent(p)
      \/ WriteEvent(p) \/ PostJob(p) \/ RefuseJob(p) \/ CommitSync(p) \/ HandOff(p) \/ CommitHandoff(p)
  BY DEF Step, Work, RefuseStage, InsertConflict, Die
<1> QED BY <1>1, <1>3, <1>4, <1>5, <1>6, <1>7, <1>8

\* A full run comes to its last stage from its sync, with that one's run id if it
\* completed; the row of the sync then stays as it is.
LEMMA CarriesStep ==
  ASSUME TypeOK, RowsOwned, NEW p \in Procs, Step(p), \A q \in Procs : FullCarries(q)
  PROVE  \A q \in Procs : FullCarries(q)'
<1> SUFFICES ASSUME NEW q \in Procs, at'[q] # "idle", call'[q].plan = Full, Stage(q)' = "notify"
             PROVE  /\ rows'[<<base'[q], "sync">>] \in {"completed", "failed"}
                    /\ rows'[<<base'[q], "sync">>] = "completed" => carried'[q] = base'[q]
  BY DEF FullCarries
<1>1. ASSUME at[q] # "idle", call'[q] = call[q], base'[q] = base[q], todo'[q] = todo[q], carried'[q] = carried[q]
      PROVE  /\ rows'[<<base'[q], "sync">>] \in {"completed", "failed"}
             /\ rows'[<<base'[q], "sync">>] = "completed" => carried'[q] = base'[q]
  <2>1. /\ rows[<<base[q], "sync">>] \in {"completed", "failed"}
        /\ rows[<<base[q], "sync">>] = "completed" => carried[q] = base[q]
    BY <1>1 DEF FullCarries, Stage
  <2>2. PICK r \in Bases \X Stages : r = <<base[q], "sync">>
    BY <1>1, Busy DEF Stages
  <2>3. rows'[r] = rows[r]
    BY <2>1, <2>2, RowSteps
  <2> QED BY <1>1, <2>1, <2>2, <2>3
<1>2. CASE q # p
  BY <1>1, <1>2, StepKinds DEF Others
<1>3. CASE q = p
  <2>1. ASSUME NEW b \in Bases, NEW c \in Calls, Invoke(p, b, c) PROVE FALSE
    <3>1. todo'[p] = Full
      BY <1>3, <2>1, TypesAreFunctions DEF Invoke, ProcFunctions
    <3> QED BY <1>3, <3>1 DEF Stage, Full
  <2>2. ASSUME Begun(p), Len(todo[p]) > 1,
               call'[p] = call[p], base'[p] = base[p], todo'[p] = Tail(todo[p]),
               NEW status \in {"completed", "failed"}, rows' = [rows EXCEPT ![Row(p)] = status],
               status = "completed" /\ Stage(p) = "sync" => carried'[p] = base[p]
        PROVE  /\ rows'[<<base'[q], "sync">>] \in {"completed", "failed"}
               /\ rows'[<<base'[q], "sync">>] = "completed" => carried'[q] = base'[q]
    <3>1. todo[p] \in Todos /\ todo[p] # <<>> /\ Row(p) \in Bases \X Stages
      BY <2>2, Busy DEF Begun
    <3>2. Head(Tail(todo[p])) = "notify"
      BY <1>3, <2>2 DEF Stage
    <3>3. Stage(p) = "sync"
      BY <2>2, <3>1, <3>2, TodoLeft DEF Stage
    <3>4. Row(p) = <<base[p], "sync">> /\ rows'[Row(p)] = status
      BY <2>2, <3>1, <3>3, RowsAreRows DEF Row
    <3> QED BY <1>3, <2>2, <3>3, <3>4
  <2> QED BY <1>1, <1>3, <2>1, <2>2, StageSteps
<1> QED BY <1>2, <1>3

-----------------------------------------------------------------------------
(* Deliveries *)

\* Event rows change by a session's commit only.
LEMMA EventSteps ==
  ASSUME TypeOK, NEW p \in Procs, LocksInOrder(p), Step(p)
  PROVE  /\ synced \subseteq synced'
         /\ \/ event' = event
            \/ event' = Committed(p) /\ Syncing(p) /\ Emptied(p) /\ ~Syncing(p)'
<1> USE DEF dbVars, procVars, outVars
<1>1. CASE CommitSync(p)
  BY <1>1, TypesAreFunctions DEF CommitSync, EmptySession, InStage, ProcFunctions, Syncing, Emptied
<1>2. CASE SyncRaises(p)
  <2>1. event' = Committed(p) /\ synced' = synced /\ Syncing(p) /\ Close(p, "failed", carried[p])
    BY <1>2 DEF SyncRaises, InStage, Syncing, LocksInOrder
  <2>2. Emptied(p) /\ at'[p] \in {"idle", "start"}
    BY <2>1, TypesAreFunctions, CloseEffects
  <2> QED BY <2>1, <2>2 DEF Syncing
<1>3. ASSUME PostJob(p) PROVE synced \subseteq synced' /\ event' = event
  BY <1>3 DEF PostJob
<1>4. CASE ~(CommitSync(p) \/ SyncRaises(p) \/ PostJob(p))
  BY <1>4 DEF Step, Work, Invoke, StartStage, RefuseStage, List, ScrapeSource, NormalizeBatch, Consider,
              FinishStage, ReadEvent, WriteEvent, InsertConflict, RefuseJob, ReportRaises, HandOff,
              CommitHandoff, FinishHook, Die
<1> QED BY <1>1, <1>2, <1>3, <1>4

\* What the steps of p do to the rows of its session.
LEMMA MemSteps ==
  ASSUME TypeOK, NEW p \in Procs, Step(p)
  PROVE  Emptied(p) \/ mem' = mem \/ ReadEvent(p) \/ WriteEvent(p) \/ PostJob(p) \/ RefuseJob(p)
<1> USE DEF dbVars, procVars, outVars
<1>1. ASSUME Leave(p) PROVE Emptied(p)
  BY <1>1, LeaveEffects, TypesAreFunctions
<1>2. ASSUME NEW status, NEW known, Close(p, status, known) PROVE Emptied(p)
  BY <1>2, CloseEffects, TypesAreFunctions
<1>3. ASSUME EmptySession(p) PROVE Emptied(p)
  BY <1>3, TypesAreFunctions DEF EmptySession, ProcFunctions, Emptied
<1> QED BY <1>1, <1>2, <1>3
     DEF Step, Work, Invoke, StartStage, RefuseStage, List, ScrapeSource, NormalizeBatch, CommitSync, Consider,
         FinishStage, InsertConflict, HandOff, CommitHandoff, FinishHook, Die, SyncRaises, ReportRaises

\* A session reads the event row of the first of its candidates.
LEMMA ReadEffects ==
  ASSUME TypeOK, NEW p \in Procs, ReadEvent(p)
  PROVE  \E k \in NextVersions(p) :
           /\ cur'[p] = {k} /\ k \in Keys
           /\ mem'[p][k].status = event[k].status /\ mem'[p][k].was = event[k].status
           /\ \A l \in Keys : l # k => mem'[p][l] = mem[p][l]
           /\ at[p] = "stage" /\ at'[p] = "write" /\ Stage(p) = "sync" /\ work[p] = {}
           /\ UNCHANGED <<event, norm, scope, rows, base, call, todo, work, picked, held, synced>>
<1> USE DEF dbVars, procVars, outVars
<1>f. ProcFunctions
  BY TypesAreFunctions
<1>1. PICK k \in NextVersions(p) :
        /\ cur' = [cur EXCEPT ![p] = {k}]
        /\ mem' = [mem EXCEPT ![p][k] =
                     [status |-> event[k].status, run |-> event[k].run, was |-> event[k].status]]
  BY DEF ReadEvent
<1>2. k \in Keys
  BY TypeParts DEF NextVersions, SessionTypes
<1>3. mem[p] = [l \in Keys |-> mem[p][l]]
  BY TypeParts DEF SessionTypes
<1>4. mem'[p] = [mem[p] EXCEPT ![k] =
                  [status |-> event[k].status, run |-> event[k].run, was |-> event[k].status]]
  BY <1>1, <1>f DEF ProcFunctions
<1>5. mem'[p][k].status = event[k].status /\ mem'[p][k].was = event[k].status
  BY <1>2, <1>3, <1>4
<1>6. \A l \in Keys : l # k => mem'[p][l] = mem[p][l]
  BY <1>3, <1>4
<1>7. cur'[p] = {k} /\ at'[p] = "write"
  BY <1>1, <1>f DEF ReadEvent, ProcFunctions
<1> QED BY <1>1, <1>2, <1>5, <1>6, <1>7 DEF ReadEvent, InStage

\* A session writes the event row of a version in hand: its run, and its status if
\* there was no row.
LEMMA WriteEffects ==
  ASSUME TypeOK, NEW p \in Procs, WriteEvent(p)
  PROVE  \E k \in cur[p] :
           /\ held'[p] = held[p] \cup {k} /\ k \in Keys
           /\ mem'[p][k].run = base[p] /\ mem'[p][k].was = mem[p][k].was
           /\ mem'[p][k].status \in {mem[p][k].status, "pending"}
           /\ \A l \in Keys : l # k => mem'[p][l] = mem[p][l]
           /\ at[p] = "write" /\ at'[p] = "post"
           /\ UNCHANGED <<event, norm, scope, rows, base, call, todo, work, picked, cur, synced>>
<1> USE DEF dbVars, procVars, outVars
<1>f. ProcFunctions
  BY TypesAreFunctions
<1>1. PICK k \in cur[p] :
        /\ \/ mem' = [mem EXCEPT ![p][k].status = "pending", ![p][k].run = base[p]]
           \/ mem' = [mem EXCEPT ![p][k].run = base[p]]
        /\ held' = [held EXCEPT ![p] = @ \cup {k}]
  BY DEF WriteEvent
<1>2. k \in Keys
  BY TypeParts DEF SessionTypes
<1>3. mem[p] = [l \in Keys |-> mem[p][l]] /\ mem[p][k] \in MemRows
  BY <1>2, TypeParts DEF SessionTypes
<1>w. /\ mem'[p][k].run = base[p] /\ mem'[p][k].was = mem[p][k].was
      /\ mem'[p][k].status \in {mem[p][k].status, "pending"}
      /\ \A l \in Keys : l # k => mem'[p][l] = mem[p][l]
  <2>1. CASE mem' = [mem EXCEPT ![p][k].run = base[p]]
    <3>1. mem'[p] = [mem[p] EXCEPT ![k].run = base[p]]
      BY <1>f, <2>1 DEF ProcFunctions
    <3>2. mem'[p][k] = [mem[p][k] EXCEPT !.run = base[p]]
      BY <1>2, <1>3, <3>1
    <3>3. mem'[p][k].run = base[p] /\ mem'[p][k].was = mem[p][k].was /\ mem'[p][k].status = mem[p][k].status
      BY <1>3, <3>2 DEF MemRows
    <3>4. \A l \in Keys : l # k => mem'[p][l] = mem[p][l]
      BY <1>3, <3>1
    <3> QED BY <3>3, <3>4
  <2>2. CASE mem' = [mem EXCEPT ![p][k].status = "pending", ![p][k].run = base[p]]
    <3> DEFINE m == [mem EXCEPT ![p][k].status = "pending"]
               r == [mem[p][k] EXCEPT !.status = "pending"]
    <3>1. mem' = [m EXCEPT ![p][k].run = base[p]]
      BY <2>2, Zenon
    <3>2. /\ m = [q \in Procs |-> m[q]] /\ m[p] = [l \in Keys |-> m[p][l]] /\ m[p][k] = r
          /\ \A l \in Keys : l # k => m[p][l] = mem[p][l]
      BY <1>f, <1>2, <1>3 DEF ProcFunctions
    <3>3. r \in MemRows /\ r.was = mem[p][k].was /\ r.status = "pending"
      BY <1>3 DEF MemRows, EventStatuses
    <3> HIDE DEF m, r
    <3>4. mem'[p] = [m[p] EXCEPT ![k].run = base[p]]
      BY <3>1, <3>2
    <3>5. mem'[p][k] = [r EXCEPT !.run = base[p]]
      BY <1>2, <3>2, <3>4
    <3>6. mem'[p][k].run = base[p] /\ mem'[p][k].was = r.was /\ mem'[p][k].status = r.status
      BY <3>3, <3>5 DEF MemRows
    <3>7. \A l \in Keys : l # k => mem'[p][l] = mem[p][l]
      BY <3>2, <3>4
    <3> QED BY <3>3, <3>6, <3>7
  <2> QED BY <1>1, <2>1, <2>2
<1>4. held'[p] = held[p] \cup {k} /\ at'[p] = "post"
  BY <1>1, <1>f DEF WriteEvent, ProcFunctions
<1> QED BY <1>1, <1>2, <1>w, <1>4 DEF WriteEvent

\* The outcome of the version in hand: "sent" only after the backend has it, and of
\* a version that has a payload.
LEMMA RecordEffects ==
  ASSUME TypeOK, NEW p \in Procs, PostJob(p) \/ RefuseJob(p)
  PROVE  \E status \in {"sent", "failed", "dead-letter"} :
           /\ status = "sent" => cur[p] \subseteq synced' /\ \A k \in cur[p] : k[1] \notin Unbuildable
           /\ \A k \in Keys : /\ mem'[p][k].was = mem[p][k].was /\ mem'[p][k].run = mem[p][k].run
                              /\ mem'[p][k].status = IF k \in cur[p] THEN status ELSE mem[p][k].status
           /\ picked'[p] = picked[p] \ cur[p]
           /\ at[p] = "post" /\ at'[p] = "stage"
           /\ UNCHANGED <<event, norm, scope, rows, base, call, todo, work, held>>
<1> USE DEF dbVars, procVars, outVars
<1>f. ProcFunctions
  BY TypesAreFunctions
<1>1. PICK status \in {"sent", "failed", "dead-letter"} :
        /\ Record(p, status)
        /\ status = "sent" => synced' = synced \cup cur[p] /\ \A k \in cur[p] : k[1] \notin Unbuildable
  BY DEF PostJob, RefuseJob
<1>2. ASSUME NEW k \in Keys
      PROVE  /\ mem'[p][k].was = mem[p][k].was /\ mem'[p][k].run = mem[p][k].run
             /\ mem'[p][k].status = IF k \in cur[p] THEN status ELSE mem[p][k].status
  <2>1. mem[p][k] \in MemRows
    BY TypeParts DEF SessionTypes
  <2>2. mem'[p][k] = IF k \in cur[p] THEN [mem[p][k] EXCEPT !.status = status] ELSE mem[p][k]
    BY <1>1, <1>f DEF Record, ProcFunctions
  <2> QED BY <2>1, <2>2 DEF MemRows
<1>3. picked'[p] = picked[p] \ cur[p] /\ at'[p] = "stage"
  BY <1>1, <1>f DEF Record, ProcFunctions
<1>4. /\ at[p] = "post"
      /\ UNCHANGED <<event, norm, scope, rows, base, call, todo, work, held>>
  BY DEF PostJob, RefuseJob
<1>5. status = "sent" => cur[p] \subseteq synced' /\ \A k \in cur[p] : k[1] \notin Unbuildable
  BY <1>1
<1> QED BY <1>2, <1>3, <1>4, <1>5

\* Every step keeps the deliveries backed: what is called sent, in the database
\* or in a session that may still commit, is stored by the backend.
LEMMA BackedStep ==
  ASSUME TypeOK, Backed, NEW p \in Procs, LocksInOrder(p), Step(p)
  PROVE  Backed'
<1>1. synced \subseteq synced'
  BY EventSteps
<1>2. \A q \in Procs : q # p => mem'[q] = mem[q]
  BY StepKinds DEF Others
<1>3. SentIsSynced'
  <2>1. ASSUME NEW k \in Keys, Committed(p)[k].status = "sent" PROVE k \in synced
    BY <2>1 DEF Committed, Backed, SentIsSynced
  <2> QED BY <1>1, <2>1, EventSteps DEF Backed, SentIsSynced
<1>m. \A k \in Keys : mem[p][k].status = "sent" \/ event[k].status = "sent" => k \in synced
  BY DEF Backed, SentIsSynced
<1>4. ASSUME NEW k \in Keys, mem'[p][k].status = "sent" PROVE k \in synced'
  <2>1. CASE Emptied(p)
    BY <1>4, <2>1 DEF Emptied, NotRead
  <2>2. CASE mem' = mem
    BY <1>1, <1>4, <1>m, <2>2
  <2>3. CASE ReadEvent(p)
    <3>1. mem'[p][k].status = event[k].status \/ mem'[p][k] = mem[p][k]
      BY <2>3, ReadEffects
    <3> QED BY <1>1, <1>4, <1>m, <3>1
  <2>4. CASE WriteEvent(p)
    <3>1. mem'[p][k].status \in {mem[p][k].status, "pending"} \/ mem'[p][k] = mem[p][k]
      BY <2>4, WriteEffects
    <3> QED BY <1>1, <1>4, <1>m, <3>1
  <2>5. CASE PostJob(p) \/ RefuseJob(p)
    <3>1. mem'[p][k].status = mem[p][k].status \/ k \in synced'
      BY <1>4, <2>5, RecordEffects
    <3> QED BY <1>1, <1>4, <1>m, <3>1
  <2> QED BY <2>1, <2>2, <2>3, <2>4, <2>5, MemSteps
<1>5. \A q \in Procs, k \in Keys : mem'[q][k].status = "sent" => k \in synced'
  BY <1>1, <1>2, <1>4 DEF Backed
<1> QED BY <1>3, <1>5 DEF Backed

\* Only a listing brings a process into a notify stage.
LEMMA NotifyBegins ==
  ASSUME TypeOK, NEW p \in Procs, LocksInOrder(p), Step(p), InStage(p, "notify")'
  PROVE  List(p) /\ Stage(p) = "notify"
<1> USE DEF dbVars, procVars, outVars
<1>1. at'[p] = "stage" /\ Head(todo'[p]) = "notify"
  BY DEF InStage, Stage
<1>2. ASSUME todo'[p] = todo[p] PROVE Stage(p) = "notify"
  BY <1>1, <1>2 DEF Stage
<1>f. ProcFunctions
  BY TypesAreFunctions
<1>3. ASSUME Leave(p) PROVE FALSE
  BY <1>1, <1>3, <1>f, LeaveEffects
<1>4. ASSUME NEW status, NEW known, Close(p, status, known) PROVE FALSE
  BY <1>1, <1>4, <1>f, CloseEffects
<1>5. \A b \in Bases, c \in Calls : ~Invoke(p, b, c)
  BY <1>1, <1>f DEF Invoke, ProcFunctions
<1>6. ~(StartStage(p) \/ ReadEvent(p) \/ WriteEvent(p) \/ CommitSync(p) \/ HandOff(p) \/ CommitHandoff(p))
  BY <1>1, <1>f DEF StartStage, ReadEvent, WriteEvent, CommitSync, HandOff, CommitHandoff, ProcFunctions
<1>7. ~(ScrapeSource(p) \/ NormalizeBatch(p) \/ Consider(p))
  BY <1>2, <1>f DEF ScrapeSource, NormalizeBatch, Consider, InStage
<1>8. ~(PostJob(p) \/ RefuseJob(p))
  BY <1>2, <1>f DEF PostJob, RefuseJob, LocksInOrder
<1>9. List(p)
  BY <1>3, <1>4, <1>5, <1>6, <1>7, <1>8
     DEF Step, Work, RefuseStage, InsertConflict, Die, FinishStage, SyncRaises, ReportRaises, FinishHook
<1> QED BY <1>2, <1>9 DEF List

\* Only a handoff brings a process into the place after a handoff.
LEMMA HandedBegins ==
  ASSUME TypeOK, NEW p \in Procs, Step(p), at'[p] = "handed"
  PROVE  HandOff(p)
<1>f. ProcFunctions
  BY TypesAreFunctions
<1>1. ASSUME Leave(p) PROVE FALSE
  BY <1>1, <1>f, LeaveEffects
<1>2. ASSUME NEW status, NEW known, Close(p, status, known) PROVE FALSE
  BY <1>2, <1>f, CloseEffects
<1>3. \A b \in Bases, c \in Calls : ~Invoke(p, b, c)
  BY <1>f DEF Invoke, ProcFunctions
<1>4. ~(StartStage(p) \/ List(p) \/ ReadEvent(p) \/ WriteEvent(p) \/ PostJob(p) \/ RefuseJob(p)
        \/ CommitSync(p) \/ CommitHandoff(p))
  BY <1>f DEF StartStage, List, ReadEvent, WriteEvent, PostJob, RefuseJob, Record, CommitSync, CommitHandoff,
              ProcFunctions
<1>5. ~(ScrapeSource(p) \/ NormalizeBatch(p) \/ Consider(p))
  BY <1>f DEF ScrapeSource, NormalizeBatch, Consider, InStage
<1> QED
  BY <1>1, <1>2, <1>3, <1>4, <1>5
     DEF Step, Work, RefuseStage, InsertConflict, Die, FinishStage, SyncRaises, ReportRaises, FinishHook

\* A step of p only hands off candidates that p has listed.
LEMMA NotifiedSteps ==
  ASSUME TypeOK, NEW p \in Procs, Step(p), NEW n \in notified' \ notified
  PROVE  HandOff(p) /\ n \in picked[p] \X {carried[p]}
<1>1. HandOff(p)
  BY DEF dbVars, procVars, outVars, Step, Work, Invoke, StartStage, RefuseStage, List, ScrapeSource,
         NormalizeBatch, FinishStage, Consider, ReadEvent, WriteEvent, InsertConflict, PostJob, RefuseJob,
         CommitSync, SyncRaises, ReportRaises, CommitHandoff, FinishHook, Die
<1>2. PICK ok \in SUBSET picked[p] : \E lost \in SUBSET (picked[p] \ ok) :
        notified' = notified \cup ((ok \cup lost) \X {carried[p]})
  BY <1>1 DEF HandOff, HandoffSource
<1>3. PICK lost \in SUBSET (picked[p] \ ok) :
        notified' = notified \cup ((ok \cup lost) \X {carried[p]})
  BY <1>2
<1>4. (ok \cup lost) \subseteq picked[p] /\ n \in (ok \cup lost) \X {carried[p]}
  BY <1>3
<1>5. (ok \cup lost) \X {carried[p]} \subseteq picked[p] \X {carried[p]}
  BY <1>4
<1> QED BY <1>1, <1>4, <1>5

\* Every step keeps what is handed off, or listed to be, stored by the backend.
LEMMA HandedStep ==
  ASSUME TypeOK, RowsOwned, Backed, HandedBacked, NEW p \in Procs, LocksInOrder(p), Step(p)
  PROVE  HandedBacked'
<1>1. synced \subseteq synced'
  BY EventSteps
<1>2. \A r \in Bases \X Stages : rows[r] # "none" => rows'[r] # "none"
  BY RowSteps
<1>3. HandoffFollowsSync'
  <2> SUFFICES ASSUME NEW n \in notified' PROVE n[1] \in synced' /\ rows'[<<n[2], "sync">>] # "none"
    BY DEF HandoffFollowsSync
  <2>1. CASE n \in notified
    <3>1. <<n[2], "sync">> \in Bases \X Stages
      BY <2>1, TypeParts DEF OutTypes, Stages
    <3> QED BY <1>1, <1>2, <2>1, <3>1 DEF HandedBacked, HandoffFollowsSync
  <2>2. CASE n \notin notified
    <3>1. InStage(p, "notify") /\ n[1] \in picked[p] /\ n[2] = carried[p]
      BY <2>2, NotifiedSteps DEF HandOff
    <3>2. carried[p] # None /\ n[1] \in synced
      BY <3>1 DEF HandedBacked, HandoffKnown
    <3> QED BY <1>1, <1>2, <3>1, <3>2, RowsAreRows DEF RowsOwned
  <2> QED BY <2>1, <2>2
<1>4. ASSUME NEW q \in Procs, InStage(q, "notify")'
      PROVE  picked'[q] \subseteq synced' /\ (picked'[q] # {} => carried'[q] # None)
  <2>1. CASE q # p
    <3>1. InStage(q, "notify") /\ picked'[q] = picked[q] /\ carried'[q] = carried[q]
      BY <1>4, <2>1, StepKinds DEF Others, InStage, Stage
    <3> QED BY <1>1, <3>1 DEF HandedBacked, HandoffKnown
  <2>2. CASE q = p
    <3>1. List(p) /\ Stage(p) = "notify"
      BY <1>4, <2>2, NotifyBegins
    <3>2. picked'[p] = HandoffCandidates(p) /\ carried'[p] = carried[p]
      BY <3>1, TypesAreFunctions DEF List, ProcFunctions
    <3>3. HandoffCandidates(p) \subseteq synced
      BY DEF HandoffCandidates, Backed, SentIsSynced
    <3> QED BY <1>1, <2>2, <3>2, <3>3 DEF HandoffCandidates, HandoffSource
  <2> QED BY <2>1, <2>2
<1> QED BY <1>3, <1>4 DEF HandedBacked, HandoffKnown

-----------------------------------------------------------------------------
(* Locks *)

\* Jobs are numbers, and a session deals in versions of jobs.
LEMMA KeysOfSessions ==
  ASSUME TypeOK, NEW p \in Procs
  PROVE  /\ work[p] \subseteq Nat /\ picked[p] \cup cur[p] \cup held[p] \subseteq Keys
         /\ \A k \in picked[p] \cup cur[p] \cup held[p] : k[1] \in Nat
<1>1. \A k \in Keys : k[1] \in Nat
  BY JobsAssumption DEF Keys
<1>2. /\ work[p] \subseteq Jobs
      /\ picked[p] \subseteq Keys /\ cur[p] \subseteq Keys /\ held[p] \subseteq Keys
  BY TypeParts DEF SessionTypes
<1> QED BY <1>1, <1>2, JobsAssumption

\* Every step keeps the lock order: what a session holds comes before what it wants.
LEMMA LocksStep ==
  ASSUME TypeOK, NEW p \in Procs, LocksInOrder(p), Step(p)
  PROVE  LocksInOrder(p)'
<1> USE DEF dbVars, procVars, outVars
<1>f. ProcFunctions
  BY TypesAreFunctions
<1>n. work[p] \subseteq Nat /\ \A k \in picked[p] \cup cur[p] \cup held[p] : k[1] \in Nat
  BY KeysOfSessions
<1>e. ASSUME held'[p] = {}, at'[p] \notin {"stage", "write", "post"} PROVE LocksInOrder(p)'
  BY <1>e DEF LocksInOrder, Syncing
<1>e2. ASSUME held'[p] = {}, at'[p] \notin {"write", "post"}, picked'[p] = {} PROVE LocksInOrder(p)'
  BY <1>e2 DEF LocksInOrder
<1>1. ASSUME NEW b \in Bases, NEW c \in Calls, Invoke(p, b, c) PROVE LocksInOrder(p)'
  BY <1>1, <1>f, <1>e DEF Invoke, ProcFunctions, LocksInOrder, Syncing
<1>2. ASSUME StartStage(p) PROVE LocksInOrder(p)'
  BY <1>2, <1>f, <1>e DEF StartStage, ProcFunctions, LocksInOrder, Syncing
<1>3. ASSUME Leave(p) PROVE LocksInOrder(p)'
  BY <1>3, <1>f, <1>e, LeaveEffects DEF Emptied
<1>4. ASSUME NEW status, NEW known, Close(p, status, known) PROVE LocksInOrder(p)'
  BY <1>4, <1>f, <1>e, CloseEffects DEF Emptied
<1>5. ASSUME List(p) PROVE LocksInOrder(p)'
  <2>1. /\ at'[p] = "stage" /\ held'[p] = held[p] /\ at[p] = "list" /\ Stage(p)' = Stage(p)
        /\ Stage(p) # "notify" => picked'[p] = {}
    BY <1>5, <1>f DEF List, ProcFunctions, Stage
  <2>2. held'[p] = {}
    BY <2>1 DEF LocksInOrder, Syncing
  <2>3. CASE Stage(p) = "notify"
    BY <2>1, <2>2, <2>3 DEF LocksInOrder, Syncing
  <2> QED BY <1>e2, <2>1, <2>2, <2>3
<1>6. ASSUME ScrapeSource(p) \/ NormalizeBatch(p) PROVE LocksInOrder(p)'
  <2>1. /\ at' = at /\ todo' = todo /\ cur' = cur /\ held' = held /\ picked' = picked
        /\ at[p] = "stage" /\ Stage(p) # "sync"
    BY <1>6 DEF ScrapeSource, NormalizeBatch, InStage
  <2> QED BY <2>1 DEF LocksInOrder, Stage, Syncing
<1>c. ASSUME Consider(p) PROVE LocksInOrder(p)'
  <2>1. PICK j \in work[p] :
          /\ \A i \in work[p] : j <= i
          /\ LET found == picked[p] \cup (IF IsCandidate(j) THEN {Version(j)} ELSE {})
             IN /\ picked' = [picked EXCEPT ![p] = found]
                /\ work' = [work EXCEPT ![p] = IF Cardinality(found) >= call[p].limit THEN {} ELSE @ \ {j}]
    BY <1>c DEF Consider
  <2>2. /\ at' = at /\ todo' = todo /\ cur' = cur /\ held' = held
        /\ at[p] = "stage" /\ Stage(p) = "sync" /\ Syncing(p) /\ held[p] = {}
    BY <1>c, <2>1 DEF Consider, InStage, Syncing, LocksInOrder
  <2>3. Version(j)[1] = j
    BY DEF Version
  <2>4. work'[p] \subseteq work[p] \ {j} /\ picked'[p] \subseteq picked[p] \cup {Version(j)}
    BY <1>f, <2>1 DEF ProcFunctions
  <2>5. ASSUME NEW k \in picked'[p], NEW i \in work'[p] PROVE k[1] < i
    <3>1. CASE k \in picked[p]
      BY <2>2, <2>4, <3>1 DEF LocksInOrder
    <3>2. CASE k = Version(j)
      <4>1. j <= i /\ j # i /\ i \in Nat /\ j \in Nat
        BY <1>n, <2>1, <2>4
      <4> QED BY <2>3, <3>2, <4>1
    <3> QED BY <2>4, <3>1, <3>2
  <2>6. ASSUME NEW k \in picked[p] PROVE k[1] # j
    <3>1. k[1] < j
      BY <2>2 DEF LocksInOrder
    <3> QED BY <1>n, <3>1
  <2>7. ASSUME NEW k \in picked'[p], NEW l \in picked'[p], k[1] = l[1] PROVE k = l
    BY <2>2, <2>3, <2>4, <2>6, <2>7 DEF LocksInOrder
  <2> QED BY <2>2, <2>5, <2>7 DEF LocksInOrder, Syncing, Stage
<1>7. ASSUME ReadEvent(p) PROVE LocksInOrder(p)'
  <2>1. PICK k \in NextVersions(p) :
          /\ cur'[p] = {k}
          /\ at[p] = "stage" /\ at'[p] = "write" /\ Stage(p) = "sync" /\ work[p] = {}
          /\ UNCHANGED <<todo, work, picked, held>>
    BY <1>7, ReadEffects
  <2>2. k \in picked[p] /\ \A l \in picked[p] : k[1] <= l[1]
    BY DEF NextVersions
  <2> QED BY <2>1, <2>2 DEF LocksInOrder, Syncing, Stage
<1>8. ASSUME WriteEvent(p) PROVE LocksInOrder(p)'
  <2>1. PICK k \in cur[p] :
          /\ held'[p] = held[p] \cup {k} /\ at[p] = "write" /\ at'[p] = "post"
          /\ UNCHANGED <<todo, work, picked, cur>>
    BY <1>8, WriteEffects
  <2>2. /\ Stage(p) = "sync" /\ Syncing(p) /\ work[p] = {} /\ k \in picked[p]
        /\ \A l \in picked[p] : k[1] <= l[1]
    BY <2>1 DEF LocksInOrder, Syncing
  <2>3. ASSUME NEW h \in held[p] \cup {k}, NEW l \in picked[p] \ cur[p] PROVE h[1] < l[1]
    <3>1. CASE h \in held[p]
      BY <2>1, <3>1 DEF LocksInOrder
    <3>2. CASE h = k
      <4>1. k[1] # l[1]
        BY <2>2 DEF LocksInOrder
      <4>2. k[1] <= l[1] /\ k[1] \in Nat /\ l[1] \in Nat
        BY <1>n, <2>2
      <4> QED BY <3>2, <4>1, <4>2
    <3> QED BY <3>1, <3>2
  <2> QED BY <2>1, <2>2, <2>3 DEF LocksInOrder, Syncing, Stage
<1>9. ASSUME PostJob(p) \/ RefuseJob(p) PROVE LocksInOrder(p)'
  <2>1. /\ at[p] = "post" /\ at'[p] = "stage"
        /\ picked'[p] = picked[p] \ cur[p] /\ UNCHANGED <<held, todo, work>>
    BY <1>9, RecordEffects
  <2> QED BY <2>1 DEF LocksInOrder, Syncing, Stage
<1>10. ASSUME CommitSync(p) \/ CommitHandoff(p) PROVE LocksInOrder(p)'
  BY <1>10, <1>f, <1>e DEF CommitSync, CommitHandoff, EmptySession, InStage, ProcFunctions
<1>11. ASSUME HandOff(p) PROVE LocksInOrder(p)'
  BY <1>11, <1>f, <1>e DEF HandOff, InStage, ProcFunctions, LocksInOrder, Syncing
<1> QED
  BY <1>1, <1>2, <1>3, <1>4, <1>5, <1>6, <1>7, <1>8, <1>9, <1>10, <1>11, <1>c
     DEF Step, Work, RefuseStage, InsertConflict, Die, FinishStage, SyncRaises, ReportRaises, FinishHook

\* Two sessions that lock in listing order never wait for each other.
LEMMA OrderBreaksCycles ==
  ASSUME TypeOK, \A p \in Procs : LocksInOrder(p)
  PROVE  NoLockCycle
<1> SUFFICES ASSUME NEW p \in Procs, NEW q \in Procs, WaitsFor(p, q), WaitsFor(q, p) PROVE FALSE
  BY DEF NoLockCycle
<1>1. PICK k : k \in cur[p] /\ k \in held[q]
  BY DEF WaitsFor
<1>2. PICK l : l \in cur[q] /\ l \in held[p]
  BY DEF WaitsFor
<1>3. k \in picked[p] /\ l \in picked[q] /\ at[p] = "write" /\ at[q] = "write"
  BY <1>1, <1>2 DEF WaitsFor, LocksInOrder
<1>4. k[1] < l[1] /\ l[1] < k[1]
  BY <1>1, <1>2, <1>3 DEF LocksInOrder
<1>5. k[1] \in Nat /\ l[1] \in Nat
  BY <1>1, <1>2, KeysOfSessions
<1> QED BY <1>4, <1>5

-----------------------------------------------------------------------------
(* What a handoff has before it *)

\* A session keeps the rows that it holds under its own run.
LEMMA HeldStep ==
  ASSUME TypeOK, NEW p \in Procs, LocksInOrder(p), HeldRuns(p), Step(p)
  PROVE  HeldRuns(p)'
<1> USE DEF dbVars, procVars, outVars
<1>f. ProcFunctions
  BY TypesAreFunctions
<1>1. CASE Emptied(p)
  BY <1>1 DEF HeldRuns, Emptied
<1>2. CASE ReadEvent(p)
  <2>1. PICK k \in NextVersions(p) :
          /\ \A l \in Keys : l # k => mem'[p][l] = mem[p][l]
          /\ at[p] = "stage" /\ UNCHANGED <<base, held>>
    BY <1>2, ReadEffects
  <2>2. k \notin held[p]
    <3>1. k \in held[p] => k[1] < k[1] /\ k[1] \in Nat
      BY <2>1, KeysOfSessions DEF NextVersions, LocksInOrder
    <3> QED BY <3>1
  <2> QED BY <2>1, <2>2, KeysOfSessions DEF HeldRuns
<1>3. CASE WriteEvent(p)
  <2>1. PICK k \in cur[p] :
          /\ held'[p] = held[p] \cup {k} /\ mem'[p][k].run = base[p]
          /\ \A l \in Keys : l # k => mem'[p][l] = mem[p][l]
          /\ UNCHANGED base
    BY <1>3, WriteEffects
  <2> QED BY <2>1, KeysOfSessions DEF HeldRuns
<1>4. CASE PostJob(p) \/ RefuseJob(p)
  <2>1. (\A k \in Keys : mem'[p][k].run = mem[p][k].run) /\ UNCHANGED <<base, held>>
    BY <1>4, RecordEffects
  <2> QED BY <2>1, KeysOfSessions DEF HeldRuns
<1>5. CASE mem' = mem /\ ~Emptied(p) /\ ~WriteEvent(p)
  <2>1. CASE held[p] = {} /\ held' = held
    BY <2>1 DEF HeldRuns
  <2>2. CASE held'[p] = held[p] /\ base'[p] = base[p]
    BY <1>5, <2>2 DEF HeldRuns
  <2>3. ASSUME NEW b \in Bases, NEW c \in Calls, Invoke(p, b, c) PROVE held[p] = {} /\ held' = held
    BY <2>3 DEF Invoke, LocksInOrder, Syncing
  <2>4. ASSUME Leave(p) PROVE FALSE
    BY <1>5, <1>f, <2>4, LeaveEffects
  <2>5. ASSUME NEW status, NEW known, Close(p, status, known) PROVE FALSE
    BY <1>5, <1>f, <2>5, CloseEffects
  <2>6. ASSUME EmptySession(p) PROVE FALSE
    BY <1>5, <1>f, <2>6 DEF EmptySession, ProcFunctions, Emptied
  <2>7. ASSUME PostJob(p) \/ RefuseJob(p) PROVE held'[p] = held[p] /\ base'[p] = base[p]
    BY <2>7 DEF PostJob, RefuseJob
  <2> QED
    BY <1>5, <2>1, <2>2, <2>3, <2>4, <2>5, <2>6, <2>7
       DEF Step, Work, StartStage, RefuseStage, List, ScrapeSource, NormalizeBatch, CommitSync, Consider,
           ReadEvent, FinishStage, InsertConflict, HandOff, CommitHandoff, FinishHook, Die, SyncRaises, ReportRaises
<1> QED BY <1>1, <1>2, <1>3, <1>4, <1>5, MemSteps

\* Handoff rows are written by the commit of a handoff only, and do not go away.
LEMMA HandoffSteps ==
  ASSUME TypeOK, NEW p \in Procs, Step(p), NEW h \in Jobs \X Bases, handoff[h] # "none"
  PROVE  handoff'[h] # "none"
<1>1. CASE CommitHandoff(p)
  BY <1>1 DEF CommitHandoff
<1>2. CASE ~CommitHandoff(p)
  BY <1>2 DEF dbVars, Step, Work, Invoke, StartStage, RefuseStage, List, ScrapeSource, NormalizeBatch,
              FinishStage, Consider, ReadEvent, WriteEvent, InsertConflict, PostJob, RefuseJob, CommitSync,
              SyncRaises, ReportRaises, HandOff, FinishHook, Die
<1> QED BY <1>1, <1>2

\* No process delivers under the run id of a sync that has completed.
LEMMA CompletedIsClosed ==
  ASSUME TypeOK, RowsOwned, NEW p \in Procs, LocksInOrder(p), HeldRuns(p), Step(p),
         NEW b \in Bases, rows[<<b, "sync">>] = "completed",
         NEW k \in Keys, event'[k] = [status |-> "sent", run |-> b]
  PROVE  event[k] = event'[k]
<1>1. CASE event' = event
  BY <1>1
<1>2. CASE event' # event
  <2>1. event' = Committed(p) /\ Syncing(p)
    BY <1>2, EventSteps
  <2>2. CASE k \in held[p]
    <3>1. event'[k].run = base[p]
      BY <2>1, <2>2 DEF Committed, HeldRuns
    <3>2. base[p] = b
      BY <3>1
    <3>3. rows[Row(p)] = "started" /\ Row(p) = <<b, "sync">>
      BY <2>1, <3>2 DEF Syncing, RowsOwned, Begun, Row
    <3> QED BY <3>3
  <2>3. CASE k \notin held[p]
    BY <2>1, <2>3 DEF Committed
  <2> QED BY <2>2, <2>3
<1> QED BY <1>1, <1>2

\* Every step leaves a handoff under its own run the deliveries of that run.
LEMMA NotifyStep ==
  ASSUME TypeOK, RowsOwned, NEW p \in Procs, LocksInOrder(p), HeldRuns(p), Step(p),
         NEW q \in Procs, NotifyHas(q)
  PROVE  NotifyHas(q)'
<1> USE DEF dbVars, procVars, outVars
<1>f. ProcFunctions
  BY TypesAreFunctions
\* A notify session that the step does not touch.
<1>1. ASSUME Notifying(q), at[q] # "idle", UNCHANGED <<carried[q], base[q], picked[q]>>, carried[q] = base[q],
             NEW k \in Keys, event'[k] = [status |-> "sent", run |-> base[q]]
      PROVE  k \in picked'[q] \/ handoff'[<<k[1], base[q]>>] # "none"
  <2>1. base[q] \in Bases
    BY <1>1, Busy
  <2>2. rows[<<base[q], "sync">>] = "completed"
    BY <1>1, <2>1, NoneAssumption DEF RowsOwned
  <2>3. event[k] = [status |-> "sent", run |-> base[q]]
    BY <1>1, <2>1, <2>2, CompletedIsClosed
  <2>4. k \in picked[q] \/ handoff[<<k[1], base[q]>>] # "none"
    BY <1>1, <2>3 DEF NotifyHas
  <2>5. <<k[1], base[q]>> \in Jobs \X Bases
    BY <2>1 DEF Keys
  <2> QED BY <1>1, <2>4, <2>5, HandoffSteps
<1>2. CASE q # p
  <2>1. UNCHANGED <<at[q], todo[q], carried[q], base[q], picked[q]>>
    BY <1>2, StepKinds DEF Others
  <2> QED BY <1>1, <2>1 DEF NotifyHas, Notifying, Stage
<1>3. CASE q = p /\ at'[p] = "handed"
  <2>1. HandOff(p)
    BY <1>3, HandedBegins
  <2>2. Notifying(q) /\ at[q] # "idle" /\ UNCHANGED <<todo, carried, base, picked>>
    BY <1>3, <2>1 DEF HandOff, InStage, Notifying
  <2>3. Stage(q)' = "notify"
    BY <2>2 DEF Notifying, Stage
  <2> QED BY <1>1, <2>2, <2>3 DEF NotifyHas
<1>4. CASE q = p /\ at'[p] # "handed" /\ Notifying(p)'
  <2>1. List(p) /\ Stage(p) = "notify"
    BY <1>4, NotifyBegins DEF Notifying, InStage
  <2>2. picked'[p] = HandoffCandidates(p) /\ at[p] = "list" /\ UNCHANGED <<event, handoff, carried, base>>
    BY <2>1, <1>f DEF List, ProcFunctions
  <2>3. base[p] # None
    BY <2>2, Busy, NoneAssumption
  <2>4. ASSUME carried[p] = base[p], NEW k \in Keys, event[k] = [status |-> "sent", run |-> base[p]]
        PROVE  k \in picked'[p] \/ handoff[<<k[1], base[p]>>] # "none"
    BY <2>2, <2>3, <2>4 DEF HandoffCandidates, HandoffSource
  <2> QED BY <1>4, <2>2, <2>4 DEF NotifyHas
<1>5. CASE q = p /\ at'[p] # "handed" /\ ~Notifying(p)'
  BY <1>5 DEF NotifyHas
<1> QED BY <1>2, <1>3, <1>4, <1>5

-----------------------------------------------------------------------------
(* The theorems for any number of processes *)

\* The inductive invariant holds initially.
LEMMA IInvInit == Init => IInv
<1> SUFFICES ASSUME Init PROVE IInv
  OBVIOUS
<1>1. Backed /\ HandedBacked
  BY DEF Init, Backed, SentIsSynced, HandedBacked, HandoffFollowsSync, HandoffKnown, InStage, NoEvent, NotRead
<1>2. \A p \in Procs : ProcInv(p)
  BY DEF Init, ProcInv, FullCarries, LocksInOrder, HeldRuns, NotifyHas, Notifying, Syncing
<1> QED BY <1>1, <1>2, TypeInit, RowsInit DEF IInv

\* Every step keeps the inductive invariant.
LEMMA IInvStep == IInv /\ [Next]_vars => IInv'
<1> SUFFICES ASSUME IInv, [Next]_vars PROVE IInv'
  OBVIOUS
<1>1. TypeOK'
  BY TypeStep DEF IInv, HandedBacked
<1>2. ASSUME NEW p \in Procs, Step(p) PROVE IInv'
  <2>1. TypeOK /\ RowsOwned /\ Backed /\ HandedBacked /\ LocksInOrder(p) /\ HeldRuns(p)
    BY DEF IInv, ProcInv
  <2>2. RowsOwned' /\ Backed' /\ HandedBacked'
    BY <1>2, <2>1, RowsStep, BackedStep, HandedStep
  <2>3. \A q \in Procs : FullCarries(q)'
    BY <1>2, <2>1, CarriesStep DEF IInv, ProcInv
  <2>4. \A q \in Procs : NotifyHas(q)'
    BY <1>2, <2>1, NotifyStep DEF IInv, ProcInv
  <2>5. ASSUME NEW q \in Procs PROVE LocksInOrder(q)' /\ HeldRuns(q)'
    <3>1. CASE q = p
      BY <1>2, <2>1, <3>1, LocksStep, HeldStep
    <3>2. CASE q # p
      <4>1. UNCHANGED <<at[q], base[q], todo[q], work[q], picked[q], cur[q], mem[q], held[q]>>
        BY <1>2, <2>1, <3>2, StepKinds DEF Others
      <4> QED BY <4>1 DEF IInv, ProcInv, LocksInOrder, HeldRuns, Syncing, Stage
    <3> QED BY <3>1, <3>2
  <2> QED BY <1>1, <2>2, <2>3, <2>4, <2>5 DEF IInv, ProcInv
<1>3. CASE UNCHANGED vars
  <2> USE <1>3 DEF vars, dbVars, procVars, outVars
  <2>1. RowsOwned' /\ Backed' /\ HandedBacked'
    BY DEF IInv, RowsOwned, Backed, SentIsSynced, HandedBacked, HandoffFollowsSync, HandoffKnown,
           InStage, Begun, Row, Stage
  <2>2. \A p \in Procs : ProcInv(p)'
    BY DEF IInv, ProcInv, FullCarries, LocksInOrder, HeldRuns, NotifyHas, Syncing, Notifying, Stage
  <2> QED BY <1>1, <2>1, <2>2 DEF IInv
<1> QED BY <1>2, <1>3, NextIsStep

\* The inductive invariant is an invariant.
LEMMA Invariant == Spec => []IInv
  BY IInvInit, IInvStep, PTL DEF Spec

\* The database is well typed, and what its rows call sent is stored by the
\* backend, whatever stages of however many processes overlap or die.
THEOREM RowsAreSound == Spec => []RowsInv
<1>1. IInv => RowsInv
  BY DEF IInv, Backed, RowsInv
<1> QED BY <1>1, Invariant, PTL

\* Whatever is handed to notifications has been accepted by the backend, and
\* belongs to a run whose sync stage has begun.
THEOREM HandoffAfterSync == Spec => []HandoffFollowsSync
<1>1. IInv => HandoffFollowsSync
  BY DEF IInv, HandedBacked
<1> QED BY <1>1, Invariant, PTL

\* No two of the sync sessions that share rows wait for each other, however many
\* there are and however long they keep their locks.
THEOREM LocksAreOrdered == Spec => []NoLockCycle
<1>1. IInv => NoLockCycle
  BY OrderBreaksCycles DEF IInv, ProcInv
<1> QED BY <1>1, Invariant, PTL

\* A run row is started once and closed once, by the stage that started it.
THEOREM RowsNeverReopen == Spec => RowsCloseOnce
<1> DEFINE Once == \A r \in Bases \X Stages :
                     rows'[r] # rows[r] =>
                       \/ rows[r] = "none" /\ rows'[r] = "started"
                       \/ rows[r] = "started" /\ rows'[r] \in {"completed", "failed"}
<1>1. IInv /\ [Next]_vars => Once
  BY RowSteps, NextIsStep DEF IInv, vars, dbVars
<1> HIDE DEF Once
<1>2. Spec => [][Once]_vars
  BY <1>1, Invariant, PTL DEF Spec
<1> QED BY <1>2 DEF RowsCloseOnce, Once

\* The handoff of a full run whose sync completed leaves no delivery of that sync
\* without a handoff row, whatever other processes capture, sync or hand off between
\* the two stages.
THEOREM FullRunForgetsNone == Spec => FullRunHandsOff
<1> DEFINE HandsOff == \A p \in Procs :
                         CommitHandoff(p) /\ call[p].plan = Full /\ rows[<<base[p], "sync">>] = "completed" =>
                           \A k \in Keys : event[k] = [status |-> "sent", run |-> base[p]] =>
                             handoff'[<<k[1], base[p]>>] # "none"
<1>1. IInv => HandsOff
  <2> SUFFICES ASSUME IInv, NEW p \in Procs, CommitHandoff(p), call[p].plan = Full,
                      rows[<<base[p], "sync">>] = "completed",
                      NEW k \in Keys, event[k] = [status |-> "sent", run |-> base[p]]
               PROVE  handoff'[<<k[1], base[p]>>] # "none"
    OBVIOUS
  <2>1. at[p] = "handed" /\ Notifying(p) /\ Stage(p) = "notify"
    BY DEF CommitHandoff, IInv, ProcInv, NotifyHas, Notifying
  <2>2. carried[p] = base[p]
    BY <2>1 DEF IInv, ProcInv, FullCarries
  <2>3. k \in picked[p] \/ handoff[<<k[1], base[p]>>] # "none"
    BY <2>1, <2>2 DEF IInv, ProcInv, NotifyHas
  <2>4. <<k[1], base[p]>> \in Jobs \X Bases
    BY <2>1, Busy DEF IInv, Keys
  <2> QED BY <2>2, <2>3, <2>4 DEF CommitHandoff, HandoffSource, JobsOf
<1> HIDE DEF HandsOff
<1>2. Spec => [][HandsOff]_vars
  BY <1>1, Invariant, PTL DEF Spec
<1> QED BY <1>2 DEF FullRunHandsOff, HandsOff

-----------------------------------------------------------------------------
(* One process: what its sync session knows *)

\* What a commit of the only process makes of a version: it changes none that is
\* delivered; it keeps events with the runs of their captures; and it decides what
\* the session holds and has done with.
LEMMA CommitDecides ==
  ASSUME TypeOK, NEW p \in Procs, Syncing(p), SyncKnows(p), HeldRuns(p), EventsOfCaptures, NEW k \in Keys
  PROVE  /\ event[k].status = "sent" => Committed(p)[k] = event[k]
         /\ Committed(p)[k].status # "none" /\ k[1] \notin Unbuildable => Committed(p)[k].run = k[2]
         /\ Committed(p)[k].status = "sent" => k[1] \notin Unbuildable
         /\ k \in held[p] \ picked[p] => Committed(p)[k].status \in Decided /\ Committed(p)[k].run = base[p]
<1>1. CASE k \in held[p]
  <2>1. k[1] \in InScope(p) /\ k = Version(k[1]) /\ IsCandidate(k[1]) /\ Knows(p, k)
    BY <1>1 DEF SyncKnows
  <2>2. mem[p][k].run = base[p]
    BY <1>1 DEF HeldRuns
  <2>3. Committed(p)[k].run = base[p]
    BY <1>1, <2>2 DEF Committed
  <2>4. Committed(p)[k].status = mem[p][k].status
    BY <1>1, <2>1 DEF Committed, Knows
  <2>5. k[1] \notin Unbuildable => k[2] = base[p] /\ event[k].status # "sent"
    BY <2>1 DEF Version, InScope, IsCandidate, Retryable
  <2>6. event[k].status # "sent"
    BY <2>5 DEF EventsOfCaptures
  <2>7. mem[p][k].status = "sent" => k[1] \notin Unbuildable
    BY <2>1 DEF Knows
  <2>8. k \in held[p] \ picked[p] => mem[p][k].status \in Decided
    BY DEF SyncKnows
  <2> QED BY <2>3, <2>4, <2>5, <2>6, <2>7, <2>8
<1>2. CASE k \notin held[p]
  <2>1. Committed(p)[k] = event[k]
    BY <1>2 DEF Committed
  <2> QED BY <1>2, <2>1 DEF EventsOfCaptures
<1> QED BY <1>1, <1>2

\* Only a listing brings a process into a sync stage.
LEMMA SyncBegins ==
  ASSUME TypeOK, NEW p \in Procs, LocksInOrder(p), Step(p), Syncing(p)'
  PROVE  \/ List(p) /\ Stage(p) = "sync"
         \/ Consider(p) \/ ReadEvent(p) \/ WriteEvent(p) \/ PostJob(p) \/ RefuseJob(p)
<1> USE DEF dbVars, procVars, outVars
<1>1. at'[p] \in {"stage", "write", "post"} /\ Head(todo'[p]) = "sync"
  BY DEF Syncing, Stage
<1>2. ASSUME todo'[p] = todo[p] PROVE Stage(p) = "sync"
  BY <1>1, <1>2 DEF Stage
<1>f. ProcFunctions
  BY TypesAreFunctions
<1>3. ASSUME Leave(p) PROVE FALSE
  BY <1>1, <1>3, <1>f, LeaveEffects
<1>4. ASSUME NEW status, NEW known, Close(p, status, known) PROVE FALSE
  BY <1>1, <1>4, <1>f, CloseEffects
<1>5. \A b \in Bases, c \in Calls : ~Invoke(p, b, c)
  BY <1>1, <1>f DEF Invoke, ProcFunctions
<1>6. ~(StartStage(p) \/ CommitSync(p) \/ HandOff(p) \/ CommitHandoff(p))
  BY <1>1, <1>f DEF StartStage, CommitSync, HandOff, CommitHandoff, ProcFunctions
<1>7. ~(ScrapeSource(p) \/ NormalizeBatch(p))
  BY <1>2, <1>f DEF ScrapeSource, NormalizeBatch, InStage
<1>8. List(p) => Stage(p) = "sync"
  BY <1>2 DEF List
<1> QED
  BY <1>3, <1>4, <1>5, <1>6, <1>7, <1>8
     DEF Step, Work, RefuseStage, InsertConflict, Die, FinishStage, SyncRaises, ReportRaises, FinishHook

\* What a session sees of the tables while nothing in them changes.
LEMMA SameTables ==
  ASSUME NEW p \in Procs, UNCHANGED <<event, norm, scope, base, call, todo>>
  PROVE  /\ Stage(p)' = Stage(p) /\ InScope(p)' = InScope(p) /\ Eligible(p)' = Eligible(p)
         /\ \A j : Version(j)' = Version(j) /\ (IsCandidate(j)' <=> IsCandidate(j))
         /\ DecidedBy(base[p])' = DecidedBy(base[p])
<1>1. Stage(p)' = Stage(p) /\ InScope(p)' = InScope(p)
  BY DEF Stage, InScope
<1>2. Eligible(p)' = Eligible(p)
  BY <1>1 DEF Eligible
<1>3. \A j : Version(j)' = Version(j)
  BY DEF Version
<1>4. \A j : IsCandidate(j)' <=> IsCandidate(j)
  BY <1>3 DEF IsCandidate, Retryable
<1>5. DecidedBy(base[p])' = DecidedBy(base[p])
  BY DEF DecidedBy
<1> QED BY <1>1, <1>2, <1>3, <1>4, <1>5

\* A job that is no candidate has been decided by the run that captured it.
LEMMA NoCandidateIsDecided ==
  ASSUME TypeOK, EventsOfCaptures, NEW p \in Procs, NEW j \in InScope(p), ~IsCandidate(j)
  PROVE  Version(j) \in DecidedBy(base[p])
<1>1. j \in Jobs /\ scope[j] = base[p] /\ j \notin Unbuildable /\ ~Retryable(event[Version(j)])
  BY DEF InScope, IsCandidate
<1>2. Version(j) = <<j, base[p]>> /\ Version(j) \in Keys
  BY <1>1, VersionIsKey DEF Version
<1>3. event[Version(j)].status \in EventStatuses
  BY <1>2, TypeParts DEF DbTypes, Events
<1>4. event[Version(j)].status \in Decided
  BY <1>1, <1>3 DEF Retryable, Decided, EventStatuses
<1>5. event[Version(j)].run = base[p]
  BY <1>1, <1>2, <1>4 DEF EventsOfCaptures, Decided
<1> QED BY <1>2, <1>4, <1>5 DEF DecidedBy

\* A look at the next job keeps every eligible job ahead of the session, decided, or
\* beyond the limit of the command.
LEMMA ConsiderCovers ==
  ASSUME TypeOK, EventsOfCaptures, NEW p \in Procs, LocksInOrder(p), SyncKnows(p), Consider(p)
  PROVE  SyncKnows(p)'
<1>f. ProcFunctions
  BY TypesAreFunctions
<1> DEFINE Found(j) == picked[p] \cup (IF IsCandidate(j) THEN {Version(j)} ELSE {})
<1>1. PICK j \in work[p] :
        /\ \A i \in work[p] : j <= i
        /\ picked' = [picked EXCEPT ![p] = Found(j)]
        /\ work' = [work EXCEPT ![p] = IF Cardinality(Found(j)) >= call[p].limit THEN {} ELSE @ \ {j}]
  BY DEF Consider
<1> HIDE DEF Found
<1>2. /\ picked'[p] = Found(j)
      /\ work'[p] = IF Cardinality(Found(j)) >= call[p].limit THEN {} ELSE work[p] \ {j}
  BY <1>f, <1>1 DEF ProcFunctions
<1>3. /\ Syncing(p) /\ at'[p] = "stage" /\ at[p] = "stage" /\ held[p] = {} /\ held'[p] = {}
      /\ UNCHANGED <<event, norm, scope, base, call, todo>>
  BY <1>1 DEF Consider, InStage, Syncing, LocksInOrder, dbVars
<1>4. j \in Eligible(p) /\ j \in InScope(p) /\ work[p] \subseteq Eligible(p) /\ Covers(p)
  BY <1>1, <1>3 DEF SyncKnows, Eligible
<1>5. Version(j)[1] = j
  BY DEF Version
<1>6. ASSUME NEW k \in Found(j) PROVE k[1] \in InScope(p) /\ k = Version(k[1]) /\ IsCandidate(k[1])
  BY <1>3, <1>4, <1>5, <1>6 DEF Found, SyncKnows
<1>7. ASSUME NEW i \in work[p], i # j, NEW k \in Found(j) PROVE k[1] < i
  <2>1. j <= i /\ i \in Nat /\ j \in Nat
    BY <1>1, KeysOfSessions
  <2>2. CASE k \in picked[p]
    BY <1>3, <2>2 DEF LocksInOrder
  <2>3. CASE k = Version(j)
    BY <1>5, <1>7, <2>1, <2>3
  <2> QED BY <2>2, <2>3 DEF Found
<1>8. ASSUME NEW i \in Eligible(p)
      PROVE  \/ i \in work'[p]
             \/ Version(i) \in picked'[p] \cup held'[p]
             \/ Version(i) \in DecidedBy(base[p])
             \/ work'[p] = {} /\ Cardinality({k \in picked'[p] \cup held'[p] : k[1] < i}) >= call[p].limit
  <2>1. CASE i \in work[p] /\ i # j
    <3>1. CASE Cardinality(Found(j)) >= call[p].limit
      <4>1. {k \in picked'[p] \cup held'[p] : k[1] < i} = Found(j)
        BY <1>2, <1>3, <1>7, <2>1
      <4>2. work'[p] = {}
        BY <1>2, <3>1
      <4> QED BY <3>1, <4>1, <4>2
    <3>2. CASE ~(Cardinality(Found(j)) >= call[p].limit)
      BY <1>2, <2>1, <3>2
    <3> QED BY <3>1, <3>2
  <2>2. CASE i = j
    <3>1. CASE IsCandidate(j)
      BY <1>2, <2>2, <3>1 DEF Found
    <3>2. CASE ~IsCandidate(j)
      BY <1>4, <2>2, <3>2, NoCandidateIsDecided
    <3> QED BY <3>1, <3>2
  <2>3. CASE i \notin work[p]
    <3>1. Version(i) \in picked[p] \/ Version(i) \in DecidedBy(base[p])
      BY <1>1, <1>3, <1>4, <2>3 DEF Covers
    <3> QED BY <1>2, <3>1 DEF Found
  <2> QED BY <2>1, <2>2, <2>3
<1>9. Covers(p)'
  <2>1. /\ Eligible(p)' = Eligible(p) /\ \A i : Version(i)' = Version(i)
        /\ DecidedBy(base[p])' = DecidedBy(base[p]) /\ call'[p] = call[p]
    BY <1>3, SameTables
  <2> QED BY <1>8, <2>1 DEF Covers
<1>10. /\ InScope(p)' = InScope(p) /\ Eligible(p)' = Eligible(p)
       /\ \A i : Version(i)' = Version(i) /\ (IsCandidate(i)' <=> IsCandidate(i))
  BY <1>3, SameTables
<1>11. work'[p] \subseteq Eligible(p)
  BY <1>2, <1>4
<1> QED BY <1>2, <1>3, <1>6, <1>9, <1>10, <1>11 DEF SyncKnows

\* A sync session that goes on with what it has found.
LEMMA SessionGoesOn ==
  ASSUME NEW p \in Procs, Syncing(p), SyncKnows(p),
         UNCHANGED <<event, norm, scope, base, call, todo, work>>,
         picked'[p] \cup held'[p] = picked[p] \cup held[p]
  PROVE  /\ work'[p] \subseteq Eligible(p)'
         /\ \A k \in picked'[p] \cup held'[p] :
              k[1] \in InScope(p)' /\ k = Version(k[1])' /\ IsCandidate(k[1])'
         /\ Covers(p)'
<1>1. /\ InScope(p)' = InScope(p) /\ Eligible(p)' = Eligible(p)
      /\ \A i : Version(i)' = Version(i) /\ (IsCandidate(i)' <=> IsCandidate(i))
      /\ DecidedBy(base[p])' = DecidedBy(base[p]) /\ call'[p] = call[p]
  BY SameTables
<1>2. Covers(p)'
  BY <1>1 DEF SyncKnows, Covers
<1> QED BY <1>1, <1>2 DEF SyncKnows

\* With one process, a sync session sees each row as the database has it.
LEMMA SyncKnowsStep ==
  ASSUME TypeOK, NEW p \in Procs, LocksInOrder(p), EventsOfCaptures, SyncKnows(p), Step(p)
  PROVE  SyncKnows(p)'
<1> SUFFICES ASSUME Syncing(p)' PROVE SyncKnows(p)'
  BY DEF SyncKnows
<1> USE DEF dbVars, procVars, outVars
<1>f. ProcFunctions
  BY TypesAreFunctions
<1>1. CASE List(p) /\ Stage(p) = "sync"
  <2>1. /\ work'[p] = Eligible(p) /\ picked'[p] = {} /\ at'[p] = "stage" /\ held'[p] = held[p] /\ at[p] = "list"
        /\ UNCHANGED <<event, norm, scope, base, call, todo>>
    BY <1>1, <1>f DEF List, Listed, ProcFunctions
  <2>2. held'[p] = {}
    BY <2>1 DEF LocksInOrder, Syncing
  <2>3. Eligible(p)' = Eligible(p)
    BY <2>1, SameTables
  <2>4. Covers(p)'
    BY <2>1, <2>3 DEF Covers
  <2> QED BY <2>1, <2>2, <2>3, <2>4 DEF SyncKnows
<1>2. CASE ReadEvent(p)
  <2>1. PICK k \in NextVersions(p) :
          /\ cur'[p] = {k} /\ k \in Keys
          /\ mem'[p][k].status = event[k].status /\ mem'[p][k].was = event[k].status
          /\ \A l \in Keys : l # k => mem'[p][l] = mem[p][l]
          /\ at[p] = "stage" /\ at'[p] = "write" /\ Stage(p) = "sync"
          /\ UNCHANGED <<event, norm, scope, base, call, todo, work, picked, held>>
    BY <1>2, ReadEffects
  <2>2. Syncing(p)
    BY <2>1 DEF Syncing
  <2>3. k \notin held[p]
    <3>1. k \in held[p] => k[1] < k[1] /\ k[1] \in Nat
      BY <2>1, KeysOfSessions DEF NextVersions, LocksInOrder
    <3> QED BY <3>1
  <2>4. \A l \in held[p] : mem'[p][l] = mem[p][l]
    BY <2>1, <2>3, KeysOfSessions
  <2>5. Knows(p, k)'
    BY <2>1 DEF Knows, EventsOfCaptures
  <2>6. \A l \in held[p] : Knows(p, l)'
    BY <2>1, <2>2, <2>4 DEF SyncKnows, Knows
  <2>7. \A l \in held[p] \ picked[p] : mem'[p][l].status \in Decided
    BY <2>2, <2>4 DEF SyncKnows
  <2> QED BY <2>1, <2>2, <2>5, <2>6, <2>7, SessionGoesOn DEF SyncKnows
<1>3. CASE WriteEvent(p)
  <2>1. PICK k \in cur[p] :
          /\ held'[p] = held[p] \cup {k} /\ k \in Keys
          /\ mem'[p][k].was = mem[p][k].was
          /\ mem'[p][k].status \in {mem[p][k].status, "pending"}
          /\ \A l \in Keys : l # k => mem'[p][l] = mem[p][l]
          /\ at[p] = "write" /\ at'[p] = "post"
          /\ UNCHANGED <<event, norm, scope, base, call, todo, work, picked, cur>>
    BY <1>3, WriteEffects
  <2>2. Syncing(p) /\ cur[p] \subseteq picked[p] /\ Knows(p, k)
    BY <2>1 DEF Syncing, LocksInOrder, SyncKnows
  <2>3. ASSUME NEW l \in cur[p] PROVE l = k
    <3>1. l[1] <= k[1] /\ k[1] <= l[1] /\ l[1] \in Nat /\ k[1] \in Nat
      BY <2>1, <2>2, KeysOfSessions DEF LocksInOrder
    <3>2. l[1] = k[1]
      BY <3>1
    <3> QED BY <2>2, <3>2 DEF LocksInOrder
  <2>4. Knows(p, k)'
    BY <2>1, <2>2 DEF Knows
  <2>5. \A l \in held'[p] : Knows(p, l)'
    <3>1. \A l \in held[p] : l # k => mem'[p][l] = mem[p][l] /\ Knows(p, l)
      BY <2>1, <2>2, KeysOfSessions DEF SyncKnows
    <3> QED BY <2>1, <2>4, <3>1 DEF Knows
  <2>6. \A l \in held'[p] \ picked'[p] : mem'[p][l].status \in Decided
    <3>1. \A l \in held'[p] \ picked'[p] : l \in held[p] \ picked[p] /\ l # k /\ l \in Keys
      BY <2>1, <2>2, KeysOfSessions
    <3> QED BY <2>1, <2>2, <3>1 DEF SyncKnows
  <2>7. picked'[p] \cup held'[p] = picked[p] \cup held[p]
    BY <2>1, <2>2
  <2> QED BY <2>1, <2>2, <2>3, <2>5, <2>6, <2>7, SessionGoesOn DEF SyncKnows
<1>4. CASE PostJob(p) \/ RefuseJob(p)
  <2>1. PICK status \in {"sent", "failed", "dead-letter"} :
          /\ status = "sent" => \A k \in cur[p] : k[1] \notin Unbuildable
          /\ \A k \in Keys : /\ mem'[p][k].was = mem[p][k].was
                             /\ mem'[p][k].status = IF k \in cur[p] THEN status ELSE mem[p][k].status
          /\ picked'[p] = picked[p] \ cur[p]
          /\ at[p] = "post" /\ at'[p] = "stage"
          /\ UNCHANGED <<event, norm, scope, base, call, todo, work, held>>
    BY <1>4, RecordEffects
  <2>2. Syncing(p) /\ cur[p] \subseteq held[p]
    BY <2>1 DEF Syncing, LocksInOrder, SyncKnows
  <2>3. ASSUME NEW k \in held'[p] PROVE Knows(p, k)'
    <3>1. k \in held[p] /\ k \in Keys /\ Knows(p, k)
      BY <2>1, <2>2, <2>3, KeysOfSessions DEF SyncKnows
    <3> QED BY <2>1, <3>1 DEF Knows
  <2>4. ASSUME NEW k \in held'[p] \ picked'[p] PROVE mem'[p][k].status \in Decided
    <3>1. k \in held[p] /\ k \in Keys /\ (k \in cur[p] \/ k \notin picked[p])
      BY <2>1, <2>4, KeysOfSessions
    <3>2. CASE k \in cur[p]
      BY <2>1, <3>1, <3>2 DEF Decided
    <3>3. CASE k \notin cur[p]
      BY <2>1, <2>2, <3>1, <3>3 DEF SyncKnows
    <3> QED BY <3>2, <3>3
  <2>5. picked'[p] \cup held'[p] = picked[p] \cup held[p]
    BY <2>1, <2>2
  <2> QED BY <2>1, <2>2, <2>3, <2>4, <2>5, SessionGoesOn DEF SyncKnows
<1>5. CASE Consider(p)
  BY <1>5, ConsiderCovers
<1> QED BY <1>1, <1>2, <1>3, <1>4, <1>5, SyncBegins

-----------------------------------------------------------------------------
(* One process: what its notify session knows *)

\* With one process, the candidates of a notify stage stay those of its run.
LEMMA NotifyKnowsStep ==
  ASSUME TypeOK, NEW p \in Procs, LocksInOrder(p), NotifyKnows(p), Step(p)
  PROVE  NotifyKnows(p)'
<1> USE DEF dbVars, procVars, outVars
<1>f. ProcFunctions
  BY TypesAreFunctions
<1>1. ASSUME at'[p] = "handed" PROVE NotifyKnows(p)'
  <2>1. HandOff(p)
    BY <1>1, HandedBegins
  <2>2. Notifying(p) /\ UNCHANGED <<event, handoff, todo, carried, picked>>
    BY <2>1 DEF HandOff, InStage, Notifying
  <2> QED BY <2>2 DEF NotifyKnows, Notifying, Stage
<1>2. ASSUME at'[p] = "stage", Notifying(p)' PROVE NotifyKnows(p)'
  <2>1. List(p) /\ Stage(p) = "notify"
    BY <1>2, NotifyBegins DEF Notifying, InStage
  <2>2. picked'[p] = HandoffCandidates(p) /\ UNCHANGED <<event, handoff, carried>>
    BY <2>1, <1>f DEF List, ProcFunctions
  <2> QED BY <2>2 DEF NotifyKnows, HandoffCandidates, HandoffSource
<1> QED BY <1>1, <1>2 DEF NotifyKnows, Notifying

-----------------------------------------------------------------------------
(* The theorems for one process *)

\* What one process knows holds initially.
LEMMA SoloInit == Init => SoloInv
<1> SUFFICES ASSUME Init PROVE SoloInv
  OBVIOUS
<1>1. EventsOfCaptures
  BY DEF Init, EventsOfCaptures, NoEvent
<1>2. AnnouncedOnce
  BY DEF Init, AnnouncedOnce
<1>3. \A p \in Procs : SyncKnows(p) /\ NotifyKnows(p)
  BY DEF Init, SyncKnows, NotifyKnows, Syncing, Notifying
<1> QED BY <1>1, <1>2, <1>3 DEF SoloInv

\* A version that is delivered keeps its event, and events stay those of the runs
\* that captured their versions.
LEMMA EventsStay ==
  ASSUME TypeOK, EventsOfCaptures, NEW p \in Procs, LocksInOrder(p), HeldRuns(p), SyncKnows(p), Step(p)
  PROVE  /\ \A k \in Keys : event[k].status = "sent" => event'[k] = event[k]
         /\ EventsOfCaptures'
<1>1. CASE event' = event
  BY <1>1 DEF EventsOfCaptures
<1>2. CASE event' # event
  <2>1. event' = Committed(p) /\ Syncing(p)
    BY <1>2, EventSteps
  <2> QED BY <2>1, CommitDecides DEF EventsOfCaptures
<1> QED BY <1>1, <1>2

\* Every step of one process keeps what it knows.
LEMMA SoloStep ==
  ASSUME OneProcess, IInv, SoloInv, [Next]_vars
  PROVE  SoloInv'
<1>1. ASSUME NEW p \in Procs, Step(p) PROVE SoloInv'
  <2>i. TypeOK /\ LocksInOrder(p) /\ HeldRuns(p) /\ EventsOfCaptures /\ SyncKnows(p) /\ NotifyKnows(p)
    BY DEF IInv, ProcInv, SoloInv
  <2>1. SyncKnows(p)' /\ NotifyKnows(p)'
    BY <1>1, <2>i, SyncKnowsStep, NotifyKnowsStep
  <2>2. \A q \in Procs : q = p
    BY DEF OneProcess
  <2>3. EventsOfCaptures' /\ \A k \in Keys : event[k].status = "sent" => event'[k] = event[k]
    BY <1>1, <2>i, EventsStay
  <2>4. ASSUME NEW n \in notified'
        PROVE  n[1][2] = n[2] /\ event'[n[1]] = [status |-> "sent", run |-> n[2]]
    <3>1. CASE n \in notified
      <4>1. n[1] \in Keys /\ n[1][2] = n[2] /\ event[n[1]] = [status |-> "sent", run |-> n[2]]
        BY <2>i, <3>1, TypeParts DEF SoloInv, AnnouncedOnce, OutTypes
      <4> QED BY <2>3, <4>1
    <3>2. CASE n \notin notified
      <4>1. HandOff(p) /\ n[1] \in picked[p] /\ n[2] = carried[p]
        BY <1>1, <2>i, <3>2, NotifiedSteps
      <4>2. n[1] \in Keys /\ event[n[1]] = [status |-> "sent", run |-> n[2]] /\ event' = event
        BY <2>i, <4>1, KeysOfSessions DEF NotifyKnows, HandOff, InStage, Notifying, dbVars
      <4>3. n[1][2] = n[2]
        BY <2>i, <4>2 DEF EventsOfCaptures
      <4> QED BY <4>2, <4>3
    <3> QED BY <3>1, <3>2
  <2>5. AnnouncedOnce'
    BY <2>4 DEF AnnouncedOnce
  <2> QED BY <2>1, <2>2, <2>3, <2>5 DEF SoloInv
<1>2. CASE UNCHANGED vars
  <2> USE <1>2 DEF vars, dbVars, procVars, outVars
  <2>1. EventsOfCaptures' /\ AnnouncedOnce'
    BY DEF SoloInv, EventsOfCaptures, AnnouncedOnce
  <2>2. ASSUME NEW p \in Procs PROVE SyncKnows(p)' /\ NotifyKnows(p)'
    <3>1. /\ Stage(p)' = Stage(p) /\ InScope(p)' = InScope(p) /\ Eligible(p)' = Eligible(p)
          /\ \A j : Version(j)' = Version(j) /\ (IsCandidate(j)' <=> IsCandidate(j))
          /\ DecidedBy(base[p])' = DecidedBy(base[p])
      BY SameTables
    <3>2. Covers(p) => Covers(p)'
      BY <3>1 DEF Covers
    <3>3. SyncKnows(p)'
      BY <3>1, <3>2 DEF SoloInv, SyncKnows, Syncing, Knows
    <3>4. NotifyKnows(p)'
      BY <3>1 DEF SoloInv, NotifyKnows, Notifying
    <3> QED BY <3>3, <3>4
  <2> QED BY <2>1, <2>2 DEF SoloInv
<1> QED BY <1>1, <1>2, NextIsStep

\* What one process knows is an invariant.
LEMMA SoloInvariant ==
  ASSUME OneProcess
  PROVE  Spec => [](IInv /\ SoloInv)
<1>1. IInv /\ SoloInv /\ [Next]_vars => (IInv /\ SoloInv)'
  BY IInvStep, SoloStep
<1>2. Init => IInv /\ SoloInv
  BY IInvInit, SoloInit
<1> QED BY <1>1, <1>2, PTL DEF Spec

\* One process after the other, whatever they run, however often jobs are captured
\* again and wherever the processes die: what is announced under a run is a version
\* that this run captured, and its delivery under this run stands.
THEOREM SoloAnnouncesOnce == OneProcess => (Spec => []AnnouncedOnce)
<1> SUFFICES ASSUME OneProcess PROVE Spec => []AnnouncedOnce
  OBVIOUS
<1>1. SoloInv => AnnouncedOnce
  BY DEF SoloInv
<1> QED BY <1>1, SoloInvariant, PTL

\* There are finitely many versions.
LEMMA FinitelyManyKeys == IsFiniteSet(Keys)
<1>1. IsFiniteSet(Bases \cup {None})
  BY SetsAssumption, FS_AddElement
<1> QED BY <1>1, JobsAssumption, FS_Product DEF Keys

\* One process after the other: when a sync commits, each eligible job that the run
\* has captured has an outcome of this run, or comes after as many as the command
\* takes.
THEOREM SoloCoversScope == OneProcess => (Spec => SyncCoversScope)
<1> SUFFICES ASSUME OneProcess PROVE Spec => SyncCoversScope
  OBVIOUS
<1> DEFINE CoversScope == \A p \in Procs :
                            CommitSync(p) =>
                              \A j \in Eligible(p) :
                                \/ Version(j) \in DecidedBy(base[p])'
                                \/ Cardinality({k \in DecidedBy(base[p])' : k[1] < j}) >= call[p].limit
<1>1. IInv /\ SoloInv => CoversScope
  <2> SUFFICES ASSUME IInv, SoloInv, NEW p \in Procs, CommitSync(p), NEW j \in Eligible(p)
               PROVE  \/ Version(j) \in DecidedBy(base[p])'
                      \/ Cardinality({k \in DecidedBy(base[p])' : k[1] < j}) >= call[p].limit
    OBVIOUS
  <2> DEFINE Done == {k \in DecidedBy(base[p])' : k[1] < j}
             Mine == {k \in picked[p] \cup held[p] : k[1] < j}
  <2>1. /\ Syncing(p) /\ work[p] = {} /\ picked[p] = {} /\ event' = Committed(p) /\ base' = base
        /\ at[p] # "idle"
    BY DEF CommitSync, InStage, Syncing
  <2>2. TypeOK /\ SyncKnows(p) /\ HeldRuns(p) /\ EventsOfCaptures
    BY DEF IInv, ProcInv, SoloInv
  <2>3. held[p] \subseteq Keys /\ j \in Jobs
    BY <2>2, KeysOfSessions DEF Eligible, InScope
  <2>4. held[p] \subseteq DecidedBy(base[p])'
    BY <2>1, <2>2, <2>3, CommitDecides DEF DecidedBy
  <2>5. ASSUME NEW k \in DecidedBy(base[p]) PROVE k \in DecidedBy(base[p])'
    <3>1. CASE k \in held[p]
      BY <2>4, <3>1
    <3>2. CASE k \notin held[p]
      <4>1. k \in Keys /\ event'[k] = event[k]
        BY <2>1, <3>2 DEF DecidedBy, Committed
      <4> QED BY <2>1, <2>5, <4>1 DEF DecidedBy
    <3> QED BY <3>1, <3>2
  <2>6. \/ Version(j) \in held[p]
        \/ Version(j) \in DecidedBy(base[p])
        \/ Cardinality(Mine) >= call[p].limit
    BY <2>1, <2>2 DEF SyncKnows, Covers
  <2>7. CASE Version(j) \in held[p] \/ Version(j) \in DecidedBy(base[p])
    BY <2>4, <2>5, <2>7
  <2>8. CASE Cardinality(Mine) >= call[p].limit
    <3>1. Mine \subseteq Done
      BY <2>1, <2>4
    <3>2. IsFiniteSet(Done)
      <4>1. Done \subseteq Keys
        BY DEF DecidedBy
      <4> QED BY <4>1, FinitelyManyKeys, FS_Subset
    <3>3. /\ Cardinality(Mine) \in Nat /\ Cardinality(Done) \in Nat
          /\ Cardinality(Mine) <= Cardinality(Done)
      BY <3>1, <3>2, FS_Subset, FS_CardinalityType
    <3>4. call[p].limit \in Nat
      BY <2>2, TypeParts, CallParts DEF ProcTypes, NoCall
    <3> DEFINE m == Cardinality(Mine)
               d == Cardinality(Done)
    <3> HIDE DEF m, d
    <3>5. d >= call[p].limit
      <4>1. m \in Nat /\ d \in Nat /\ m <= d /\ m >= call[p].limit
        BY <2>8, <3>3 DEF m, d
      <4> QED BY <3>4, <4>1
    <3> QED BY <3>5 DEF d
  <2> QED BY <2>6, <2>7, <2>8
<1> HIDE DEF CoversScope
<1>2. Spec => [][CoversScope]_vars
  BY <1>1, SoloInvariant, PTL DEF Spec
<1> QED BY <1>2 DEF SyncCoversScope, CoversScope

=============================================================================

---------------------------- MODULE JobLifecycle ----------------------------
(***************************************************************************)
(* What the modules promise that no stage calls yet: the identities of the *)
(* deduplication engine, and the freshness sweep over the normalized jobs  *)
(* of one source. Their caller is external: any sequence of calls.         *)
(***************************************************************************)
EXTENDS Integers, FiniteSets, Sequences

CONSTANTS
  Listed,        \* external ids of the source
  StaleAfter,    \* FreshnessPolicy, in hours
  ExpiredAfter,
  MaxHour,       \* bound of the clock
  Candidates,    \* candidates of one scrape: [external, slug, title, company, url]
  MaxCandidates  \* bound of their number

\* FreshnessPolicy.__post_init__
ASSUME PolicyAssumption ==
  StaleAfter \in Nat \ {0} /\ ExpiredAfter \in Nat /\ ExpiredAfter > StaleAfter

VARIABLES
  hour,      \* the clock
  jobs,      \* external id |-> [status, seen] of its normalized job
  history,   \* external id |-> when a run last observed it, and when a
             \* successful run last missed it
  engine,    \* _seen of the engine: key |-> candidate
  decided    \* the decisions so far, with their candidates

lifecycleVars == <<hour, jobs, history, engine, decided>>

LInit ==
  /\ hour = 0
  /\ jobs = << >>
  /\ history = << >>
  /\ engine = << >>
  /\ decided = << >>

Put(f, k, v) == [x \in DOMAIN f \cup {k} |-> IF x = k THEN v ELSE f[x]]

-----------------------------------------------------------------------------
(* Freshness *)

NextHour == hour < MaxHour /\ hour' = hour + 1 /\ UNCHANGED <<jobs, history, engine, decided>>

\* JobPersistenceRepository.write_job, with the status that the mapper found.
WriteJob(id, status) ==
  /\ jobs' = Put(jobs, id, [status |-> status, seen |-> hour])
  /\ history' = Put(history, id, [observed |-> hour, missed |-> hour])
  /\ UNCHANGED <<hour, engine, decided>>

\* Mutant of Aged: the outcome of the source run is not asked.
AgedAnyway(job, ok) ==
  IF hour - job.seen >= ExpiredAfter THEN "expired"
  ELSE IF hour - job.seen >= StaleAfter THEN "stale" ELSE job.status

\* The status of a job that the run has not seen.
Aged(job, ok) ==
  IF ~ok THEN job.status
  ELSE IF hour - job.seen >= ExpiredAfter THEN "expired"
  ELSE IF hour - job.seen >= StaleAfter THEN "stale"
  ELSE job.status

Swept(before, seen, ok) ==
  [id \in DOMAIN before |-> IF id \in seen THEN [status |-> "active", seen |-> hour]
                            ELSE [before[id] EXCEPT !.status = Aged(before[id], ok)]]

\* FreshnessSweepSummary counts a job that keeps its status as unchanged.
Unchanged(before, seen, ok) ==
  Cardinality({id \in DOMAIN before : Swept(before, seen, ok)[id].status = before[id].status})

\* FreshnessService.sweep_source
Sweep(seen, ok) ==
  /\ jobs' = Swept(jobs, seen, ok)
  /\ history' = [id \in DOMAIN history |->
       IF id \in seen THEN [observed |-> hour, missed |-> hour]
       ELSE IF ok THEN [history[id] EXCEPT !.missed = hour] ELSE history[id]]
  /\ UNCHANGED <<hour, engine, decided>>

-----------------------------------------------------------------------------
(* Deduplication *)

\* resolve_source_identity: the external id, else the fingerprint of the other
\* fields, if there are any.
KeyOf(c) ==
  IF c.external # "none" THEN <<c.external>>
  ELSE IF {c.slug, c.title, c.company, c.url} = {"none"} THEN << >>
  ELSE <<c.slug, c.title, c.company, c.url>>

\* _duplicate_reason
DuplicateReason(old, c) ==
  LET slugs == old.slug # "none" /\ c.slug # "none" /\ old.slug # c.slug
      texts == old.title # c.title /\ old.company # c.company
  IN IF slugs THEN IF texts THEN "identity_collision" ELSE "slug_drift" ELSE "duplicate_identity"

Decision(c) ==
  LET key == KeyOf(c) IN
  IF key = << >> THEN [action |-> "quarantine", reason |-> "missing_identity"]
  ELSE IF key \notin DOMAIN engine
  THEN [action |-> "insert",
        reason |-> IF c.external = "none" THEN "fallback_fingerprint" ELSE "new_identity"]
  ELSE [action |-> "update", reason |-> DuplicateReason(engine[key], c)]

Remember(c) == IF KeyOf(c) = << >> THEN engine ELSE Put(engine, KeyOf(c), c)

\* DedupEngine.evaluate
Evaluate(c) ==
  /\ Len(decided) < MaxCandidates
  /\ engine' = Remember(c)
  /\ decided' = Append(decided, [candidate |-> c, decision |-> Decision(c)])
  /\ UNCHANGED <<hour, jobs, history>>

SweepNext ==
  \/ NextHour
  \/ \E id \in Listed, status \in {"active", "inactive"} : WriteJob(id, status)
  \/ \E seen \in SUBSET Listed, ok \in BOOLEAN : Sweep(seen, ok)

DedupNext == \E c \in Candidates : Evaluate(c)

LNext == SweepNext \/ DedupNext

-----------------------------------------------------------------------------
(* Properties *)

\* sweep_source: a job is stale, or expired, exactly when a successful run has
\* missed it that long after it was last observed; outages never age a job,
\* however long. A second sweep at once changes nothing and counts nothing.
AgedIsMissed ==
  /\ \A id \in DOMAIN jobs :
       LET gap == history[id].missed - history[id].observed IN
       /\ jobs[id].status = "expired" <=> gap >= ExpiredAfter
       /\ jobs[id].status = "stale" <=> gap \in StaleAfter..ExpiredAfter - 1
  /\ \A seen \in SUBSET Listed, ok \in BOOLEAN :
       LET once == Swept(jobs, seen, ok) IN
       /\ Swept(once, seen, ok) = once
       /\ Unchanged(once, seen, ok) = Cardinality(DOMAIN jobs)

Same(i, j) ==
  KeyOf(decided[i].candidate) = KeyOf(decided[j].candidate) /\ KeyOf(decided[i].candidate) # << >>

\* evaluate: a key is inserted when it is first met, and only then; a later
\* candidate updates the one before it with that key, and is called a collision
\* exactly when it differs from that one in slug, title and company.
DecisionsAreLocal ==
  \A j \in DOMAIN decided :
    LET c == decided[j].candidate
        d == decided[j].decision
        earlier == {i \in 1..j - 1 : Same(i, j)}
        before == decided[CHOOSE i \in earlier : \A k \in earlier : k <= i].candidate
    IN /\ d.action = "insert" <=> KeyOf(c) # << >> /\ earlier = {}
       /\ d.action = "update" <=> earlier # {}
       /\ d.reason = "identity_collision" <=>
            /\ earlier # {}
            /\ before.title # c.title /\ before.company # c.company
            /\ "none" \notin {before.slug, c.slug} /\ before.slug # c.slug

\* No job ages that was not missed, and no identity is inserted twice
\* (FreshnessService.sweep_source, DedupEngine.evaluate).
LifecycleInv == AgedIsMissed /\ DecisionsAreLocal

LSpec == LInit /\ [][LNext]_lifecycleVars
=============================================================================

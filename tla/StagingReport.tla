--------------------------- MODULE StagingReport ----------------------------
(***************************************************************************)
(* `staging-report', the evidence of a release: what the databases say of  *)
(* a run, the jobs that are read back from the backend source by source,   *)
(* and the gates that both must pass.                                      *)
(*                                                                         *)
(* The strict checks of the stage rows are module RunReport's; here they   *)
(* pass or fail.  Durations are counted by their values: times[t] values   *)
(* are t.  The code reads the sources back by name, the model in any       *)
(* order: no source depends on another.                                    *)
(***************************************************************************)
EXTENDS Integers, Sequences, FiniteSets

CONSTANTS
  Findings,   \* what the scraper database says of a run
  Gates,      \* options of the command
  Anomalies   \* what may be wrong with the rows of the backend database

VARIABLES
  found,    \* what the scraper database says
  gates,    \* the options
  wrong,    \* anomalies of the backend database
  unread,   \* sources whose jobs are still to be read back
  checks,   \* checks of the sources that have been read
  phase,    \* where the command is
  passed    \* report["status"] = "ok"

\* times[t] values of the finite domain are t.
IsTally(times) == times \in [DOMAIN times -> Nat] /\ IsFiniteSet(DOMAIN times)

\* Durations are whole numbers of milliseconds; so are their thresholds.
ASSUME FindingsAssumption ==
  \A f \in Findings :
    /\ f.consistent \in BOOLEAN /\ f.strict \in BOOLEAN /\ f.retries \in Nat
    /\ IsTally(f.glints) /\ IsTally(f.ai) /\ DOMAIN f.ai \subseteq Int
    /\ IsTally(f.sync) /\ DOMAIN f.sync \subseteq Int
    /\ f.stages \in Seq(SUBSET Int) /\ \A i \in DOMAIN f.stages : IsFiniteSet(f.stages[i])

\* The rates that the share of partial jobs has to be between are given in
\* ten-thousandths, as that share is.
ASSUME GatesAssumption ==
  \A g \in Gates :
    /\ g.database \in BOOLEAN /\ g.backend \in BOOLEAN
    /\ g.least \in Nat /\ g.most \in Nat
    /\ g.stageLimit \subseteq Int /\ g.aiLimit \subseteq Int
    /\ g.syncLimit \subseteq Int /\ g.retryLimit \subseteq Int

stagingVars == <<found, gates, wrong, unread, checks, phase, passed>>

NotFound == [sent |-> {}]
NoGates == [backend |-> FALSE]

-----------------------------------------------------------------------------
(* The figures of build_staging_report *)

\* As many pairs as values of S.
Instances(times, S) == UNION {{t} \X (1..times[t]) : t \in S}
HowMany(times, S) == Cardinality(Instances(times, S))
Number(times) == HowMany(times, DOMAIN times)

\* Mutant of Rank: rounded down.
RankDown(n) == IF 19 * n < 20 THEN 1 ELSE (19 * n) \div 20

\* The nearest rank of the 95th percentile of n values: 0.95 * n rounded up.
Rank(n) == IF n = 0 THEN 1 ELSE (19 * n + 19) \div 20

\* percentile_nearest_rank, in a set; nothing without values.
Percentile95(times) ==
  LET reaching == {t \in DOMAIN times : HowMany(times, {u \in DOMAIN times : u <= t}) >= Rank(Number(times))}
  IN IF Number(times) = 0 THEN {} ELSE {t \in reaching : \A u \in reaching : t <= u}

\* A stage that has not ended has no duration; neither has a missing one.
StageTimes(stages) ==
  [t \in UNION {stages[i] : i \in DOMAIN stages} |-> Cardinality({i \in DOMAIN stages : t \in stages[i]})]

\* detail_completeness_state: the explicit label before the coverage.
Completeness(label) ==
  IF label.explicit \in {"partial", "complete", "unknown"} THEN label.explicit
  ELSE IF label.coverage \in {"unavailable", "list-only"} THEN "partial"
  ELSE IF label.coverage \in {"embedded", "available", "full"} THEN "complete"
  ELSE "unknown"

Partial(labels) == HowMany(labels, {l \in DOMAIN labels : Completeness(l) = "partial"})

\* partialRate, in ten-thousandths and rounded to them.
PartialRate(labels) ==
  LET total == Number(labels) IN (20000 * Partial(labels) + total) \div (2 * total)

-----------------------------------------------------------------------------
(* evaluate_staging_gates *)

\* A threshold is only a gate if it is given and something was measured.
Below(measured, threshold) == \A x \in measured, limit \in threshold : x <= limit

GlintsGate(labels) ==
  Number(labels) = 0 \/ (PartialRate(labels) >= gates.least /\ PartialRate(labels) <= gates.most)

\* The status of the backend database is "ok", or "skipped".
BackendConsistent == gates.database => wrong = {}

GatesPass ==
  /\ found.consistent
  /\ BackendConsistent
  /\ gates.backend => unread = {} /\ \A p \in DOMAIN checks : checks[p].list /\ checks[p].detail
  /\ GlintsGate(found.glints)
  /\ Below(Percentile95(StageTimes(found.stages)), gates.stageLimit)
  /\ Below(Percentile95(found.ai), gates.aiLimit)
  /\ Below(Percentile95(found.sync), gates.syncLimit)
  /\ Below({found.retries}, gates.retryLimit)

-----------------------------------------------------------------------------

GInit ==
  /\ found = NotFound /\ gates = NoGates /\ wrong = {}
  /\ unread = {} /\ checks = <<>> /\ phase = "idle" /\ passed = FALSE

\* The scraper database is read, and the backend database if it is configured.
BuildReport ==
  /\ phase = "idle"
  /\ found' \in Findings /\ gates' \in Gates
  /\ wrong' \in IF gates'.database THEN SUBSET Anomalies ELSE {{}}
  /\ unread' = IF gates'.backend THEN found'.sent ELSE {}
  /\ phase' = "read"
  /\ UNCHANGED <<checks, passed>>

\* The jobs of a source are listed, and the first of them is read by itself.
ReadSource(listed, jobs, detailed) ==
  /\ phase = "read"
  /\ \E p \in unread :
       /\ unread' = unread \ {p}
       /\ checks' = [q \in DOMAIN checks \cup {p} |->
                      IF q = p THEN [list |-> listed, detail |-> jobs /\ detailed] ELSE checks[q]]
  /\ UNCHANGED <<found, gates, wrong, phase, passed>>

\* The connection is lost: what is unread stays unread.
LoseBackend ==
  /\ phase = "read" /\ unread # {}
  /\ phase' = "lost"
  /\ UNCHANGED <<found, gates, wrong, unread, checks, passed>>

Evaluate ==
  /\ \/ phase = "read" /\ unread = {}
     \/ phase = "lost"
  /\ passed' = (GatesPass /\ found.strict)
  /\ phase' = "done"
  /\ UNCHANGED <<found, gates, wrong, unread, checks>>

GNext ==
  \/ BuildReport \/ LoseBackend \/ Evaluate
  \/ \E listed, jobs, detailed \in BOOLEAN : ReadSource(listed, jobs, detailed)

GSpec == GInit /\ [][GNext]_stagingVars

-----------------------------------------------------------------------------
(* Properties *)

\* At most one value in twenty is above the limit.
WithinLimit(times, limit) ==
  \A n \in limit : 20 * HowMany(times, {t \in DOMAIN times : t > n}) <= Number(times)

\* The share of partial jobs is between the rates, give or take so many halves
\* of a ten-thousandth.
PartialWithin(labels, halves) ==
  /\ 20000 * Partial(labels) >= (2 * gates.least - halves) * Number(labels)
  /\ 20000 * Partial(labels) <= (2 * gates.most + halves) * Number(labels)

\* docs/references/staging-e2e-validation.md, "Pass Criteria": what a report
\* that is ok has to give evidence of.  What was not measured, or is not
\* configured, meets it.
Evidence(halves) ==
  /\ found.consistent /\ found.strict
  /\ gates.database => wrong = {}
  /\ gates.backend => \A p \in found.sent : p \in DOMAIN checks /\ checks[p].list /\ checks[p].detail
  /\ PartialWithin(found.glints, halves)
  /\ WithinLimit(StageTimes(found.stages), gates.stageLimit)
  /\ WithinLimit(found.ai, gates.aiLimit) /\ WithinLimit(found.sync, gates.syncLimit)
  /\ \A n \in gates.retryLimit : found.retries <= n

\* With the rates that the command takes by default, rounding decides nothing
\* about fewer than a thousand jobs.
Rounding == IF gates.least = 9500 /\ gates.most = 10000 /\ Number(found.glints) < 1000 THEN 0 ELSE 1

\* The report is ok if all the evidence is there, and is not ok without it: the
\* counts behind the percentiles and the rate decide, not how they are rounded.
StagingInv == phase = "done" => (Evidence(0) => passed) /\ (passed => Evidence(Rounding))

\* A stage that was killed has no duration, and no threshold holds it back.
CutStageFails == phase = "done" /\ passed => \A i \in DOMAIN found.stages : found.stages[i] # {}
=============================================================================

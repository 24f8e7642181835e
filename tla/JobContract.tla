---------------------------- MODULE JobContract ----------------------------
(***************************************************************************)
(* A job from the raw payload of its source to the payload of the backend: *)
(* the mappers of the five sources or an answer of the AI client with its  *)
(* defaults and guards, the canonical schema, the staging rows, and the    *)
(* payload with its own schema.                                            *)
(*                                                                         *)
(* A text is one of a few kinds, which is all that the rules ask of it;    *)
(* an optional value is a set with at most one element.                    *)
(***************************************************************************)
EXTENDS Integers, FiniteSets, Sequences

CONSTANTS
  RawJobs,       \* raw payloads of the sources
  Answers,       \* canonical jobs in the AI client's answers
  SkillNames,    \* values of skills
  Vague,         \* those among them that the sync leaves out
  Unwieldy,      \* those longer than the backend lets a skill be
  MaxRelations   \* limit of skills, and of requirements, of one payload

ASSUME ContractAssumption ==
  /\ IsFiniteSet(SkillNames) /\ Vague \subseteq SkillNames /\ Unwieldy \subseteq SkillNames \ Vague
  /\ "derived" \notin Unwieldy
  /\ MaxRelations \in Nat \ {0}

VARIABLES
  raw,      \* raw_jobs.raw_payload
  job,      \* normalized_jobs.normalized_payload
  rows,     \* staging tables: skills, how many requirements, and is one of them too long
  payload,  \* the backend payload
  at        \* how far the job has come

contractVars == <<raw, job, rows, payload, at>>

\* "short" texts are rewritten. "list" and "long" have more items than a payload
\* may have requirements. "wide" is one item, without a sentence's end in it,
\* that is longer than a requirement may be. "long", "bulky" and "endless" are
\* longer than a text of the payload may be: in many items, so that the first
\* six fit; in six that do not; in a single one. Lengths that fit only until a
\* rewritten text takes them in are left out.
Texts == {"none", "placeholder", "short", "good", "list", "long", "wide", "bulky", "endless"}
Overlong == {"long", "bulky", "endless"}
Unbroken == {"wide", "endless"}
Platforms == {"dealls", "glints", "kalibrr", "kitalulus", "jobstreet"}
NoLabel == [said |-> FALSE, amounts |-> <<>>, currency |-> {}, period |-> {}]
NoSalary == [low |-> {}, high |-> {}, currency |-> {}, period |-> {}, label |-> NoLabel]
None == [salary |-> NoSalary, company |-> "none", title |-> "none", text |-> "none",
         reqs |-> "none", skills |-> {}, status |-> "none", work |-> "none", names |-> "none"]
NoPayload == [low |-> {}, high |-> {}, currency |-> "none", period |-> "none", display |-> "none",
              text |-> "none", skills |-> {}, reqs |-> 0, status |-> "none", work |-> "none"]

KInit ==
  /\ raw \in RawJobs
  /\ job = None
  /\ rows = [skills |-> {}, reqs |-> 0, wide |-> FALSE]
  /\ payload = NoPayload
  /\ at = "raw"

-----------------------------------------------------------------------------
(* Salaries *)

First(a, b) == IF a # {} THEN a ELSE b
Lowest(S) == CHOOSE m \in S : \A n \in S : m <= n
Highest(S) == CHOOSE m \in S : \A n \in S : m >= n

\* _parse_salary_label: at most the first two numbers of the label.
Amount(label, i) == IF i <= Len(label.amounts) THEN {label.amounts[i]} ELSE {}

\* Mutant of Salary: a reversed range stays reversed.
SalaryUnordered(low, high, currency, period, label, default) ==
  [low |-> First(low, Amount(label, 1)), high |-> First(high, Amount(label, 2)),
   currency |-> First(currency, First(label.currency, default)),
   period |-> First(period, label.period), label |-> label]

\* normalize_salary
Salary(low, high, currency, period, label, default) ==
  LET lo == First(low, Amount(label, 1))
      hi == First(high, Amount(label, 2))
      range == lo # {} /\ hi # {}
  IN [low |-> IF range THEN {Lowest(lo \cup hi)} ELSE lo,
      high |-> IF range THEN {Highest(lo \cup hi)} ELSE hi,
      currency |-> First(currency, First(label.currency, default)),
      period |-> First(period, label.period), label |-> label]

\* SalarySchema
SalaryFits(s) ==
  /\ \A n \in s.low \cup s.high : n >= 0
  /\ \A m \in s.low, n \in s.high : m <= n

-----------------------------------------------------------------------------
(* Mappers of the sources *)

\* map_status
Status(s) ==
  CASE s = "closed" -> "inactive" [] s \in {"odd", "none"} -> "unknown" [] OTHER -> s

\* A company without a name becomes "Unknown company", which is one.
Company(r) == IF r.company = "none" THEN "named" ELSE r.company

Fields(r, salary, text, reqs, skills, status) ==
  [salary |-> salary, company |-> Company(r), title |-> r.title, text |-> text, reqs |-> reqs,
   skills |-> skills, status |-> status, work |-> r.work, names |-> r.names]

MapDealls(r) ==
  LET range == r.low \cup r.high # {} IN
  Fields(r, Salary(r.low, r.high, IF range THEN {"IDR"} ELSE {},
                   IF range THEN {"monthly"} ELSE {}, NoLabel, {}),
         IF r.detail THEN r.text ELSE "none", IF r.detail THEN r.reqs ELSE "none",
         r.skills, Status(r.status))

MapGlints(r) ==
  Fields(r, Salary(r.low, r.high, r.currency, r.period, NoLabel, {}), "none", r.reqs, r.skills,
         IF Status(r.status) \in {"stale", "inactive", "expired"} THEN Status(r.status) ELSE "active")

MapKalibrr(r) ==
  Fields(r, Salary(r.low, r.high, r.currency, r.period, NoLabel, {}), r.text, r.reqs, r.skills,
         "active")

MapKitalulus(r) ==
  LET lo == r.low \ {0}
      hi == r.high \ {0}
  IN [Fields(r, IF lo \cup hi = {} THEN NoSalary
                ELSE Salary(lo, hi, {"IDR"}, {"monthly"}, NoLabel, {}),
             r.text, r.text, r.skills, IF r.status = "closed" THEN "inactive" ELSE "active")
        EXCEPT !.work = IF @ = "unknown" THEN "onsite" ELSE @]

MapJobStreet(r) ==
  Fields(r, Salary({}, {}, {}, {}, r.label, {}), IF r.detail THEN r.text ELSE "short",
         IF r.reqs # "none" THEN r.reqs ELSE IF r.detail THEN r.text ELSE "none", {},
         IF r.detail THEN Status(r.status) ELSE "active")

Mapped(r) ==
  CASE r.platform = "dealls" -> MapDealls(r)
    [] r.platform = "glints" -> MapGlints(r)
    [] r.platform = "kalibrr" -> MapKalibrr(r)
    [] r.platform = "kitalulus" -> MapKitalulus(r)
    [] r.platform = "jobstreet" -> MapJobStreet(r)

\* CanonicalJobSchema
Canonical(j) == j.company # "none" /\ j.title # "none" /\ SalaryFits(j.salary)

\* Payloads and answers are of these kinds.  The numbers of a label are read
\* from its digits; the answers are parsed by the schema.
Given(values, S) == values \subseteq S /\ \A x, y \in values : x = y
IsLabel(label) ==
  label \in [said : BOOLEAN, amounts : Seq(Nat), currency : SUBSET STRING, period : SUBSET STRING]
IsSalary(s) ==
  /\ s = [low |-> s.low, high |-> s.high, currency |-> s.currency, period |-> s.period, label |-> s.label]
  /\ Given(s.low, Int) /\ Given(s.high, Int) /\ IsLabel(s.label)
Companies == {"none", "placeholder", "named", "long"}
Titles == {"none", "named", "long"}
\* The other names: industry, category, province, city and the like, which are
\* optional, and of which one may be too long.
Names == {"none", "named", "long"}

ASSUME PayloadAssumption ==
  /\ \A r \in RawJobs :
       /\ r.platform \in Platforms /\ r.detail \in BOOLEAN
       /\ Given(r.low, Int) /\ Given(r.high, Int) /\ IsLabel(r.label)
       /\ r.company \in Companies /\ r.title \in Titles
       /\ r.text \in Texts /\ r.reqs \in Texts /\ r.skills \subseteq SkillNames /\ r.names \in Names
  /\ \A a \in Answers :
       /\ a = [salary |-> a.salary, company |-> a.company, title |-> a.title, text |-> a.text,
               reqs |-> a.reqs, skills |-> a.skills, status |-> a.status, work |-> a.work,
               names |-> a.names]
       /\ IsSalary(a.salary) /\ a.company \in Companies /\ a.title \in Titles
       /\ a.text \in Texts /\ a.reqs \in Texts /\ a.skills \subseteq SkillNames /\ a.names \in Names
       /\ Canonical(a)

-----------------------------------------------------------------------------
(* Answers of the AI client *)

\* _best_description_text and _build_description_from_evidence; without any
\* evidence a sentence about the title.
EvidenceText(r) == IF r.text = "none" THEN "good" ELSE r.text

\* _apply_quality_guards
Guarded(j, r) ==
  [j EXCEPT !.text = IF @ = "none" THEN EvidenceText(r) ELSE @,
            !.reqs = IF @ = "none" THEN r.reqs ELSE @,
            !.skills = IF @ = {} THEN r.skills ELSE @]

\* _apply_defaults; a salary that is there is normalized once more, with the
\* label that it displays.
Defaulted(j, r) ==
  LET s == j.salary
      clean == [j EXCEPT
        !.salary = IF s = NoSalary THEN s
                   ELSE Salary(s.low, s.high, s.currency, s.period, s.label, {"IDR"}),
        !.reqs = IF @ = "placeholder" THEN "none" ELSE @,
        !.work = IF @ = "unknown" THEN "onsite" ELSE @,
        !.text = IF @ = "none" /\ r.platform = "glints" /\ ~r.detail THEN "good" ELSE @]
  IN Guarded(clean, r)

-----------------------------------------------------------------------------
(* The backend payload *)

Least(m, n) == IF m < n THEN m ELSE n

\* Items that can be read from a text, noisy and vague ones left out.
ItemsOf(text) ==
  CASE text \in {"good", "wide", "endless"} -> 1
    [] text \in {"list", "long", "bulky"} -> MaxRelations + 1
    [] OTHER -> 0

\* build_skill_payloads: staged values, else normalized ones that are not too
\* long, else one that the texts or the role suggest; their number is not cut.
SkillRows ==
  IF rows.skills \ Vague # {} THEN rows.skills \ Vague
  ELSE IF job.skills \ (Vague \cup Unwieldy) # {} THEN job.skills \ (Vague \cup Unwieldy)
  ELSE {"derived"}

\* build_requirement_payloads: staged rows, else items of the requirements, else
\* the first eight of the description, else a generic one.
RequirementRows ==
  IF rows.reqs > 0 THEN Least(rows.reqs, MaxRelations)
  ELSE IF ItemsOf(job.reqs) > 0 THEN Least(ItemsOf(job.reqs), MaxRelations)
  ELSE IF ItemsOf(job.text) > 0 THEN Least(Least(ItemsOf(job.text), 8), MaxRelations)
  ELSE 1

\* Where the requirements come from, no item is longer than one may be.
RequirementsFit ==
  IF rows.reqs > 0 THEN ~rows.wide
  ELSE IF ItemsOf(job.reqs) > 0 THEN job.reqs \notin Unbroken
  ELSE job.text \notin Unbroken

\* improve_requirement_summary: six items of the requirements, staged or not,
\* else the skills, else the first item of the description.
SummaryFits ==
  IF ItemsOf(job.reqs) > 0 THEN job.reqs \notin {"bulky", "endless"}
  ELSE job.skills \ (Vague \cup Unwieldy) # {} \/ job.text # "endless"

\* improve_description: a text that says too little is rewritten.
Description == IF job.text \in {"none", "placeholder", "short"} THEN "rewritten" ELSE job.text

\* map_salary_period: other periods than these two become monthly.
Period(s) ==
  LET known == {"monthly", "yearly"}
      stated == First(s.period \cap known, s.label.period \cap known)
  IN IF stated = {} THEN "monthly" ELSE CHOOSE p \in stated : TRUE

\* map_job_status
BackendStatus(s) ==
  CASE s = "inactive" -> "CLOSED" [] s = "expired" -> "EXPIRED" [] s = "stale" -> "STALE"
    [] OTHER -> "ACTIVE"

\* The zeros that build_backend_job_payload leaves out of a salary.
SalaryRange(s) ==
  IF s.low = {} \/ s.high = {} THEN <<s.low, s.high>> ELSE <<s.low \ {0}, s.high \ {0}>>

\* What is displayed of the salary: its amounts, or a label that is not a zero.
Display(range, label) ==
  IF range[1] \cup range[2] # {} THEN "amounts"
  ELSE IF label.said /\ Amount(label, 1) # {0} THEN "label"
  ELSE "Not specified"

\* build_backend_job_payload
Built ==
  LET s == job.salary
      range == SalaryRange(s)
  IN [low |-> range[1], high |-> range[2],
      currency |-> IF s.currency = {"USD"} THEN "USD" ELSE "IDR",
      period |-> Period(s), display |-> Display(range, s.label),
      text |-> Description, skills |-> SkillRows, reqs |-> RequirementRows,
      status |-> BackendStatus(job.status),
      work |-> IF job.work = "unknown" THEN "onsite" ELSE job.work]

\* The validation of BackendJobPayload and its parts; the name of a company
\* that is a placeholder is dropped, and then required. A requirement of an
\* unknown type, or a row of another job, would be refused as well: the staging
\* repository writes the types of the backend, and rows are read by their job.
Sendable(p) ==
  /\ job.company = "named" /\ job.title = "named" /\ job.names # "long"
  /\ p.text \notin Overlong /\ SummaryFits /\ RequirementsFit
  /\ p.skills \cap Unwieldy = {}
  /\ \A n \in p.low \cup p.high : n >= 0
  /\ \A m \in p.low, n \in p.high : m <= n
  /\ Cardinality(p.skills) <= MaxRelations /\ p.reqs <= MaxRelations

-----------------------------------------------------------------------------
(* Steps *)

\* The normalize stage with a mapper only.
MapJob ==
  /\ at = "raw"
  /\ IF Canonical(Mapped(raw)) THEN job' = Mapped(raw) /\ at' = "normalized"
     ELSE at' = "rejected" /\ UNCHANGED job
  /\ UNCHANGED <<raw, rows, payload>>

\* The normalize stage with AI, which asks only about jobs that can be mapped.
AnswerJob(answer) ==
  /\ at = "raw"
  /\ Canonical(Mapped(raw))
  /\ IF Canonical(answer) /\ Canonical(Defaulted(answer, raw))
     THEN job' = Defaulted(answer, raw) /\ at' = "normalized"
     ELSE at' = "rejected" /\ UNCHANGED job
  /\ UNCHANGED <<raw, rows, payload>>

\* The enrich stage, if it stages anything: the job's own skills or others, and
\* the items of a text whose lines may still end them.
StageRows(skills, reqs, wide) ==
  /\ at = "normalized"
  /\ wide => reqs > 0
  /\ rows' = [skills |-> skills, reqs |-> reqs, wide |-> wide]
  /\ at' = "enriched"
  /\ UNCHANGED <<raw, job, payload>>

\* The sync stage builds the payload; a job without one is counted as failed.
BuildPayload ==
  /\ at \in {"normalized", "enriched"}
  /\ IF Sendable(Built) THEN payload' = Built /\ at' = "built"
     ELSE at' = "unsendable" /\ UNCHANGED payload
  /\ UNCHANGED <<raw, job, rows>>

KNext ==
  \/ MapJob
  \/ \E answer \in Answers : AnswerJob(answer)
  \/ \E skills \in SUBSET SkillNames, reqs \in 0..MaxRelations + 1, wide \in BOOLEAN :
       StageRows(skills, reqs, wide)
  \/ BuildPayload

KSpec == KInit /\ [][KNext]_contractVars

-----------------------------------------------------------------------------
(* Properties *)

RawAmounts == raw.low \cup raw.high \cup Amount(raw.label, 1) \cup Amount(raw.label, 2)

\* normalize: only a job without a title, or with an amount below zero, is
\* rejected; a reversed range is none of these. What is stored is stable: an
\* amount would not change if the salary were normalized again.
OnlyBadJobsRejected ==
  /\ at = "rejected" => raw.title = "none" \/ \E n \in RawAmounts : n < 0
  /\ job # None =>
       /\ Canonical(job)
       /\ LET s == job.salary IN
            Salary(s.low, s.high, s.currency, s.period, s.label, {}) = s

\* sync: a stored job that the backend's schema refuses has a company that is
\* none, or a name or text longer than the schema lets in, or more or longer
\* skills. Neither its salary nor the number of its requirements is ever the
\* reason, nor a long text of requirements that are short; requirements in one
\* long piece are, unless shorter ones are staged.
OnlyOversizeRefused ==
  at = "unsendable" =>
    \/ job.company # "named" \/ "long" \in {job.title, job.names}
    \/ job.text \in Overlong \/ job.reqs \in {"bulky", "endless"}
    \/ IF rows.reqs > 0 THEN rows.wide ELSE "wide" \in {job.reqs, job.text}
    \/ Cardinality(rows.skills \cup job.skills) > MaxRelations \/ rows.skills \cap Unwieldy # {}

\* The payload promises what the source said: amounts that it stated and in
\* order, no silence about one that it did state, a closed job never as an
\* active one, a remote job as remote, and readable text, skills and
\* requirements for every job.
PayloadIsTrue ==
  at = "built" =>
    /\ \A m \in payload.low, n \in payload.high : m <= n
    /\ job = Mapped(raw) => payload.low \cup payload.high \subseteq RawAmounts
    /\ payload.display = "Not specified" => job.salary.low \cup job.salary.high \subseteq {0}
    /\ job = Mapped(raw) /\ raw.status = "closed" /\ raw.platform # "kalibrr" /\ raw.detail
         => payload.status # "ACTIVE"
    /\ raw.work = "remote" /\ job = Mapped(raw) => payload.work = "remote"
    /\ payload.text \notin {"none", "placeholder", "short"}
    /\ payload.reqs \in 1..MaxRelations /\ payload.skills # {}

\* A job is stored, and sent, as its source stated it, and is turned away for
\* few known reasons (normalize_salary, the mappers, build_backend_job_payload).
ContractHolds == OnlyBadJobsRejected /\ OnlyOversizeRefused /\ PayloadIsTrue
=============================================================================

----------------------------- MODULE MCReports ------------------------------
(* The enrichment service, the clients of the AI provider, the report of the *)
(* runs, the staging report, and the way of one job to the backend, which    *)
(* share no state: each behaviour runs one of them, and the others stand     *)
(* still.                                                                    *)
EXTENDS Enrichment, AiClient, RunReport, StagingReport, JobContract, TLC

CONSTANTS skill, requirement

VARIABLE part

MCJobs == {1, 2}
MCValues == {skill, requirement}
MCSkills == {skill}
MCUnbuildable == {2}

-----------------------------------------------------------------------------
(* Raw payloads in three groups: salaries, texts and skills, and the rest. *)

Optional(S) == {{}} \cup {{x} : x \in S}

Usual == [platform |-> "dealls", detail |-> TRUE, low |-> {}, high |-> {}, currency |-> {},
          period |-> {}, label |-> NoLabel, company |-> "named", title |-> "named",
          text |-> "good", reqs |-> "none", skills |-> {}, status |-> "active", work |-> "remote",
          names |-> "named"]

Labels == {[said |-> TRUE, amounts |-> amounts, currency |-> {"IDR"}, period |-> period] :
             amounts \in {<<>>, <<0>>, <<3>>, <<2, 3>>, <<3, 2>>}, period \in Optional({"yearly"})}

Salaried ==
  {[Usual EXCEPT !.platform = p, !.low = low, !.high = high, !.currency = currency, !.period = period] :
     p \in Platforms \ {"jobstreet"}, low \in Optional({0, 3}), high \in Optional({0, 2}),
     currency \in Optional({"USD"}), period \in {{"daily"}}}
  \cup {[Usual EXCEPT !.platform = "jobstreet", !.label = label] : label \in Labels}
  \cup {[Usual EXCEPT !.low = {-1}], [Usual EXCEPT !.low = {2}, !.high = {3}]}

Worded ==
  {[Usual EXCEPT !.platform = p, !.text = text, !.reqs = reqs] :
     p \in Platforms, text \in {"none", "short", "long", "wide"}, reqs \in {"none", "list", "wide", "bulky"}}
  \cup {[Usual EXCEPT !.reqs = "endless"], [Usual EXCEPT !.text = "endless"]}
  \cup {[Usual EXCEPT !.skills = skills, !.detail = detail] :
          skills \in {{"vague", "huge"}, {"tla", "sql"}}, detail \in BOOLEAN}

Stated ==
  {[Usual EXCEPT !.platform = p, !.status = status, !.work = work, !.detail = detail] :
     p \in Platforms, status \in {"stale", "closed"}, work \in {"remote", "unknown"}, detail \in BOOLEAN}
  \cup {[Usual EXCEPT !.status = "odd", !.company = company] :
          company \in {"none", "placeholder", "long"}}
  \cup {[Usual EXCEPT !.title = title, !.names = names] : title, names \in {"none", "named", "long"}}

MCRawJobs == Salaried \cup Worded \cup Stated

Answer == [None EXCEPT !.company = "named", !.title = "named", !.status = "active", !.work = "unknown"]

MCAnswers ==
  {[Answer EXCEPT !.salary = [NoSalary EXCEPT !.high = {2}, !.label = label]] :
     label \in {label \in Labels : label.period = {} /\ label.amounts \in {<<0>>, <<3, 2>>}}}
  \cup {[Answer EXCEPT !.text = "list", !.reqs = "placeholder", !.skills = {"tla", "sql"}],
        [Answer EXCEPT !.reqs = "wide", !.names = "long"]}

MCSkillNames == {"tla", "sql", "vague", "huge"}
MCVague == {"vague"}
MCUnwieldy == {"huge"}

-----------------------------------------------------------------------------
(* Evidence of a run: up to 22 requests with and without a slow one, ... *)

MCModels == <<"first", "second", "third">>
MCBatchSizes == {1, 2}
MCAnomalies == {"duplicate", "orphan"}

Tallies == {2 :> fast @@ 5 :> slow : fast \in {0, 1, 18, 19, 20}, slow \in {0, 1, 2}}

\* ... jobs of Glints, in numbers around 95 in a hundred and below a thousand,
Label(explicit, coverage) == [explicit |-> explicit, coverage |-> coverage]
LabelTallies ==
  {Label("partial", "full") :> explicit @@ Label("none", "list-only") :> covered @@ Label("odd", "full") :> whole :
     explicit \in {0, 18, 940}, covered \in {0, 1, 10}, whole \in {0, 1, 50}}

\* ... and stages that have taken long or were cut off.
StageLists == {<<{2}, {2}, {2}, {2}, {5}>>, <<{2}, {}>>, <<{2}, {2}, {5}, {}>>, <<{}>>}

Calm == [sent |-> {"glints", "dealls"}, consistent |-> TRUE, strict |-> TRUE,
         glints |-> Label("partial", "none") :> 1, stages |-> <<{2}, {2}, {2}, {2}, {2}>>,
         ai |-> 2 :> 1, sync |-> 2 :> 1, retries |-> 0]
MCFindings ==
  {[Calm EXCEPT !.ai = ai, !.sync = syncs] : ai \in Tallies, syncs \in {2 :> 0, 2 :> 19 @@ 5 :> 2}}
  \cup {[Calm EXCEPT !.glints = labels] : labels \in LabelTallies}
  \cup {[Calm EXCEPT !.stages = stages] : stages \in StageLists}
  \cup {[Calm EXCEPT !.consistent = consistent, !.strict = strict, !.retries = retries, !.sent = sources] :
           consistent, strict \in BOOLEAN, retries \in {0, 2}, sources \in SUBSET {"glints", "dealls"}}

Gate == [database |-> TRUE, backend |-> TRUE, stageLimit |-> {}, aiLimit |-> {}, syncLimit |-> {},
         retryLimit |-> {}, least |-> 9500, most |-> 10000]
MCGates ==
  {[Gate EXCEPT !.database = database, !.backend = backend] : database, backend \in BOOLEAN}
  \cup {[Gate EXCEPT !.least = 9474, !.most = 9474]}   \* 18 of 19, rounded up
  \cup {[Gate EXCEPT !.stageLimit = {4}, !.aiLimit = {4}, !.syncLimit = limit, !.retryLimit = {1}] :
           limit \in Optional({4})}

-----------------------------------------------------------------------------

\* The jobs of the report are alike: job 1 is captured no later than job 2.
FirstFirst == owner'[2] # 0 => owner'[1] # 0

Init ==
  /\ part \in {"enrichment", "client", "report", "staging", "contract"}
  /\ EInit /\ AInit /\ RInit /\ GInit /\ KInit
  /\ part = "contract" \/ raw = Usual
Next ==
  /\ UNCHANGED part
  /\ \/ part = "enrichment" /\ ENext /\ UNCHANGED <<clientVars, reportVars, stagingVars, contractVars>>
     \/ part = "client" /\ ANext /\ UNCHANGED <<enrichVars, reportVars, stagingVars, contractVars>>
     \/ part = "report" /\ RNext /\ FirstFirst /\ UNCHANGED <<enrichVars, clientVars, stagingVars, contractVars>>
     \/ part = "staging" /\ GNext /\ UNCHANGED <<enrichVars, clientVars, reportVars, contractVars>>
     \/ part = "contract" /\ KNext /\ UNCHANGED <<enrichVars, clientVars, reportVars, stagingVars>>

Spec ==
  /\ Init /\ [][Next]_<<part, enrichVars, clientVars, reportVars, stagingVars, contractVars>>
  /\ EFairness
=============================================================================

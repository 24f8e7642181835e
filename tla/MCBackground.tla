---------------------------- MODULE MCBackground ----------------------------
(* The stage queue, the scheduler daemon, the sweep and deduplication, and   *)
(* the pipeline command, which share no state here: each behaviour runs one  *)
(* of them, and the others stand still.                                      *)
EXTENDS StageQueue, DailyScheduler, JobLifecycle, Command

CONSTANTS w1, w2

VARIABLE part

MCWorkers == {w1, w2}
MCQJobs == 1..2
MCDayStages == <<"scrape", "normalize">>
MCListed == {1, 2}
MCCandidates ==
  [external : {"id", "none"}, slug : {"none", "s1", "s2"}, title : {"t1", "t2"},
   company : {"c"}, url : {"u"}]
  \cup {[external |-> "id", slug |-> "s2", title |-> "t2", company |-> "d", url |-> "u"]}
  \cup [external : {"none"}, slug : {"none"}, title : {"none"}, company : {"none"},
        url : {"none", "u"}]

-----------------------------------------------------------------------------
(* Command lines and environment files *)

MCPlatforms == {"dealls", "jobstreet"}
Words1 == <<<<"dev", "Dev">>>>
Words2 == <<<<"dev", "dev">>, <<"ops", "ops">>>>
WordsBlank == <<<<"dev", "dev">>, BlankEntry>>
MCTexts == {Words2, WordsBlank}
MCNumbers == {6000}

Example == [app |-> "local", sync |-> FALSE, base |-> FALSE, lookup |-> FALSE, ai |-> FALSE,
            openai |-> FALSE, enabled |-> {"dealls"}, token |-> FALSE, items |-> 100, days |-> 7,
            words |-> Words1, latest |-> FALSE]
Production == [Example EXCEPT !.app = "production", !.sync = TRUE, !.base = TRUE, !.lookup = TRUE,
                              !.ai = TRUE, !.openai = TRUE, !.enabled = MCPlatforms, !.token = TRUE]
MCEnvFiles ==
  {Example, Production, [Example EXCEPT !.ai = TRUE, !.openai = TRUE, !.lookup = TRUE],
   [Example EXCEPT !.app = "staging", !.openai = TRUE, !.latest = TRUE], [Example EXCEPT !.enabled = {}],
   [Production EXCEPT !.ai = FALSE, !.app = "local"], [Production EXCEPT !.base = FALSE]}

ValuesOf(list, flag) ==
  LET given == SelectSeq(list, LAMBDA o : o[1] = flag) IN [i \in DOMAIN given |-> given[i][2]]
Typed(command, lists) ==
  {[command |-> command, options |-> [flag \in Flags |-> ValuesOf(list, flag)]] : list \in lists}
Dry == <<"--dry-run", "">>
Execute == <<"--execute", "">>
Yes == <<"--yes", "">>
All == <<"--source", "all">>
Jobstreet == <<"--source", "jobstreet">>
MCCommandLines ==
  Typed("run", {<<Dry>>, <<Execute>>, <<Dry, Execute>>, <<>>, <<<<"--stage", "sync">>, Execute>>,
                <<Jobstreet, Execute>>, <<<<"--keywords", WordsBlank>>, Execute>>})
  \cup Typed("quick-dry-run", {<<>>, <<<<"--limit", 5>>>>})
  \cup Typed("preflight", {<<Dry>>, <<Execute>>, <<<<"--stage", "sync">>, Execute>>})
  \cup Typed("wizard", {<<>>, <<Dry, Yes, All>>, <<Execute, Yes, All>>, <<Yes, Jobstreet>>,
                        <<Dry, Execute>>, <<<<"--mode", "verify">>>>, <<<<"--mode", "execute">>, Execute>>,
                        <<<<"--limit", 6000>>>>, <<<<"--stage", "sync">>, All, <<"--limit", 2>>,
                        <<"--keyword", Words1>>, <<"--keyword", Words2>>>>})
  \cup Typed("verify", {<<>>}) \cup Typed("data-quality", {<<>>})

-----------------------------------------------------------------------------

Init == part \in {"queue", "daemon", "sweep", "dedup", "command"} /\ QInit /\ DInit /\ LInit
        /\ CInit /\ (part = "command" \/ file = Example)
Next ==
  /\ UNCHANGED part
  /\ \/ part = "queue" /\ QNext /\ UNCHANGED <<dayVars, lifecycleVars, commandVars>>
     \/ part = "daemon" /\ DNext /\ UNCHANGED <<queueVars, lifecycleVars, commandVars>>
     \/ part = "sweep" /\ SweepNext /\ UNCHANGED <<queueVars, dayVars, commandVars>>
     \/ part = "dedup" /\ DedupNext /\ UNCHANGED <<queueVars, dayVars, commandVars>>
     \/ part = "command" /\ CNext /\ UNCHANGED <<queueVars, dayVars, lifecycleVars>>

Spec == Init /\ [][Next]_<<part, queueVars, dayVars, lifecycleVars, commandVars>> /\ QFairness /\ DFairness
=============================================================================

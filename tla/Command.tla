------------------------------ MODULE Command -------------------------------
(***************************************************************************)
(* The pipeline command: what it accepts, the settings it runs with, the   *)
(* wizard that asks for the arguments of a run and for its confirmation,   *)
(* and which outside systems a run may reach.                              *)
(*                                                                         *)
(* The settings are read from the environment file by every part of the    *)
(* command that needs them, the run after the wizard once more, and the    *)
(* file may change at any time.                                            *)
(***************************************************************************)
EXTENDS Integers, Sequences
LOCAL SeqExt == INSTANCE SequencesExt

CONSTANTS
  Platforms,   \* sources; "jobstreet" is the one that needs a token
  EnvFiles,    \* contents of the environment file
  CommandLines,  \* commands with their options, as typed
  Numbers,     \* numbers that an operator types at a prompt
  Texts,       \* keyword lists that an operator types at a prompt
  MaxEdits     \* bound: how often the environment file changes

VARIABLES
  file,       \* contents of the environment file
  edits,      \* how often it has changed
  step,       \* where the command is
  line,       \* the command line
  tty,        \* whether stdin and stdout are a terminal
  seen,       \* settings the wizard has read
  args,       \* arguments of the run
  typed,      \* what was typed to confirm
  ran,        \* the run as it was configured
  touched,    \* history: systems outside the process that it reached
  cleared,    \* preflight that has passed since the file last changed
  marked,     \* platforms whose jobs the run has marked `sent' in the database
  delivered   \* platforms whose jobs the backend has accepted from it

commandVars ==
  <<file, edits, step, line, tty, seen, args, typed, ran, touched, cleared, marked, delivered>>

StageChoices == {"full", "scrape", "normalize", "enrich", "sync", "notify-handoff"}
SourceChoices == Platforms \cup {"all"}
ReadModes == {"status", "verify", "staging-report"}
ReadCommands == ReadModes \cup {"data-quality"}
Commands == {"run", "quick-dry-run", "wizard", "preflight"} \cup ReadCommands

Flags == {"--stage", "--source", "--limit", "--keyword", "--keywords", "--latest", "--recency-days",
          "--dry-run", "--execute", "--mode", "--yes"}

ASSUME CommandAssumption ==
  "backend" \notin Platforms /\ \A l \in CommandLines : l.command \in Commands

NoOptions == [flag \in Flags |-> <<>>]
NoLine == [command |-> "none", options |-> NoOptions]
NoArgs == [stage |-> "none"]
NoPlan == [sources |-> {}]
NotRead == [enabled |-> {}]
NotCleared == [stage |-> "none", source |-> "none", execute |-> FALSE]

-----------------------------------------------------------------------------
(* Keywords: a text is the sequence of its entries, an entry the pair of its *)
(* case-folded and its written form.                                         *)

BlankEntry == <<"", "">>
HasBlank(texts) == \E i \in DOMAIN texts : BlankEntry \in {texts[i][k] : k \in DOMAIN texts[i]}

\* The entries in order, the first writing of each kept.
Words(texts) ==
  LET Keep(words, entry) ==
        IF \E i \in DOMAIN words : words[i][1] = entry[1] THEN words ELSE Append(words, entry)
  IN SeqExt!FoldLeft(Keep, <<>>, SeqExt!FlattenSeq(texts))

-----------------------------------------------------------------------------
(* Settings *)

\* The validators of Settings accept the file.
Loadable(s) ==
  /\ s.items \in 1..1000
  /\ s.days \in 1..365
  /\ s.words # <<>> /\ ~HasBlank(<<s.words>>)
  /\ s.sync => s.lookup /\ s.base
  /\ "jobstreet" \in s.enabled => s.token
  /\ s.ai => s.openai

-----------------------------------------------------------------------------
(* Options: the values of each flag in the order they are given.  Flags that  *)
(* are passed on as they are (the environment file, the fixtures, the run id) *)
(* are left out.                                                             *)

Given(options, flag) == {options[flag][i] : i \in DOMAIN options[flag]}

\* The last value of a flag, in a set, or nothing.
Option(options, flag) ==
  {options[flag][i] : i \in {k \in DOMAIN options[flag] : k = Len(options[flag])}}

ValueOr(value, default) == IF value = {} THEN default ELSE CHOOSE x \in value : TRUE
Flag(options, flag) == Given(options, flag) # {}

\* The parser accepts the options of the command.
Accepted(command, options) ==
  /\ Given(options, "--limit") \subseteq 1..5000
  /\ Given(options, "--recency-days") \subseteq 1..365
  /\ Given(options, "--stage") \subseteq StageChoices
  /\ Given(options, "--source") \subseteq SourceChoices
  /\ command \in {"run", "preflight"} => Flag(options, "--dry-run") # Flag(options, "--execute")

\* The arguments of a run that the options give.
RunArgs(options, limit, execute) ==
  [stage |-> ValueOr(Option(options, "--stage"), "full"),
   source |-> ValueOr(Option(options, "--source"), "all"),
   limit |-> Option(options, "--limit") \cup (IF Flag(options, "--limit") THEN {} ELSE limit),
   keyword |-> options["--keyword"],
   keywords |-> Option(options, "--keywords"),
   latest |-> Flag(options, "--latest"),
   days |-> Option(options, "--recency-days"),
   execute |-> execute]

\* The options of the equivalent command that the wizard prints.
RunTokens(r) ==
  LET Each(value) == IF value = {} THEN <<>> ELSE <<ValueOr(value, "")>>
      If(said) == IF said THEN <<"">> ELSE <<>>
  IN [flag \in Flags |->
        CASE flag = "--stage" -> <<r.stage>> [] flag = "--source" -> <<r.source>>
          [] flag = "--limit" -> Each(r.limit) [] flag = "--keyword" -> r.keyword
          [] flag = "--keywords" -> Each(r.keywords) [] flag = "--latest" -> If(r.latest)
          [] flag = "--recency-days" -> Each(r.days)
          [] flag = "--execute" -> If(r.execute) [] flag = "--dry-run" -> If(~r.execute)
          [] OTHER -> <<>>]

-----------------------------------------------------------------------------
(* What a run with these arguments is, under these settings *)

Executed(source, execute, s) ==
  {p \in Platforms : source \in {"all", p} /\ (execute => p \in s.enabled)}

KeywordTexts(r) == r.keyword \o (IF r.keywords = {} THEN <<>> ELSE <<ValueOr(r.keywords, <<>>)>>)

\* select_sources finds one, and the keywords are well-formed.
Runnable(r, s) == Executed(r.source, r.execute, s) # {} /\ ~HasBlank(KeywordTexts(r))

Plan(r, s) ==
  [sources |-> Executed(r.source, r.execute, s),
   words |-> Words(IF KeywordTexts(r) = <<>> THEN <<s.words>> ELSE KeywordTexts(r)),
   limit |-> ValueOr(r.limit, s.items),
   latest |-> r.latest \/ s.latest,
   days |-> ValueOr(r.days, s.days)]

\* The client that posts to the backend, for jobs and for handoffs alike.
BackendClient(s, execute) ==
  IF ~execute \/ ~s.sync THEN "recording" ELSE IF s.base THEN "live" ELSE "unbuildable"

AiClient(s, execute) == execute /\ s.ai /\ s.openai

\* build_orchestrator does not raise.
Buildable(r, s) ==
  /\ r.execute /\ r.stage \in {"full", "normalize"} => AiClient(s, r.execute)
  /\ BackendClient(s, r.execute) # "unbuildable"

\* What the preview says of the backend, and what it asks to confirm.
BackendMode(s, execute) ==
  [ok |-> execute /\ s.sync => s.base, mode |-> IF execute /\ s.sync THEN "live" ELSE "recording"]

Risks(r, s) ==
  {risk \in {"execute", "environment", "backend", "jobstreet", "ai"} :
     CASE risk = "execute" -> r.execute
       [] risk = "environment" -> s.app \in {"staging", "production"}
       [] risk = "backend" -> s.sync
       [] risk = "jobstreet" -> r.execute /\ "jobstreet" \in Executed(r.source, TRUE, s) /\ s.token
       [] risk = "ai" -> r.execute /\ s.ai}

\* The systems that a stage of the run reaches.
Reach(r, s) ==
  LET scrapes == r.stage \in {"full", "scrape"}
      normalizes == r.stage \in {"full", "normalize"}
      posts == r.stage \in {"full", "sync", "notify-handoff"}
  IN IF ~r.execute THEN {}
     ELSE {"database"}
          \cup (IF scrapes THEN Executed(r.source, TRUE, s) ELSE {})
          \cup (IF normalizes /\ AiClient(s, TRUE) THEN {"ai"} ELSE {})
          \cup (IF normalizes /\ s.lookup THEN {"backend database"} ELSE {})
          \cup (IF posts /\ BackendClient(s, TRUE) = "live" THEN {"backend"} ELSE {})

-----------------------------------------------------------------------------

CInit ==
  /\ file \in EnvFiles /\ edits = 0
  /\ step = "idle" /\ line = NoLine /\ tty = FALSE /\ seen = NotRead /\ args = NoArgs
  /\ typed = "nothing" /\ ran = NoPlan /\ touched = {} /\ cleared = NotCleared
  /\ marked = {} /\ delivered = {}

sync == <<marked, delivered>>

\* The environment file changes, while no command is past reading it.
EditFile ==
  /\ edits < MaxEdits
  /\ step \notin {"done", "refused"}
  /\ \E s \in EnvFiles \ {file} : file' = s
  /\ edits' = edits + 1
  /\ cleared' = NotCleared
  /\ UNCHANGED <<step, line, tty, seen, args, typed, ran, touched, sync>>

\* The parser, and the handlers that only build the arguments of a run.
TypeCommand ==
  /\ step = "idle"
  /\ \E l \in CommandLines : line' = l
  /\ tty' \in BOOLEAN
  /\ LET command == line'.command
         options == line'.options
     IN IF ~Accepted(command, options)
        THEN step' = "refused" /\ UNCHANGED args
        ELSE /\ step' = IF command \in {"run", "quick-dry-run"} THEN "run" ELSE command
             /\ args' = CASE command = "run" -> RunArgs(options, {}, Flag(options, "--execute"))
                          [] command = "quick-dry-run" -> RunArgs(options, {1}, FALSE)
                          [] OTHER -> NoArgs
  /\ UNCHANGED <<file, edits, seen, typed, ran, touched, cleared, sync>>

\* run_wizard and run_wizard_non_tty: the mode, and the settings.
BeginWizard ==
  /\ step = "wizard"
  /\ LET options == line.options
         flags == {f \in {"--dry-run", "--execute"} : Flag(options, f)}
         asked == Option(options, "--mode")
                    \cup {IF f = "--execute" THEN "execute" ELSE "dry-run" : f \in flags}
         conflict == flags # {} /\ (Flag(options, "--mode") \/ flags = {"--dry-run", "--execute"})
         safe == asked \subseteq {"dry-run"} /\ Flag(options, "--yes")
     IN \E mode \in IF asked # {} THEN asked
                    ELSE IF tty THEN {"dry-run", "execute"} \cup ReadModes ELSE {"dry-run"} :
          IF conflict \/ (~tty /\ ~safe) \/ ~Loadable(file)
          THEN step' = "refused" /\ UNCHANGED <<seen, args>>
          ELSE IF mode \in ReadModes
          THEN step' = "read" /\ UNCHANGED <<seen, args>>
          ELSE /\ step' = "ask"
               /\ seen' = file
               /\ args' = RunArgs(options, {}, mode = "execute")
  /\ UNCHANGED <<file, edits, line, tty, typed, ran, touched, cleared, sync>>

\* What is given for an argument, or asked for; without a terminal, the default.
Answers(given, choices, default) ==
  IF given # {} THEN given ELSE IF tty THEN choices ELSE {default}

\* wizard_build_run_args, and the checks of wizard_run_preview.
AskArguments ==
  /\ step = "ask"
  /\ \E stage \in Answers(Option(line.options, "--stage"), StageChoices, "full"),
        source \in Answers(Option(line.options, "--source"), SourceChoices, "all"),
        limit \in Answers(args.limit, Numbers \cup {seen.items}, seen.items),
        days \in Answers(args.days, Numbers \cup {seen.days}, seen.days),
        keywords \in IF KeywordTexts(args) = <<>> /\ tty THEN {{}} \cup {{t} : t \in Texts}
                     ELSE {args.keywords} :
       args' = [args EXCEPT !.stage = stage, !.source = source, !.limit = {limit},
                            !.days = {days}, !.keywords = keywords]
  /\ step' = IF Runnable(args', seen) THEN "confirm" ELSE "refused"
  /\ UNCHANGED <<file, edits, line, tty, seen, typed, ran, touched, cleared, sync>>

\* Mutant of Confirm: --yes is taken for a confirmation.
ConfirmByOption ==
  /\ step = "confirm"
  /\ IF Risks(args, seen) = {}
     THEN step' = "run" /\ UNCHANGED typed
     ELSE \/ Flag(line.options, "--yes") /\ step' = "run" /\ UNCHANGED typed
          \/ ~tty /\ step' = "refused" /\ UNCHANGED typed
          \/ /\ tty
             /\ \E answer \in {"YES", "", "yes"} :
                  typed' = answer /\ step' = IF answer = "YES" THEN "run" ELSE "refused"
  /\ UNCHANGED <<file, edits, line, tty, seen, args, ran, touched, cleared, sync>>

\* wizard_require_confirmation.
Confirm ==
  /\ step = "confirm"
  /\ IF Risks(args, seen) = {}
     THEN step' = "run" /\ UNCHANGED typed
     ELSE \/ ~tty /\ step' = "refused" /\ UNCHANGED typed
          \/ /\ tty
             /\ \E answer \in {"YES", "", "yes"} :
                  typed' = answer /\ step' = IF answer = "YES" THEN "run" ELSE "refused"
  /\ UNCHANGED <<file, edits, line, tty, seen, args, ran, touched, cleared, sync>>

\* What an executed run with a sync leaves in the database: the jobs that the
\* client accepts, every one when it only records, are marked.  A dry run works
\* on a database in memory.
Post(r, s) ==
  LET live == BackendClient(s, r.execute) = "live" IN
  IF ~r.execute \/ r.stage \notin {"full", "sync"} THEN UNCHANGED sync
  ELSE \E posted \in SUBSET Executed(r.source, TRUE, s) :
         \E ok \in IF live THEN SUBSET posted ELSE {posted} :
           marked' = ok /\ delivered' = IF live THEN ok ELSE {}

\* run_pipeline: it reads the settings, for the wizard once more.
RunPipeline ==
  /\ step = "run"
  /\ IF Loadable(file) /\ Runnable(args, file) /\ Buildable(args, file)
     THEN /\ step' = "done"
          /\ ran' = Plan(args, file)
          /\ touched' = Reach(args, file)
          /\ Post(args, file)
     ELSE step' = "refused" /\ UNCHANGED <<ran, touched, sync>>
  /\ UNCHANGED <<file, edits, line, tty, seen, args, typed, cleared>>

\* run_preflight, with what it finds outside the settings: the migrations, the
\* fixtures, and the answer of the backend to a probe.
Preflight ==
  /\ step = "preflight"
  /\ LET r == RunArgs(line.options, {}, Flag(line.options, "--execute"))
         selected == Executed(r.source, r.execute, file) # {}
     IN \E outside, probe \in BOOLEAN :
          /\ step' = IF Loadable(file) /\ selected THEN "done" ELSE "refused"
          /\ cleared' =
               IF /\ step' = "done" /\ outside /\ BackendMode(file, r.execute).ok
                  /\ r.execute /\ file.sync => file.base /\ probe
               THEN [stage |-> r.stage, source |-> r.source, execute |-> r.execute]
               ELSE cleared
  /\ UNCHANGED <<file, edits, line, tty, seen, args, typed, ran, touched, sync>>

\* status, verify, data-quality, staging-report: they read the databases.
ReadBack ==
  /\ step \in {"read"} \cup ReadCommands
  /\ step' = IF Loadable(file) THEN "done" ELSE "refused"
  /\ UNCHANGED <<file, edits, line, tty, seen, args, typed, ran, touched, cleared, sync>>

\* The process ends.
Exit ==
  /\ step \in {"done", "refused"}
  /\ step' = "idle" /\ line' = NoLine /\ tty' = FALSE /\ seen' = NotRead /\ args' = NoArgs
  /\ typed' = "nothing" /\ ran' = NoPlan /\ touched' = {} /\ marked' = {} /\ delivered' = {}
  /\ UNCHANGED <<file, edits, cleared>>

CNext ==
  \/ EditFile \/ TypeCommand \/ BeginWizard \/ AskArguments \/ Confirm
  \/ RunPipeline \/ Preflight \/ ReadBack \/ Exit

CSpec == CInit /\ [][CNext]_commandVars

-----------------------------------------------------------------------------
(* Properties *)

FromWizard == line.command = "wizard"

\* Without --execute nothing outside the process is reached.
DryRunReachesNothing == touched # {} => args.execute

\* docs/operations/daily-pipeline-runbook.md:111-112: a run of the wizard that
\* was shown to risk anything was confirmed by YES, at a terminal.
RisksAreConfirmed ==
  FromWizard /\ step = "done" /\ ran # NoPlan /\ (Risks(args, seen) # {} \/ touched # {}) =>
    tty /\ typed = "YES"

\* What the summary has disclosed: the client, the systems, the plan.  A file
\* that changed after the summary makes another run of it than was confirmed.
Disclosed ==
  LET risks == Risks(args, seen) IN
    {"backend database"}
      \cup (IF "execute" \in risks THEN {"database"} \cup (Platforms \ {"jobstreet"}) ELSE {})
      \cup risks
SummaryIsRun ==
  FromWizard /\ step = "done" /\ ran # NoPlan /\ seen = file =>
    /\ ran = Plan(args, seen)
    /\ touched \subseteq Disclosed
    /\ "backend" \in touched => BackendMode(seen, args.execute).mode = "live"

\* The equivalent command that the wizard prints is the same run; the parser
\* accepts it if the prompts, which have no upper bounds, were given numbers
\* that it accepts.
EquivalentIsSame ==
  FromWizard /\ step = "confirm" =>
    LET options == RunTokens(args) IN
      /\ Accepted("run", options) <=> args.limit \subseteq 1..5000 /\ args.days \subseteq 1..365
      /\ RunArgs(options, {}, Flag(options, "--execute")) = args

\* A run whose preflight has passed is not refused for its settings, but for the
\* AI clients, which preflight does not look at.
PreflightClears ==
  /\ step = "run"
  /\ cleared = [stage |-> args.stage, source |-> args.source, execute |-> args.execute]
  => /\ Loadable(file) /\ Executed(args.source, args.execute, file) # {}
     /\ args.stage \notin {"full", "normalize"} \/ file.ai => Buildable(args, file)

\* What the command promises of the run it starts.
CommandInv ==
  /\ DryRunReachesNothing /\ RisksAreConfirmed /\ SummaryIsRun
  /\ EquivalentIsSame /\ PreflightClears

\* docs/database.md:106: `sent' means "Downstream accepted the payload with a
\* `2xx` response"; the client of a run with sync disabled answers 202 itself.
SentIsAccepted == marked \subseteq delivered
=============================================================================

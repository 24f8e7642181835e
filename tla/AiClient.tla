------------------------------ MODULE AiClient ------------------------------
(***************************************************************************)
(* The clients of the AI provider, of integrations/ai: one for the         *)
(* normalize stage and one for enrichment, over one rotation of the        *)
(* configured models, with the metrics they keep and the rows of           *)
(* ai_request_logs that their callers write.                               *)
(*                                                                         *)
(* A run has one coroutine that asks the provider, so there is one request *)
(* at a time.  Which model it went to is read back after the answer, from  *)
(* an attribute of the client.                                             *)
(***************************************************************************)
EXTENDS Integers, Sequences, FiniteSets

CONSTANTS
  Models,      \* openai_models, in their order; none of them is "none"
  Retries,     \* openai_max_retries, of the SDK and of the enrichment service
  BatchSizes,  \* numbers of items of a normalization request
  MaxRequests  \* bound: requests of a run

ASSUME ClientAssumption ==
  /\ Models \in Seq(STRING \ {"none"}) /\ Models # <<>>
  /\ Retries \in Nat /\ MaxRequests \in Nat
  /\ BatchSizes \subseteq Nat \ {0}

VARIABLES
  turn,       \* the rotator's index
  lastModel,  \* lastModel[c]: last_model of client c
  metrics,    \* metrics[c][m]: what client c has counted for model m
  order,      \* history: the models of the requests
  flight,     \* the request under way
  sends,      \* HTTP requests for the jobs of the call under way, or of the last
  journal        \* ai_request_logs of the last call

clientVars == <<turn, lastModel, metrics, order, flight, sends, journal>>

Clients == {"normalization", "enrichment"}
NoFlight == [client |-> "none", size |-> 0, model |-> "none", attempt |-> 0]
NoMetrics == [requests |-> 0, successes |-> 0, rate_limited |-> 0, failed |-> 0]
ModelNames == {Models[i] : i \in DOMAIN Models}

-----------------------------------------------------------------------------
(* How a request may fail *)

Error(code, retryable, counted) == [code |-> code, retryable |-> retryable, counted |-> counted]

\* What the except clauses make of it, and what they count.  An answer that
\* cannot be parsed raises outside of them, and an exception of the SDK that
\* they do not name passes through: neither is counted.
Errors ==
  [auth       |-> Error("OPENAI_AUTH_ERROR", FALSE, {"failed"}),
   timeout    |-> Error("OPENAI_TIMEOUT", TRUE, {"failed"}),
   rateLimit  |-> Error("OPENAI_RATE_LIMIT", TRUE, {"rate_limited", "failed"}),
   connection |-> Error("OPENAI_PROVIDER_UNAVAILABLE", TRUE, {"failed"}),
   server     |-> Error("OPENAI_PROVIDER_UNAVAILABLE", TRUE, {"failed"}),
   rejected   |-> Error("OPENAI_INVALID_RESPONSE", FALSE, {"failed"}),
   contract   |-> Error("OPENAI_INVALID_RESPONSE", FALSE, {"failed"}),
   malformed  |-> Error("OPENAI_INVALID_RESPONSE", FALSE, {}),
   unnamed    |-> Error("LengthFinishReasonError", FALSE, {})]

\* HTTP requests that the SDK may have sent for one request of the client.
SdkSends(error) == IF error.retryable THEN {Retries + 1} ELSE 1..Retries + 1

\* _record_metrics, for one model.
Count(c, m, fields) ==
  [metrics EXCEPT ![c][m] = [f \in DOMAIN @ |-> IF f \in fields THEN @[f] + 1 ELSE @[f]]]

-----------------------------------------------------------------------------

AInit ==
  /\ turn = 1
  /\ lastModel = [c \in Clients |-> Models[1]]
  /\ metrics = [c \in Clients |-> [m \in ModelNames |-> NoMetrics]]
  /\ order = <<>> /\ flight = NoFlight /\ sends = 0 /\ journal = <<>>

\* Mutant of NextTurn: the rotation stays at its end.
NextTurnAtEnd(t) == IF t < Len(Models) THEN t + 1 ELSE t

\* OpenAIModelRotator.next_model
NextTurn(t) == (t % Len(Models)) + 1

\* A client takes the next model and sends.
Send(c, size, attempt) ==
  /\ Len(order) < MaxRequests
  /\ LET model == Models[turn] IN
       /\ flight' = [client |-> c, size |-> size, model |-> model, attempt |-> attempt]
       /\ lastModel' = [lastModel EXCEPT ![c] = model]
       /\ metrics' = Count(c, model, {"requests"})
       /\ order' = Append(order, model)
  /\ turn' = NextTurn(turn)

\* normalize_jobs or normalize_job, or the first attempt of enrich_one.
Ask(c, size) ==
  /\ flight = NoFlight
  /\ c = "enrichment" => size = 1
  /\ Send(c, size, 1)
  /\ sends' = 0 /\ journal' = <<>>

\* The next attempt of enrich_one.
AskAgain ==
  /\ flight # NoFlight /\ flight.model = "none"
  /\ Send(flight.client, 1, flight.attempt)
  /\ UNCHANGED <<sends, journal>>

LogRow(status, code) ==
  [model |-> lastModel[flight.client], status |-> status, code |-> code, retries |-> flight.attempt - 1]

\* The request fails: enrichment repeats it while it may, and otherwise every
\* item of it has failed.
Fails(error) ==
  /\ flight.model # "none"
  /\ metrics' = Count(flight.client, flight.model, error.counted)
  /\ \E n \in SdkSends(error) : sends' = sends + n
  /\ IF flight.client = "enrichment" /\ error.retryable /\ flight.attempt <= Retries
     THEN flight' = [flight EXCEPT !.model = "none", !.attempt = @ + 1] /\ UNCHANGED journal
     ELSE /\ flight' = NoFlight
          /\ journal' = [i \in 1..flight.size |-> LogRow("failed", error.code)]
  /\ UNCHANGED <<turn, lastModel, order>>

\* validate_ai_normalization_batch_output: the items in their order.
Identified(results) == Len(results) = flight.size /\ \A i \in DOMAIN results : results[i].item = i

\* The provider answers; of a batch, item by item, and under the items' names.
Succeeds(results) ==
  /\ flight.model # "none"
  /\ IF ~Identified(results)
     THEN Fails(Errors.contract)
     ELSE /\ metrics' = Count(flight.client, flight.model, {"successes"})
          /\ \E n \in 1..Retries + 1 : sends' = sends + n
          /\ flight' = NoFlight
          /\ journal' = [i \in 1..flight.size |->
                        IF \E k \in DOMAIN results : results[k] = [item |-> i, good |-> TRUE]
                        THEN LogRow("success", "")
                        ELSE IF \E k \in DOMAIN results : results[k].item = i
                        THEN LogRow("failed", "ITEM_ERROR")
                        ELSE LogRow("missing", "")]
          /\ UNCHANGED <<turn, lastModel, order>>

\* The results a provider may give: for a batch, of any items.
Results(size) ==
  IF flight.client = "enrichment" THEN {<<[item |-> 1, good |-> TRUE]>>}
  ELSE UNION {[1..n -> [item : 1..size, good : BOOLEAN]] : n \in 1..size}

ANext ==
  \/ \E c \in Clients, size \in BatchSizes : Ask(c, size)
  \/ AskAgain
  \/ \E failure \in DOMAIN Errors : flight # NoFlight /\ Fails(Errors[failure])
  \/ flight # NoFlight /\ \E results \in Results(flight.size) : Succeeds(results)

ASpec == AInit /\ [][ANext]_clientVars

-----------------------------------------------------------------------------
(* Properties *)

\* docs/environment.md:142: "Runtime uses deterministic round-robin across the
\* configured order", whichever client asks, and through retries.
RoundRobin == \A i \in DOMAIN order : order[i] = Models[((i - 1) % Len(Models)) + 1]

\* The diagnostics of both clients, merged, account for every request once,
\* under the model that it went to.
BooksBalance ==
  /\ \A m \in ModelNames :
       metrics["normalization"][m].requests + metrics["enrichment"][m].requests
         = Cardinality({i \in DOMAIN order : order[i] = m})
  /\ \A c \in Clients, m \in ModelNames :
       LET k == metrics[c][m]
           open == IF flight.client = c /\ flight.model = m THEN 1 ELSE 0
       IN k.successes + k.failed + open <= k.requests /\ k.rate_limited <= k.failed

\* When a call is over, each of its items has one row of the log, which names
\* the model of the last attempt, though it was read back after the answer.
RowsAreOfRequest ==
  journal # <<>> /\ flight = NoFlight =>
    \A i \in DOMAIN journal :
      /\ journal[i].model = order[Len(order)]
      /\ journal[i].status \in {"success", "failed"}
      /\ journal[i].retries <= Retries

\* The SDK retries inside of every attempt: the bounds multiply.
SendsAreBounded == sends <= (Retries + 1) * (Retries + 1)

\* What the clients and their callers promise at any time.
ClientInv ==
  /\ turn \in DOMAIN Models
  /\ RoundRobin /\ BooksBalance /\ RowsAreOfRequest /\ SendsAreBounded

\* docs/environment.md:130: "Bounded retry count", one more request each.
RetriesAreBounded == sends <= Retries + 1

\* The diagnostics name requests, successes and failures of each model; those
\* that were not counted as either have had no answer yet.
EveryRequestHasOutcome ==
  flight = NoFlight =>
    \A c \in Clients, m \in ModelNames :
      LET k == metrics[c][m] IN k.requests = k.successes + k.failed
=============================================================================

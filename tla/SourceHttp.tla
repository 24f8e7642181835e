----------------------------- MODULE SourceHttp -----------------------------
(***************************************************************************)
(* The HTTP client of one job source: SourceHttpClient.request_json (and   *)
(* request_text) with its SourceRateLimiter.  Several coroutines share one *)
(* client (detail pages are fetched by map_with_concurrency), so they      *)
(* share the slot counter, the failure count and the circuit breaker.      *)
(*                                                                         *)
(* A step is what a coroutine does between two awaits: wait_before_request *)
(* holds its lock without awaiting inside it, and recording a failure and  *)
(* computing the backoff from the shared count happen in one go.           *)
(*                                                                         *)
(* Time is discrete and relative: every timer holds the ticks that remain, *)
(* cool and quiet the ticks that have passed.  A coroutine may run any     *)
(* number of ticks after its sleep is over, as on a busy event loop.       *)
(***************************************************************************)
EXTENDS Integers, FiniteSets

CONSTANTS
  Callers,         \* coroutines that share the client
  MaxRetries,      \* HttpClientConfig.max_retries
  Threshold,       \* circuit_breaker_failure_threshold
  Cooldown,        \* circuit_breaker_cooldown_seconds, in ticks
  Spacing,         \* 60 / requests_per_minute, in ticks
  InitialBackoff,  \* initial_backoff_seconds, in ticks
  MaxBackoff,      \* max_backoff_seconds, in ticks
  MaxFailures      \* bound: failure counts from here on are not told apart

ASSUME CallersAssumption == IsFiniteSet(Callers)
ASSUME ClientAssumption ==
  /\ MaxRetries \in Nat
  /\ Threshold \in Nat \ {0} /\ Cooldown \in Nat \ {0} /\ Spacing \in Nat \ {0}
  /\ InitialBackoff \in Nat /\ MaxBackoff \in Nat /\ InitialBackoff <= MaxBackoff
  /\ MaxFailures \in Nat /\ MaxFailures >= Threshold

VARIABLES
  failures,   \* _failure_count
  open,       \* _circuit_open
  cool,       \* ticks since _circuit_opened_at, at most Cooldown
  slotIn,     \* ticks until _next_available_at, 0 when it is past
  pc,         \* what each caller is doing
  attempt,    \* the attempt of its call, 1..MaxRetries + 1
  wait,       \* what remains of its sleep
  quiet,      \* history: ticks since an answer last failed, at most Cooldown
  probes      \* history: requests admitted since half-open, before an answer

breakerVars == <<failures, open, cool>>
callVars    == <<pc, attempt, wait>>
vars == <<breakerVars, slotIn, callVars, quiet, probes>>

Least(m, n) == IF m < n THEN m ELSE n
Passed(t, limit) == Least(t + 1, limit)
Remaining(t) == IF t = 0 THEN 0 ELSE t - 1

\* backoff_delay of a positive failure count
BackoffDelay(n) == Least(InitialBackoff * 2^(n - 1), MaxBackoff)

-----------------------------------------------------------------------------
Init ==
  /\ failures = 0
  /\ open = FALSE
  /\ cool = 0
  /\ slotIn = 0
  /\ pc = [w \in Callers |-> "idle"]
  /\ attempt = [w \in Callers |-> 1]
  /\ wait = [w \in Callers |-> 0]
  /\ quiet = Cooldown
  /\ probes = {}

\* A caller begins a request.
Call(w) ==
  /\ pc[w] = "idle"
  /\ pc' = [pc EXCEPT ![w] = "turn"]
  /\ attempt' = [attempt EXCEPT ![w] = 1]
  /\ UNCHANGED <<breakerVars, slotIn, wait, quiet, probes>>

\* Mutant of ReserveSlot: the next slot is counted from now, not from the slot
\* just taken.
ReserveSlotFromNow(w) ==
  /\ wait' = [wait EXCEPT ![w] = slotIn]
  /\ slotIn' = Spacing
  /\ pc' = [pc EXCEPT ![w] = "slot"]

\* wait_before_request after the circuit check: take the next free slot and
\* sleep until it comes.
ReserveSlot(w) ==
  /\ wait' = [wait EXCEPT ![w] = slotIn]
  /\ slotIn' = slotIn + Spacing
  /\ pc' = [pc EXCEPT ![w] = "slot"]

EnterClosed(w) ==
  /\ pc[w] = "turn"
  /\ ~open
  /\ ReserveSlot(w)
  /\ probes' = IF probes = {} THEN {} ELSE probes \cup {w}
  /\ UNCHANGED <<breakerVars, attempt, quiet>>

\* Mutant of EnterHalfOpen: the failure count is not reset.
EnterHalfOpenKeepsCount(w) ==
  /\ pc[w] = "turn"
  /\ open
  /\ cool = Cooldown
  /\ open' = FALSE
  /\ cool' = 0
  /\ ReserveSlot(w)
  /\ probes' = {w}
  /\ UNCHANGED <<failures, attempt, quiet>>

\* The cooldown is over: the breaker closes and its counters start afresh.
EnterHalfOpen(w) ==
  /\ pc[w] = "turn"
  /\ open
  /\ cool = Cooldown
  /\ failures' = 0
  /\ open' = FALSE
  /\ cool' = 0
  /\ ReserveSlot(w)
  /\ probes' = {w}
  /\ UNCHANGED <<attempt, quiet>>

\* record_failure
RecordFailure ==
  /\ failures' = Least(failures + 1, MaxFailures)
  /\ open' = (open \/ failures + 1 >= Threshold)
  /\ cool' = IF failures + 1 >= Threshold THEN 0 ELSE cool

\* Mutant of RetryOrRaise: one attempt too many.
RetryOrRaiseLate(w) ==
  /\ RecordFailure
  /\ \/ /\ attempt[w] > MaxRetries + 1
        /\ pc' = [pc EXCEPT ![w] = "idle"]
        /\ UNCHANGED wait
     \/ /\ attempt[w] <= MaxRetries + 1
        /\ pc' = [pc EXCEPT ![w] = "backoff"]
        /\ wait' = [wait EXCEPT ![w] = BackoffDelay(failures')]
  /\ UNCHANGED attempt

\* The except branch of the retry loop after a retryable FetchError: record the
\* failure, then raise after the last attempt or back off by the shared count.
RetryOrRaise(w) ==
  /\ RecordFailure
  /\ \/ /\ attempt[w] > MaxRetries
        /\ pc' = [pc EXCEPT ![w] = "idle"]
        /\ UNCHANGED wait
     \/ /\ attempt[w] <= MaxRetries
        /\ pc' = [pc EXCEPT ![w] = "backoff"]
        /\ \E delay \in 0..MaxBackoff :
             /\ delay = BackoffDelay(failures')
             /\ wait' = [wait EXCEPT ![w] = delay]
  /\ UNCHANGED attempt

\* Mutant of Reject: the slot is taken before the circuit is looked at.
RejectWithSlot(w) ==
  /\ pc[w] = "turn"
  /\ open
  /\ cool < Cooldown
  /\ RetryOrRaise(w)
  /\ slotIn' = slotIn + Spacing
  /\ UNCHANGED <<quiet, probes>>

\* The breaker is open: wait_before_request raises a retryable FetchError, which
\* the retry loop handles like a failed answer.
Reject(w) ==
  /\ pc[w] = "turn"
  /\ open
  /\ cool < Cooldown
  /\ RetryOrRaise(w)
  /\ UNCHANGED <<slotIn, quiet, probes>>

\* The sleep until the slot is over and the request goes out, whatever the
\* breaker has done meanwhile.
Send(w) ==
  /\ pc[w] = "slot"
  /\ wait[w] = 0
  /\ pc' = [pc EXCEPT ![w] = "sent"]
  /\ UNCHANGED <<breakerVars, slotIn, attempt, wait, quiet, probes>>

\* record_success, for a body that may still prove not to be JSON.
Succeed(w) ==
  /\ pc[w] = "sent"
  /\ failures' = 0
  /\ open' = FALSE
  /\ cool' = 0
  /\ pc' = [pc EXCEPT ![w] = "idle"]
  /\ probes' = {}
  /\ UNCHANGED <<slotIn, attempt, wait, quiet>>

\* A timeout, a transport error or a retriable status.
FailRetryable(w) ==
  /\ pc[w] = "sent"
  /\ RetryOrRaise(w)
  /\ quiet' = 0
  /\ probes' = {}
  /\ UNCHANGED slotIn

\* Any other status, or a body beyond the size limit: raised at once and not
\* recorded.
FailForGood(w) ==
  /\ pc[w] = "sent"
  /\ pc' = [pc EXCEPT ![w] = "idle"]
  /\ probes' = {}
  /\ UNCHANGED <<breakerVars, slotIn, attempt, wait, quiet>>

\* Mutant of Resume: the retry is not counted as an attempt.
ResumeUncounted(w) ==
  /\ pc[w] = "backoff"
  /\ wait[w] = 0
  /\ pc' = [pc EXCEPT ![w] = "turn"]
  /\ UNCHANGED <<breakerVars, slotIn, attempt, wait, quiet, probes>>

\* The backoff is over: the next attempt.
Resume(w) ==
  /\ pc[w] = "backoff"
  /\ wait[w] = 0
  /\ pc' = [pc EXCEPT ![w] = "turn"]
  /\ attempt' = [attempt EXCEPT ![w] = @ + 1]
  /\ UNCHANGED <<breakerVars, slotIn, wait, quiet, probes>>

Tick ==
  /\ cool' = IF open THEN Passed(cool, Cooldown) ELSE cool
  /\ slotIn' = Remaining(slotIn)
  /\ wait' = [w \in Callers |-> Remaining(wait[w])]
  /\ quiet' = Passed(quiet, Cooldown)
  /\ UNCHANGED <<failures, open, pc, attempt, probes>>

\* What a caller does once it has begun a request.
Proceed(w) ==
  \/ EnterClosed(w) \/ EnterHalfOpen(w) \/ Reject(w)
  \/ Send(w) \/ Succeed(w) \/ FailRetryable(w) \/ FailForGood(w)
  \/ Resume(w)

Next == Tick \/ \E w \in Callers : Call(w) \/ Proceed(w)

Spec == Init /\ [][Next]_vars

\* Time passes, the event loop runs every coroutine that is ready, and httpx
\* answers or times out; nothing forces a caller to begin a request.
FairSpec == Spec /\ WF_vars(Tick) /\ \A w \in Callers : WF_vars(Proceed(w))
-----------------------------------------------------------------------------
(* Properties *)

States == {"idle", "turn", "slot", "sent", "backoff"}

TypeOK ==
  /\ failures \in 0..MaxFailures
  /\ open \in BOOLEAN
  /\ cool \in 0..Cooldown
  /\ slotIn \in Nat
  /\ pc \in [Callers -> States]
  /\ attempt \in [Callers -> 1..(MaxRetries + 1)]
  /\ \A w \in Callers : pc[w] = "backoff" => attempt[w] <= MaxRetries
  /\ wait \in [Callers -> Nat]
  /\ quiet \in 0..Cooldown
  /\ probes \in SUBSET Callers

\* The breaker is open exactly while the shared count of failures since the
\* last success or half-open is at the threshold, although successes of
\* requests that were on their way when it opened, rejections and half-open
\* entries change both in any order (SourceRateLimiter).
BreakerMatchesCount == open <=> failures >= Threshold

Sleepers == {w \in Callers : pc[w] = "slot" /\ wait[w] > 0}

\* Requests are spaced: the slots of callers that wait are at least one spacing
\* apart and the next free slot comes after all of them, although failures and
\* successes of other requests happen while they wait ("Apply configured
\* requests-per-minute before each source request").
SlotsSpaced ==
  /\ \A v, w \in Sleepers :
       v # w => wait[v] - wait[w] >= Spacing \/ wait[w] - wait[v] >= Spacing
  /\ \A w \in Sleepers : wait[w] + Spacing <= slotIn

\* A time t is one that a slot may lie at: it is within one spacing from now, or
\* a caller waits for the slot before it.
Taken(t) == t <= Spacing \/ \E w \in Sleepers : wait[w] = t - Spacing

\* No slot is lost: the slots follow each other without a gap, up to the next
\* free one; in particular a call that the breaker rejects takes none.
NoSlotLost == Taken(slotIn) /\ \A w \in Sleepers : Taken(wait[w])

\* The requests go out one spacing apart and no later than that, whatever the
\* breaker does between them (wait_before_request).
SlotsInv == SlotsSpaced /\ NoSlotLost

\* A request returns or raises, whatever the source answers and however the
\* other callers drive the shared breaker (request_json).
CallEnds == \A w \in Callers : pc[w] = "turn" ~> pc[w] = "idle"

\* "Enter half-open by resetting counters and allowing one new request": until
\* the first request after the cooldown is answered there is only that one.
HalfOpenAdmitsOne == Cardinality(probes) <= 1

\* "auto-recovers after cooldown": no call is rejected once the cooldown has
\* passed since the source last failed to answer.
RecoversAfterCooldown ==
  [][\A w \in Callers : Reject(w) => quiet < Cooldown]_vars
=============================================================================

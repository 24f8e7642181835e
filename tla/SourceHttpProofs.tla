-------------------------- MODULE SourceHttpProofs --------------------------
(***************************************************************************)
(* Proofs about SourceHttp for any number of callers and any limits: type  *)
(* correctness, the breaker's invariant, the spacing of slots, and the     *)
(* measure by which a call comes to its end.                               *)
(***************************************************************************)
EXTENDS SourceHttp, TLAPS

\* Time only decreases what remains and never passes a cap.
LEMMA TimerOps ==
  /\ \A t \in Nat : Remaining(t) \in Nat
  /\ \A t \in Nat : Remaining(t) > 0 => t > 0 /\ Remaining(t) = t - 1
  /\ \A t \in 0..Cooldown : Passed(t, Cooldown) \in 0..Cooldown
<1>1. \A t \in Nat : Remaining(t) \in Nat
  BY DEF Remaining
<1>2. \A t \in Nat : Remaining(t) > 0 => t > 0 /\ Remaining(t) = t - 1
  BY DEF Remaining
<1>3. \A t \in 0..Cooldown : Passed(t, Cooldown) \in 0..Cooldown
  BY ClientAssumption DEF Passed, Least
<1> QED BY <1>1, <1>2, <1>3

\* What recording a failure does to the breaker: the invariant of the breaker
\* holds after it without having held before for anything but an open breaker.
LEMMA FailureKeepsBreaker ==
  ASSUME TypeOK, BreakerMatchesCount, RecordFailure
  PROVE  /\ failures' \in 0..MaxFailures
         /\ open' \in BOOLEAN
         /\ cool' \in 0..Cooldown
         /\ BreakerMatchesCount'
<1> USE ClientAssumption DEF RecordFailure
<1>1. failures \in 0..MaxFailures /\ open \in BOOLEAN /\ cool \in 0..Cooldown
  BY DEF TypeOK
<1>2. failures' \in 0..MaxFailures /\ (failures + 1 >= Threshold <=> failures' >= Threshold)
  BY <1>1 DEF Least
<1>3. open' \in BOOLEAN
  OBVIOUS
<1>4. cool' \in 0..Cooldown
  BY <1>1
<1>5. failures >= Threshold => failures + 1 >= Threshold
  BY <1>1
<1>6. open' <=> failures' >= Threshold
  BY <1>2, <1>5 DEF BreakerMatchesCount
<1> QED BY <1>2, <1>3, <1>4, <1>6 DEF BreakerMatchesCount

\* A breaker that is closed with a count of zero satisfies its invariant.
LEMMA FreshCount == ~(0 >= Threshold) /\ 0 \in 0..MaxFailures /\ 0 \in 0..Cooldown
BY ClientAssumption

\* TypeOK and BreakerMatchesCount are inductive together: that the breaker and
\* the count agree decides which way EnterClosed and Reject go.
LEMMA BreakerStep ==
  ASSUME TypeOK, BreakerMatchesCount, [Next]_vars
  PROVE  TypeOK' /\ BreakerMatchesCount'
<1> USE ClientAssumption
<1>1. CASE Tick
  <2>1. /\ wait' \in [Callers -> Nat] /\ slotIn' \in Nat
        /\ cool' \in 0..Cooldown /\ quiet' \in 0..Cooldown
    BY <1>1, TimerOps DEF Tick, TypeOK
  <2> QED BY <1>1, <2>1 DEF Tick, TypeOK, BreakerMatchesCount
<1>2. ASSUME NEW w \in Callers, Call(w) PROVE TypeOK' /\ BreakerMatchesCount'
  BY <1>2 DEF Call, TypeOK, BreakerMatchesCount, States, breakerVars
<1>3. ASSUME NEW w \in Callers, RetryOrRaise(w)
      PROVE  /\ failures' \in 0..MaxFailures /\ open' \in BOOLEAN /\ cool' \in 0..Cooldown
             /\ BreakerMatchesCount'
             /\ pc' \in [Callers -> States]
             /\ attempt' \in [Callers -> 1..(MaxRetries + 1)]
             /\ \A v \in Callers : pc'[v] = "backoff" => attempt'[v] <= MaxRetries
             /\ wait' \in [Callers -> Nat]
  <2>1. RecordFailure BY <1>3 DEF RetryOrRaise
  <2>2. CASE attempt[w] > MaxRetries /\ pc' = [pc EXCEPT ![w] = "idle"] /\ UNCHANGED wait
    BY <1>3, <2>1, <2>2, FailureKeepsBreaker DEF RetryOrRaise, TypeOK, States
  <2>3. CASE /\ attempt[w] <= MaxRetries
             /\ pc' = [pc EXCEPT ![w] = "backoff"]
             /\ \E delay \in 0..MaxBackoff : wait' = [wait EXCEPT ![w] = delay]
    BY <1>3, <2>1, <2>3, FailureKeepsBreaker DEF RetryOrRaise, TypeOK, States
  <2> QED BY <1>3, <2>2, <2>3 DEF RetryOrRaise
<1>4. ASSUME NEW w \in Callers, EnterClosed(w) \/ EnterHalfOpen(w)
      PROVE  TypeOK' /\ BreakerMatchesCount'
  <2>1. /\ slotIn' \in Nat
        /\ wait' \in [Callers -> Nat]
        /\ pc' \in [Callers -> States]
        /\ \A v \in Callers : pc'[v] = "backoff" => pc[v] = "backoff"
        /\ attempt' = attempt /\ quiet' = quiet
    BY <1>4 DEF EnterClosed, EnterHalfOpen, ReserveSlot, TypeOK, States
  <2>2. probes' \in SUBSET Callers
    BY <1>4 DEF EnterClosed, EnterHalfOpen, TypeOK
  <2>3. CASE EnterClosed(w)
    BY <2>1, <2>2, <2>3 DEF EnterClosed, breakerVars, TypeOK, BreakerMatchesCount
  <2>4. CASE EnterHalfOpen(w)
    <3>1. failures' = 0 /\ open' = FALSE /\ cool' = 0 BY <2>4 DEF EnterHalfOpen
    <3>2. BreakerMatchesCount' BY <3>1, FreshCount, Zenon DEF BreakerMatchesCount
    <3> QED BY <2>1, <2>2, <3>1, <3>2, FreshCount DEF TypeOK
  <2> QED BY <1>4, <2>3, <2>4
<1>5. ASSUME NEW w \in Callers, Reject(w) \/ FailRetryable(w)
      PROVE  TypeOK' /\ BreakerMatchesCount'
  <2>1. slotIn' = slotIn /\ quiet' \in 0..Cooldown /\ probes' \in SUBSET Callers
    BY <1>5 DEF Reject, FailRetryable, TypeOK
  <2> QED BY <1>3, <1>5, <2>1 DEF Reject, FailRetryable, TypeOK
<1>6. ASSUME NEW w \in Callers, Send(w) \/ Succeed(w) \/ FailForGood(w) \/ Resume(w)
      PROVE  TypeOK' /\ BreakerMatchesCount'
  <2>1. CASE Send(w)
    BY <2>1 DEF Send, TypeOK, BreakerMatchesCount, States, breakerVars
  <2>2. CASE Succeed(w)
    <3>1. failures' = 0 /\ open' = FALSE /\ cool' = 0 BY <2>2 DEF Succeed
    <3>2. BreakerMatchesCount' BY <3>1, FreshCount, Zenon DEF BreakerMatchesCount
    <3> QED BY <2>2, <3>1, <3>2, FreshCount DEF Succeed, TypeOK, States
  <2>3. CASE FailForGood(w)
    BY <2>3 DEF FailForGood, TypeOK, BreakerMatchesCount, States, breakerVars
  <2>4. CASE Resume(w)
    BY <2>4 DEF Resume, TypeOK, BreakerMatchesCount, States, breakerVars
  <2> QED BY <1>6, <2>1, <2>2, <2>3, <2>4
<1>7. CASE UNCHANGED vars
  BY <1>7 DEF vars, breakerVars, callVars, TypeOK, BreakerMatchesCount
<1> QED BY <1>1, <1>2, <1>4, <1>5, <1>6, <1>7 DEF Next, Proceed

\* The breaker starts closed, without failures.
LEMMA BreakerInit == ASSUME Init PROVE TypeOK /\ BreakerMatchesCount
<1>1. failures = 0 /\ open = FALSE BY DEF Init
<1>2. BreakerMatchesCount BY <1>1, FreshCount, Zenon DEF BreakerMatchesCount
<1>3. open \in BOOLEAN BY <1>1, Zenon
<1>4. quiet \in 0..Cooldown /\ slotIn \in Nat BY ClientAssumption DEF Init
<1>5. attempt \in [Callers -> 1..(MaxRetries + 1)] BY ClientAssumption DEF Init
<1>6. pc \in [Callers -> States] /\ \A w \in Callers : pc[w] # "backoff"
  BY DEF Init, States
<1>7. wait \in [Callers -> Nat] /\ probes \in SUBSET Callers BY DEF Init
<1>8. failures \in 0..MaxFailures /\ cool \in 0..Cooldown BY FreshCount DEF Init
<1>9. TypeOK BY <1>3, <1>4, <1>5, <1>6, <1>7, <1>8 DEF TypeOK
<1> QED BY <1>2, <1>9

\* Every state of the client is well typed, whatever the source answers.
THEOREM HttpTypeCorrect == Spec => []TypeOK
<1>1. Init => TypeOK /\ BreakerMatchesCount
  BY BreakerInit
<1> QED BY <1>1, BreakerStep, PTL DEF Spec

\* The breaker is open exactly while the failure count is at the threshold.
THEOREM BreakerIsExact == Spec => []BreakerMatchesCount
<1>1. Init => TypeOK /\ BreakerMatchesCount
  BY BreakerInit
<1> QED BY <1>1, BreakerStep, PTL DEF Spec

\* Steps that neither take a slot nor let time pass keep the spacing: no caller
\* becomes a sleeper and no sleeper's wait or the next free slot changes.
LEMMA SpacingFrame ==
  ASSUME TypeOK, SlotsSpaced, slotIn' = slotIn,
         \A w \in Callers : pc'[w] = "slot" => pc[w] = "slot" /\ wait'[w] = wait[w]
  PROVE  SlotsSpaced'
BY DEF SlotsSpaced, Sleepers

\* Every step keeps the waiting slots apart and without gaps.
LEMMA SpacingStep ==
  ASSUME TypeOK, SlotsSpaced, [Next]_vars
  PROVE  SlotsSpaced'
<1> USE ClientAssumption
<1>1. CASE Tick
  <2>1. \A w \in Sleepers' : w \in Sleepers /\ wait'[w] = wait[w] - 1
    BY <1>1, TimerOps DEF Tick, Sleepers, TypeOK
  <2>2. \A w \in Sleepers' : slotIn' = slotIn - 1
    BY <1>1, <2>1 DEF Tick, SlotsSpaced, Sleepers, TypeOK, Remaining
  <2> QED BY <2>1, <2>2 DEF SlotsSpaced, TypeOK, Sleepers
<1>2. ASSUME NEW w \in Callers, EnterClosed(w) \/ EnterHalfOpen(w) PROVE SlotsSpaced'
  <2>1. /\ wait' = [wait EXCEPT ![w] = slotIn]
        /\ slotIn' = slotIn + Spacing
        /\ pc' = [pc EXCEPT ![w] = "slot"]
    BY <1>2 DEF EnterClosed, EnterHalfOpen, ReserveSlot
  <2>2. \A v \in Sleepers' : v # w => v \in Sleepers /\ wait'[v] = wait[v]
    BY <2>1 DEF Sleepers, TypeOK
  <2>3. \A v \in Sleepers' : v = w => wait'[v] = slotIn
    BY <2>1 DEF Sleepers, TypeOK
  <2>4. \A v \in Sleepers : wait[v] + Spacing <= slotIn /\ wait[v] \in Nat
    BY DEF SlotsSpaced, Sleepers, TypeOK
  <2>5. slotIn \in Nat BY DEF TypeOK
  <2> QED BY <2>1, <2>2, <2>3, <2>4, <2>5 DEF SlotsSpaced
<1>3. ASSUME NEW w \in Callers, RetryOrRaise(w), slotIn' = slotIn PROVE SlotsSpaced'
  <2>1. \A v \in Callers : pc'[v] = "slot" => pc[v] = "slot" /\ wait'[v] = wait[v]
    BY <1>3 DEF RetryOrRaise, TypeOK
  <2> QED BY <1>3, <2>1, SpacingFrame
<1>4. ASSUME NEW w \in Callers,
             \/ Call(w) \/ Send(w) \/ Succeed(w) \/ FailForGood(w) \/ Resume(w)
      PROVE  SlotsSpaced'
  <2>1. slotIn' = slotIn /\ wait' = wait
    BY <1>4 DEF Call, Send, Succeed, FailForGood, Resume
  <2>2. \A v \in Callers : pc'[v] = "slot" => pc[v] = "slot"
    BY <1>4 DEF Call, Send, Succeed, FailForGood, Resume, TypeOK
  <2> QED BY <2>1, <2>2, SpacingFrame
<1>5. ASSUME NEW w \in Callers, Reject(w) \/ FailRetryable(w) PROVE SlotsSpaced'
  BY <1>3, <1>5 DEF Reject, FailRetryable
<1>6. CASE UNCHANGED vars
  BY <1>6, SpacingFrame DEF vars, callVars
<1> QED BY <1>1, <1>2, <1>4, <1>5, <1>6 DEF Next, Proceed

\* Steps that neither take a slot nor let time pass keep the slots without gaps.
LEMMA GapFrame ==
  ASSUME TypeOK, NoSlotLost, slotIn' = slotIn,
         \A w \in Callers : pc'[w] = "slot" <=> pc[w] = "slot",
         \A w \in Callers : pc[w] = "slot" => wait'[w] = wait[w]
  PROVE  NoSlotLost'
<1>1. \A w \in Callers : w \in Sleepers' <=> w \in Sleepers
  BY DEF Sleepers
<1>2. \A w \in Sleepers : wait'[w] = wait[w]
  BY DEF Sleepers
<1> QED BY <1>1, <1>2 DEF NoSlotLost, Taken, Sleepers

\* Only a caller whose time has come stops waiting, so that no slot before
\* another is dropped.
LEMMA GapStep ==
  ASSUME TypeOK, NoSlotLost, [Next]_vars
  PROVE  NoSlotLost'
<1> USE ClientAssumption
<1>1. CASE Tick
  <2>1. \A w \in Sleepers' : w \in Sleepers /\ wait'[w] = wait[w] - 1
    BY <1>1, TimerOps DEF Tick, Sleepers, TypeOK
  <2>2. \A w \in Sleepers : wait[w] > 1 => w \in Sleepers' /\ wait'[w] = wait[w] - 1
    BY <1>1 DEF Tick, Sleepers, TypeOK, Remaining
  <2>3. slotIn \in Nat /\ \A w \in Sleepers : wait[w] \in Nat \ {0}
    BY DEF TypeOK, Sleepers
  <2>4. slotIn' = IF slotIn > 0 THEN slotIn - 1 ELSE 0
    BY <1>1, <2>3 DEF Tick, Remaining
  <2>5. ASSUME NEW t \in Nat, t > 0, Taken(t) PROVE Taken(t - 1)'
    <3>1. CASE t <= Spacing BY <3>1, <2>5 DEF Taken
    <3>2. ASSUME NEW w \in Sleepers, wait[w] = t - Spacing PROVE Taken(t - 1)'
      <4>1. CASE wait[w] = 1 BY <3>2, <4>1, <2>5 DEF Taken
      <4>2. CASE wait[w] > 1 BY <3>2, <4>2, <2>2, <2>5 DEF Taken
      <4> QED BY <4>1, <4>2, <2>3
    <3> QED BY <2>5, <3>1, <3>2 DEF Taken
  <2>6. Taken(slotIn)'
    <3>1. CASE slotIn = 0 BY <3>1, <2>4 DEF Taken
    <3>2. CASE slotIn > 0 BY <3>2, <2>3, <2>4, <2>5 DEF NoSlotLost, Taken
    <3> QED BY <2>3, <3>1, <3>2
  <2>7. ASSUME NEW w \in Sleepers' PROVE Taken(wait[w])'
    BY <2>7, <2>1, <2>3, <2>5 DEF NoSlotLost, Taken
  <2> QED BY <2>6, <2>7 DEF NoSlotLost
<1>2. ASSUME NEW w \in Callers, EnterClosed(w) \/ EnterHalfOpen(w) PROVE NoSlotLost'
  <2>1. /\ wait' = [wait EXCEPT ![w] = slotIn]
        /\ slotIn' = slotIn + Spacing
        /\ pc' = [pc EXCEPT ![w] = "slot"]
        /\ pc[w] = "turn"
    BY <1>2 DEF EnterClosed, EnterHalfOpen, ReserveSlot
  <2>2. \A v \in Sleepers : v \in Sleepers' /\ wait'[v] = wait[v]
    BY <2>1 DEF Sleepers, TypeOK
  <2>3. \A v \in Sleepers' : v # w => v \in Sleepers /\ wait'[v] = wait[v]
    BY <2>1 DEF Sleepers, TypeOK
  <2>4. slotIn \in Nat /\ wait'[w] = slotIn /\ (slotIn > 0 => w \in Sleepers')
    BY <2>1 DEF Sleepers, TypeOK
  <2>5. Taken(slotIn)'
    BY <2>1, <2>4 DEF Taken
  <2>6. ASSUME NEW v \in Sleepers' PROVE Taken(wait[v])'
    BY <2>2, <2>3, <2>4, <2>6 DEF NoSlotLost, Taken
  <2> QED BY <2>5, <2>6 DEF NoSlotLost
<1>3. ASSUME NEW w \in Callers, RetryOrRaise(w), slotIn' = slotIn, pc[w] # "slot"
      PROVE  NoSlotLost'
  <2>1. \A v \in Callers : v # w => pc'[v] = pc[v] /\ wait'[v] = wait[v]
    BY <1>3 DEF RetryOrRaise, TypeOK
  <2>2. pc'[w] # "slot"
    BY <1>3 DEF RetryOrRaise, TypeOK
  <2> QED BY <1>3, <2>1, <2>2, GapFrame
<1>4. ASSUME NEW w \in Callers, Call(w) \/ Succeed(w) \/ FailForGood(w) \/ Resume(w)
      PROVE  NoSlotLost'
  <2>1. slotIn' = slotIn /\ wait' = wait
    BY <1>4 DEF Call, Succeed, FailForGood, Resume
  <2>2. \A v \in Callers : pc'[v] = "slot" <=> pc[v] = "slot"
    BY <1>4 DEF Call, Succeed, FailForGood, Resume, TypeOK
  <2> QED BY <2>1, <2>2, GapFrame
<1>5. ASSUME NEW w \in Callers, Send(w) PROVE NoSlotLost'
  <2>1. slotIn' = slotIn /\ wait' = wait /\ wait[w] = 0 /\ pc' = [pc EXCEPT ![w] = "sent"]
    BY <1>5 DEF Send
  <2>2. Sleepers' = Sleepers
    BY <2>1 DEF Sleepers, TypeOK
  <2> QED BY <2>1, <2>2 DEF NoSlotLost, Taken
<1>6. ASSUME NEW w \in Callers, Reject(w) \/ FailRetryable(w) PROVE NoSlotLost'
  BY <1>3, <1>6 DEF Reject, FailRetryable
<1>7. CASE UNCHANGED vars
  BY <1>7, GapFrame DEF vars, callVars
<1> QED BY <1>1, <1>2, <1>4, <1>5, <1>6, <1>7 DEF Next, Proceed

\* Requests that wait for their turn are always a spacing apart, without a gap.
THEOREM RequestsAreSpaced == Spec => []SlotsInv
<1>1. Init => SlotsInv
  BY ClientAssumption DEF Init, SlotsInv, SlotsSpaced, NoSlotLost, Taken, Sleepers
<1>2. TypeOK /\ SlotsInv /\ [Next]_vars => SlotsInv'
  BY SpacingStep, GapStep DEF SlotsInv
<1> QED BY <1>1, <1>2, HttpTypeCorrect, PTL DEF Spec

-----------------------------------------------------------------------------
(* Progress of a call *)

\* Steps of the attempt in hand and of those that may follow, at most: an
\* attempt waits for its turn, its slot, its answer and its backoff.
AttemptLeft == [turn |-> 4, slot |-> 3, sent |-> 2, backoff |-> 1]
StepsLeft(w) == 4 * (MaxRetries + 1 - attempt[w]) + AttemptLeft[pc[w]]

\* The call has less of its steps left, or is where it was and waits no longer
\* than before.
CallShrinks(w) ==
  \/ StepsLeft(w)' < StepsLeft(w)
  \/ pc'[w] = pc[w] /\ attempt'[w] = attempt[w] /\ wait'[w] <= wait[w]

\* The caller that moves has less left.
LEMMA OwnSteps ==
  ASSUME TypeOK, TypeOK', NEW w \in Callers, Proceed(w), pc[w] # "idle", pc'[w] # "idle"
  PROVE  StepsLeft(w)' < StepsLeft(w)
<1>1. /\ pc \in [Callers -> States] /\ MaxRetries \in Nat
      /\ attempt[w] \in 1..(MaxRetries + 1) /\ attempt'[w] \in 1..(MaxRetries + 1)
      /\ attempt \in [Callers -> 1..(MaxRetries + 1)]
  BY ClientAssumption DEF TypeOK
<1>2. AttemptLeft["turn"] = 4 /\ AttemptLeft["slot"] = 3 /\ AttemptLeft["sent"] = 2 /\ AttemptLeft["backoff"] = 1
  BY DEF AttemptLeft
<1>3. CASE EnterClosed(w) \/ EnterHalfOpen(w)
  <2>1. pc[w] = "turn" /\ pc'[w] = "slot" /\ attempt' = attempt
    BY <1>1, <1>3 DEF EnterClosed, EnterHalfOpen, ReserveSlot
  <2> QED BY <1>1, <1>2, <2>1 DEF StepsLeft
<1>4. CASE Reject(w) \/ FailRetryable(w)
  <2>1. pc[w] \in {"turn", "sent"} /\ pc'[w] = "backoff" /\ attempt' = attempt
    BY <1>1, <1>4 DEF Reject, FailRetryable, RetryOrRaise
  <2> QED BY <1>1, <1>2, <2>1 DEF StepsLeft
<1>5. CASE Send(w)
  <2>1. pc[w] = "slot" /\ pc'[w] = "sent" /\ attempt' = attempt
    BY <1>1, <1>5 DEF Send
  <2> QED BY <1>1, <1>2, <2>1 DEF StepsLeft
<1>6. CASE Succeed(w) \/ FailForGood(w)
  <2>1. pc'[w] = "idle"
    BY <1>1, <1>6 DEF Succeed, FailForGood
  <2> QED BY <2>1
<1>7. CASE Resume(w)
  <2>1. pc[w] = "backoff" /\ pc'[w] = "turn" /\ attempt'[w] = attempt[w] + 1
    BY <1>1, <1>7 DEF Resume
  <2> QED BY <1>1, <1>2, <2>1 DEF StepsLeft
<1> QED BY <1>3, <1>4, <1>5, <1>6, <1>7 DEF Proceed

\* Whatever another caller does to breaker and slots, it leaves this one alone.
LEMMA OthersSteps ==
  ASSUME TypeOK, NEW v \in Callers, NEW w \in Callers, v # w, Call(v) \/ Proceed(v)
  PROVE  pc'[w] = pc[w] /\ attempt'[w] = attempt[w] /\ wait'[w] = wait[w]
<1>1. pc \in [Callers -> States] /\ attempt \in [Callers -> 1..(MaxRetries + 1)] /\ wait \in [Callers -> Nat]
  BY DEF TypeOK
<1>2. CASE Call(v)
  BY <1>1, <1>2 DEF Call
<1>3. CASE EnterClosed(v) \/ EnterHalfOpen(v)
  BY <1>1, <1>3 DEF EnterClosed, EnterHalfOpen, ReserveSlot
<1>4. CASE Reject(v) \/ FailRetryable(v)
  BY <1>1, <1>4 DEF Reject, FailRetryable, RetryOrRaise
<1>5. CASE Send(v) \/ Succeed(v) \/ FailForGood(v) \/ Resume(v)
  BY <1>1, <1>5 DEF Send, Succeed, FailForGood, Resume
<1> QED BY <1>2, <1>3, <1>4, <1>5 DEF Proceed

\* A call has a number of steps that its retries bound, which each of its own
\* steps reduces and no failure, rejection or half-open entry of another call
\* raises (request_json).
THEOREM CallsAlwaysShrink ==
  Spec => [][\A w \in Callers : pc[w] # "idle" /\ pc'[w] # "idle" => CallShrinks(w)]_vars
<1> DEFINE Shrink == \A w \in Callers : pc[w] # "idle" /\ pc'[w] # "idle" => CallShrinks(w)
<1>1. TypeOK /\ TypeOK' /\ [Next]_vars => [Shrink]_vars
  <2> SUFFICES ASSUME TypeOK, TypeOK', Next, NEW w \in Callers, pc[w] # "idle", pc'[w] # "idle"
               PROVE  CallShrinks(w)
    OBVIOUS
  <2>0. wait \in [Callers -> Nat] /\ wait' \in [Callers -> Nat]
    BY DEF TypeOK
  <2>1. CASE Tick
    <3>1. pc' = pc /\ attempt' = attempt /\ wait'[w] = Remaining(wait[w])
      BY <2>1 DEF Tick
    <3>2. wait'[w] <= wait[w]
      BY <2>0, <3>1 DEF Remaining
    <3> QED BY <3>1, <3>2 DEF CallShrinks
  <2>2. ASSUME NEW v \in Callers, Call(v) \/ Proceed(v) PROVE CallShrinks(w)
    <3>1. CASE v # w
      <4>1. wait'[w] <= wait[w]
        BY <2>0, <2>2, <3>1, OthersSteps
      <4> QED BY <2>2, <3>1, <4>1, OthersSteps DEF CallShrinks
    <3>2. CASE v = w
      <4>1. Proceed(w)
        BY <2>2, <3>2 DEF Call
      <4> QED BY <4>1, OwnSteps DEF CallShrinks
    <3> QED BY <3>1, <3>2
  <2> QED BY <2>1, <2>2 DEF Next
<1> QED BY <1>1, HttpTypeCorrect, PTL DEF Spec

=============================================================================

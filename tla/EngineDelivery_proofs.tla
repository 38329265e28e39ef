------------------------ MODULE EngineDelivery_proofs ------------------------
(***************************************************************************)
(* What requests, answers and retries come to, for every configuration that  *)
(* Config::validate accepts, any number of states and every bound.           *)
(***************************************************************************)
EXTENDS EngineDelivery, StateEngine_proofs

\* How far off the next attempt of a state may be.
Limit(config, rt) ==
  IF poll_every(config, rt) > RetryMax THEN poll_every(config, rt) ELSE RetryMax

Near(config, rt) == rt.next_retry_at # None => rt.next_retry_at <= Limit(config, rt)

\* What is added to IInv: the task's clock was read in the past.
NearInv ==
  /\ now # None => now <= 0
  /\ \A i \in States : Near(Config[i], states[i])

-----------------------------------------------------------------------------
\* The methods of RuntimeState.

LEMMA LimitBounds ==
  ASSUME NEW config \in StateConfigs, validate(config), NEW rt, StateOK(config, rt)
  PROVE  /\ poll_every(config, rt) \in Nat
         /\ RetryMax \in Nat
         /\ Limit(config, rt) \in Nat
         /\ RetryMax <= Limit(config, rt)
         /\ poll_every(config, rt) <= Limit(config, rt)
<1>1. poll_every(config, rt) \in Nat
  <2>1. CASE OnStep(config, rt, "WaitForJson")
    <3>1. Running(config, rt) /\ rt \in RuntimeState
      BY <2>1 DEF OnStep, StateOK, Idle
    <3> QED
      BY <2>1, <3>1, CurrentStep DEF poll_every, OnStep, ActionStepConfig
  <2>2. CASE ~OnStep(config, rt, "WaitForJson")
    BY <2>2 DEF poll_every
  <2> QED
    BY <2>1, <2>2
<1> QED
  BY <1>1, RetryAssumption DEF Limit

\* The limit depends on the step alone.
LEMMA SameLimit ==
  ASSUME NEW config, NEW rt, NEW next, Unmoved(rt, next)
  PROVE  poll_every(config, next) = poll_every(config, rt)
         /\ Limit(config, next) = Limit(config, rt)
BY DEF Unmoved, poll_every, OnStep, current_action, Limit

\* A step that has just begun waits for nothing and has not failed.
Untried(rt) == rt.next_retry_at = None /\ rt.retry_attempt = 0

\* Going on begins a step afresh (advance_step).
LEMMA AdvanceRetries ==
  ASSUME NEW config, NEW rt \in RuntimeState, NEW target, NEW at
  PROVE  Untried(advance_step(config, rt, target, at))
BY DEF advance_step, OnNextStep, Applied, RuntimeState, Untried

\* Going on with a sequence sets no retry (due_sequence_step).
LEMMA DueRetries ==
  ASSUME NEW config, NEW rt \in RuntimeState, NEW at, rt.step_started_at # None
  PROVE  LET next == due_sequence_step(config, rt, at).rt
         IN next = rt \/ Untried(next)
<1> DEFINE elapsed == /\ OnStep(config, rt, "Delay")
                      /\ DurationSince(at, rt.step_started_at)
                           >= current_action(config, rt).duration
           next == IF elapsed THEN advance_step(config, rt, rt.pending_target_state, at)
                   ELSE rt
<1>1. due_sequence_step(config, rt, at).rt = next
  BY DEF due_sequence_step, Decided
<1> QED
  BY <1>1, AdvanceRetries

\* Beginning one sets none either (due_attempt).
LEMMA BeginRetries ==
  ASSUME NEW config, NEW rt \in RuntimeState, NEW at \in Int, Idle(rt)
  PROVE  Untried(due_attempt(config, rt, at).rt)
<1>1. CASE rt.desired_state \in {None, rt.applied_state}
  BY <1>1 DEF due_attempt, Idle, Decided, Untried
<1>2. CASE rt.desired_state \notin {None, rt.applied_state}
  <2> DEFINE r1 == [rt EXCEPT !.pending_target_state = rt.desired_state]
             r2 == [r1 EXCEPT !.action_step_index = 0]
             r3 == [r2 EXCEPT !.step_started_at = at]
             r4 == [r3 EXCEPT !.retry_attempt = 0]
             begun == [r4 EXCEPT !.next_retry_at = None]
  <2>1. due_attempt(config, rt, at) = due_sequence_step(config, begun, at)
    BY <1>2 DEF due_attempt, Idle, RuntimeState
  <2>2. begun \in RuntimeState
    <3>1. r1 \in RuntimeState
      BY SetField DEF RuntimeState
    <3>2. r2 \in RuntimeState
      BY <3>1, SetField
    <3>3. r3 \in RuntimeState
      BY <3>2, FieldValues, SetField
    <3>4. r4 \in RuntimeState
      BY <3>3, FieldValues, SetField, MaxAttemptAssumption
    <3> QED
      BY <3>4, FieldValues, SetField
  <2>3. Untried(begun) /\ begun.step_started_at = at
    BY DEF RuntimeState, Untried
  <2> HIDE DEF begun
  <2> QED
    BY <2>1, <2>2, <2>3, DueRetries, NoneAssumption
<1> QED
  BY <1>1, <1>2

\* A tick of an idle state leaves no retry (tick, qualify).
LEMMA TickRetriesIdle ==
  ASSUME NEW config \in StateConfigs, NEW rt \in RuntimeState, NEW at \in Int, Idle(rt)
  PROVE  Untried(tick(config, rt, at).rt)
<1> DEFINE stale == IF rt.latest_sample_at = None THEN rt.stale
                    ELSE IsStale(config, rt, at)
           aged == [rt EXCEPT !.stale = stale]
<1>1. stale \in BOOLEAN
  <2>1. IsStale(config, rt, at) \in BOOLEAN
    BY DEF IsStale
  <2>2. rt.stale \in BOOLEAN
    BY DEF RuntimeState
  <2> QED
    BY <2>1, <2>2
<1> HIDE DEF stale
<1>2. aged \in RuntimeState /\ Idle(aged)
  <2>1. aged \in RuntimeState
    BY <1>1, SetField
  <2> QED
    BY <2>1 DEF Idle, RuntimeState
<1>3. tick(config, rt, at) =
        IF rt.latest_value = None
        THEN due_attempt(config, aged, at)
        ELSE IF aged.stale THEN Decided(aged, "None")
        ELSE IF Held(aged, at) THEN Decided(InDwell(config, aged, at), "None")
        ELSE qualify(config, aged, at)
  BY DEF tick, stale, Idle, RuntimeState
<1> HIDE DEF aged
<1>4. Untried(InDwell(config, aged, at))
  BY <1>2 DEF InDwell, RuntimeState, Idle, Untried
<1>5. Untried(qualify(config, aged, at).rt)
  <2> DEFINE free == [aged EXCEPT !.hold_until = None]
             timed == update_timer(config, free, at)
             satisfied == Satisfied(config, timed, at)
             desired == NewDesired(config, timed, satisfied)
             clear == [timed EXCEPT !.ambiguous = FALSE]
             decided == [clear EXCEPT !.desired_state = desired]
  <2>1. free \in RuntimeState /\ Idle(free)
    <3>1. free \in RuntimeState
      BY <1>2, FieldValues, SetField
    <3> QED
      BY <1>2, <3>1 DEF Idle, RuntimeState
  <2>2. timed \in RuntimeState /\ Idle(timed)
    <3> HIDE DEF free
    <3>1. PICK timers \in [BinaryState -> Option(Int)] :
            timed = [free EXCEPT !.condition_started_at = timers]
      BY <2>1, UpdateTimer
    <3>2. timed \in RuntimeState
      BY <2>1, <3>1, SetField
    <3> QED
      BY <2>1, <3>1, <3>2 DEF Idle, RuntimeState
  <2> HIDE DEF timed
  <2>3. CASE satisfied = BinaryState
    <3>1. qualify(config, aged, at).rt = [timed EXCEPT !.ambiguous = TRUE]
      BY <2>3 DEF qualify, Decided, timed
    <3> QED
      BY <2>2, <3>1 DEF Idle, RuntimeState, Untried
  <2>4. CASE satisfied # BinaryState
    <3>1. qualify(config, aged, at) = due_attempt(config, decided, at)
      <4>1. decided = [timed EXCEPT !.ambiguous = FALSE, !.desired_state = desired]
        BY <2>2 DEF RuntimeState
      <4> QED
        BY <2>4, <4>1 DEF qualify, timed
    <3>2. desired \in Option(BinaryState)
      <4>1. /\ timed.desired_state \in Option(BinaryState)
            /\ "On" \in BinaryState /\ "Off" \in BinaryState
        BY <2>2 DEF RuntimeState, BinaryState
      <4>2. config.default_state \in Option(BinaryState)
        BY DEF StateConfigs, Option
      <4> QED
        BY <4>1, <4>2 DEF NewDesired, Option
    <3> HIDE DEF desired
    <3>3. decided \in RuntimeState
      <4>1. clear \in RuntimeState
        BY <2>2, SetField
      <4> QED
        BY <3>2, <4>1, SetField
    <3>4. Idle(decided)
      BY <2>2, <3>3 DEF Idle, RuntimeState
    <3> HIDE DEF decided
    <3> QED
      BY <3>1, <3>3, <3>4, BeginRetries
  <2> QED
    BY <2>3, <2>4
<1> QED
  BY <1>2, <1>3, <1>4, <1>5, BeginRetries DEF Decided, Idle, Untried

\* A tick leaves the attempts of a state as they were, or begins afresh.
LEMMA TickRetries ==
  ASSUME NEW config \in StateConfigs, validate(config),
         NEW rt, StateOK(config, rt), NEW at \in Int
  PROVE  LET next == tick(config, rt, at).rt
         IN \/ Untried(next)
            \/ /\ Unmoved(rt, next)
               /\ next.next_retry_at = rt.next_retry_at
               /\ next.retry_attempt = rt.retry_attempt
<1>1. rt \in RuntimeState
  BY DEF StateOK
<1>2. CASE Idle(rt)
  BY <1>1, <1>2, TickRetriesIdle
<1>3. CASE Running(config, rt)
  <2> DEFINE stale == IF rt.latest_sample_at = None THEN rt.stale
                      ELSE IsStale(config, rt, at)
             aged == [rt EXCEPT !.stale = stale]
  <2>1. stale \in BOOLEAN
    <3>1. IsStale(config, rt, at) \in BOOLEAN
      BY DEF IsStale
    <3>2. rt.stale \in BOOLEAN
      BY <1>1 DEF RuntimeState
    <3> QED
      BY <3>1, <3>2
  <2>2. rt.pending_target_state # None
    BY <1>3, NoneAssumption DEF Running
  <2>3. tick(config, rt, at) = due_attempt(config, aged, at)
    BY <2>2 DEF tick
  <2> HIDE DEF stale
  <2>4. /\ aged \in RuntimeState
        /\ Unmoved(rt, aged)
        /\ aged.next_retry_at = rt.next_retry_at
        /\ aged.retry_attempt = rt.retry_attempt
        /\ aged.step_started_at = rt.step_started_at
    <3>1. aged \in RuntimeState
      BY <1>1, <2>1, SetField
    <3> QED
      BY <1>1, <3>1 DEF Unmoved, RuntimeState
  <2> HIDE DEF aged
  <2>5. aged.pending_target_state # None /\ aged.step_started_at # None
    BY <1>3, <2>2, <2>4 DEF Running, Unmoved
  <2>6. tick(config, rt, at) = due_sequence_step(config, aged, at)
    BY <2>3, <2>5 DEF due_attempt
  <2>7. \/ due_sequence_step(config, aged, at).rt = aged
        \/ Untried(due_sequence_step(config, aged, at).rt)
    BY <2>4, <2>5, DueRetries
  <2> QED
    BY <2>4, <2>6, <2>7
<1> QED
  BY <1>2, <1>3 DEF StateOK

\* A timeout opens the next window within reach (record_wait_timeout).
LEMMA WaitTimeoutNear ==
  ASSUME NEW config \in StateConfigs, validate(config),
         NEW rt, StateOK(config, rt), Near(config, rt),
         NEW at \in Int, at <= 0, NEW target, NEW step_index
  PROVE  Near(config, record_wait_timeout(config, rt, target, step_index, at))
<1>1. rt \in RuntimeState
  BY DEF StateOK
<1>2. CASE ~(Concerns(rt, target, step_index) /\ OnStep(config, rt, "WaitForJson"))
  BY <1>2 DEF record_wait_timeout
<1>3. CASE /\ Concerns(rt, target, step_index)
           /\ OnStep(config, rt, "WaitForJson")
           /\ current_action(config, rt).on_timeout = "Continue"
  BY <1>1, <1>3, AdvanceRetries DEF record_wait_timeout, Near, Untried
<1>4. CASE /\ Concerns(rt, target, step_index)
           /\ OnStep(config, rt, "WaitForJson")
           /\ current_action(config, rt).on_timeout # "Continue"
  <2> DEFINE retry_at == at + backoff(rt.retry_attempt)
             next == NewWindow(rt, retry_at)
  <2>1. record_wait_timeout(config, rt, target, step_index, at) = next
    BY <1>4 DEF record_wait_timeout
  <2>2. rt.retry_attempt \in Nat
    BY <1>1, FieldValues DEF RuntimeState
  <2>3. retry_at <= Limit(config, rt)
    BY <2>2, BackoffBounds, LimitBounds
  <2> HIDE DEF retry_at
  <2>4. Unmoved(rt, next) /\ next.next_retry_at = retry_at
    BY <1>1 DEF NewWindow, Unmoved, RuntimeState
  <2> HIDE DEF next
  <2> QED
    BY <2>1, <2>3, <2>4, SameLimit DEF Near
<1> QED
  BY <1>2, <1>3, <1>4

\* So does a failure, and the next poll (record_action_result).
LEMMA ActionResultNear ==
  ASSUME NEW config \in StateConfigs, validate(config),
         NEW rt, StateOK(config, rt), Near(config, rt),
         NEW at \in Int, at <= 0, NEW target, NEW step_index, NEW result
  PROVE  Near(config, record_action_result(config, rt, target, step_index, result, at))
<1> DEFINE next == record_action_result(config, rt, target, step_index, result, at)
<1>1. rt \in RuntimeState
  BY DEF StateOK
<1>2. CASE next = rt
  BY <1>2
<1>3. CASE next = advance_step(config, rt, target, at)
  BY <1>1, <1>3, AdvanceRetries DEF Near, Untried
<1>4. CASE next = AfterFailure(rt, at)
  <2> DEFINE retry_at == at + backoff(rt.retry_attempt)
  <2>1. rt.retry_attempt \in Nat
    BY <1>1, FieldValues DEF RuntimeState
  <2>2. retry_at <= Limit(config, rt)
    BY <2>1, BackoffBounds, LimitBounds
  <2>3. Unmoved(rt, AfterFailure(rt, at)) /\ AfterFailure(rt, at).next_retry_at = retry_at
    BY <1>1 DEF AfterFailure, Unmoved, RuntimeState
  <2> HIDE DEF retry_at, next
  <2> QED
    BY <1>4, <2>2, <2>3, SameLimit DEF Near, next
<1>5. CASE next = AfterPoll(config, rt, at)
  <2> DEFINE poll_at == at + poll_every(config, rt)
  <2>1. poll_at <= Limit(config, rt)
    BY LimitBounds
  <2>2. /\ Unmoved(rt, AfterPoll(config, rt, at))
        /\ AfterPoll(config, rt, at).next_retry_at = poll_at
    BY <1>1 DEF AfterPoll, Unmoved, RuntimeState
  <2> HIDE DEF poll_at, next
  <2> QED
    BY <1>5, <2>1, <2>2, SameLimit DEF Near, next
<1> QED
  BY <1>2, <1>3, <1>4, <1>5 DEF record_action_result

-----------------------------------------------------------------------------
\* The engine.

\* Time brings every attempt nearer (Elapse).
LEMMA OlderNear ==
  ASSUME NEW config \in StateConfigs, validate(config),
         NEW rt, StateOK(config, rt), Near(config, rt)
  PROVE  Near(config, OlderState(rt))
<1>1. rt \in RuntimeState
  BY DEF StateOK
<1>2. Unmoved(rt, OlderState(rt)) /\ OlderState(rt).next_retry_at = Older(rt.next_retry_at)
  BY <1>1 DEF Unmoved, OlderState, RuntimeState
<1>3. rt.next_retry_at \in Option(Int)
  BY <1>1 DEF RuntimeState
<1>4. CASE rt.next_retry_at = None
  BY <1>2, <1>4 DEF Near, Older
<1>5. CASE rt.next_retry_at # None
  <2>1. rt.next_retry_at \in Int /\ rt.next_retry_at <= Limit(config, rt)
    BY <1>3, <1>5 DEF Near, Option
  <2>2. Older(rt.next_retry_at) \in Int /\ Older(rt.next_retry_at) <= rt.next_retry_at
    BY <1>5, <2>1 DEF Older
  <2>3. Limit(config, rt) \in Nat
    BY LimitBounds
  <2>4. Older(rt.next_retry_at) <= Limit(config, rt)
    BY <2>1, <2>2, <2>3
  <2> QED
    BY <1>2, <2>4, SameLimit DEF Near
<1> QED
  BY <1>4, <1>5

\* What a tick does with one state (collect_due_actions).
LEMMA CollectNear ==
  ASSUME NEW config \in StateConfigs, validate(config),
         NEW rt, StateOK(config, rt), Near(config, rt), NEW at \in Int, at <= 0
  PROVE  Near(config, Collected(config, rt, at).rt)
<1> DEFINE decided == tick(config, rt, at)
<1>1. DecisionOK(config, rt, decided)
  BY Tick
<1>2. Near(config, decided.rt)
  BY TickRetries, SameLimit DEF Near, Untried
<1>3. Collected(config, rt, at) =
        CASE decided.decision = "None" -> [rt |-> decided.rt, due |-> None]
          [] decided.decision = "WaitTimedOut" -> TimedOut(config, decided.rt, at)
          [] decided.decision = "Attempt" ->
               [rt |-> decided.rt, due |-> DueActionOf(config, decided.rt)]
  BY DEF Collected
<1> HIDE DEF decided
<1>4. CASE decided.decision \in {"None", "Attempt"}
  BY <1>2, <1>3, <1>4
<1>5. CASE decided.decision = "WaitTimedOut"
  <2>1. Collected(config, rt, at).rt =
          record_wait_timeout(config, decided.rt, decided.rt.pending_target_state,
                              decided.rt.action_step_index, at)
    BY <1>3, <1>5 DEF TimedOut
  <2>2. StateOK(config, decided.rt)
    BY <1>1 DEF DecisionOK
  <2> QED
    BY <1>2, <2>1, <2>2, WaitTimeoutNear
<1> QED
  BY <1>1, <1>4, <1>5 DEF DecisionOK, TickDecision

\* NearInv is inductive, beside IInv.
LEMMA InitNear == Init => NearInv
BY DEF Init, NearInv, NewRuntimeState, Near

LEMMA NextNear == IInv /\ NearInv /\ [Next]_vars => NearInv'
<1> SUFFICES ASSUME IInv, NearInv, [Next]_vars PROVE NearInv'
  OBVIOUS
<1>1. \A i \in States : /\ StateOK(Config[i], states[i])
                        /\ Config[i] \in StateConfigs /\ validate(Config[i])
                        /\ Near(Config[i], states[i])
  BY StatesTyped, ConfigOK DEF IInv, TypeOK, NearInv
<1>2. now \in Option(Int) /\ (now # None => now <= 0)
  BY DEF IInv, TypeOK, NearInv
<1>3. CASE Elapse
  <2>1. \A i \in States : states'[i] = OlderState(states[i])
    BY <1>3 DEF Elapse
  <2>2. now' # None => now' <= 0
    BY <1>2, <1>3 DEF Elapse, Older, Option
  <2> QED
    BY <1>1, <2>1, <2>2, OlderNear DEF NearInv
<1>4. ASSUME NEW sample \in Samples, ObserveSample(sample)
      PROVE  NearInv'
  <2>1. ASSUME NEW i \in States
        PROVE  Near(Config[i], states'[i])
    <3>1. states'[i] = observe_sample(Config[i], states[i], sample, 0)
      BY <1>4 DEF ObserveSample
    <3>2. states[i] \in RuntimeState
      BY <1>1 DEF StateOK
    <3>3. /\ Unmoved(states[i], states'[i])
          /\ states'[i].next_retry_at = states[i].next_retry_at
      BY <3>1, <3>2 DEF observe_sample, Unmoved, RuntimeState
    <3> QED
      BY <1>1, <3>3, SameLimit DEF Near
  <2>2. now' = now
    BY <1>4 DEF ObserveSample, task
  <2> QED
    BY <1>2, <2>1, <2>2 DEF NearInv
<1>5. CASE Collect
  <2>1. now \in Int /\ now <= 0
    BY <1>2, <1>5, NoneAssumption DEF IInv, Control, Collect
  <2>2. \A i \in States : states'[i] = Collected(Config[i], states[i], now).rt
    BY <1>5 DEF Collect
  <2>3. now' = None
    BY <1>5 DEF Collect
  <2> QED
    BY <1>1, <2>1, <2>2, <2>3, CollectNear DEF NearInv
<1>6. CASE Record
  <2>1. PICK i \in States :
          states' = [states EXCEPT ![i] =
                       Recorded(Config[i], states[i], actions[i], outcome, now)]
    BY <1>6 DEF Record
  <2> DEFINE next == Recorded(Config[i], states[i], actions[i], outcome, now)
  <2>2. now \in Int /\ now <= 0
    BY <1>2, <1>6, NoneAssumption DEF IInv, Control, Record
  <2>3. Near(Config[i], next)
    BY <1>1, <2>2, WaitTimeoutNear, ActionResultNear DEF Recorded
  <2>4. \A j \in States : states'[j] = IF j = i THEN next ELSE states[j]
    BY <2>1 DEF IInv, TypeOK
  <2>5. now' = None
    BY <1>6 DEF Record
  <2> HIDE DEF next
  <2> QED
    BY <1>1, <2>3, <2>4, <2>5 DEF NearInv
<1>7. CASE UNCHANGED states /\ now' \in {0, now}
  BY <1>1, <1>2, <1>7, NoneAssumption DEF NearInv
<1>8. \/ Elapse \/ (\E sample \in Samples : ObserveSample(sample))
      \/ Collect \/ Record
      \/ UNCHANGED states /\ now' \in {0, now}
  <2>1. CASE \/ TakeTick \/ SkipSend \/ \E result \in ActionOutcome : Answer(result)
    BY <2>1 DEF TakeTick, SkipSend, Answer
  <2>2. CASE Send \/ Stop \/ Cancel \/ UNCHANGED vars
    BY <2>2 DEF Send, Stop, Cancel, task, vars
  <2> QED
    BY <2>1, <2>2 DEF Next, TickTask
<1> QED
  BY <1>3, <1>4, <1>5, <1>6, <1>7, <1>8

\* The record of the answers constrains nothing.
LEMMA DeliveryStep == [DeliveryNext]_<<vars, deliveryVars>> => [Next]_vars
BY DEF DeliveryNext, ElapseDelivery, CollectDelivery, RecordDelivery, OtherDelivery,
       Next, TickTask

-----------------------------------------------------------------------------
\* Delivery.

\* The requests of a pending sequence that were answered with success are those
\* before its step.
Delivered(i, rt, answered) ==
  rt.pending_target_state # None =>
    \A k \in Requests(i, rt.pending_target_state) :
      k \in answered <=> k < rt.action_step_index

DeliveredInv ==
  /\ succeeded \in [States -> SUBSET Nat]
  /\ \A i \in States : Delivered(i, states[i], succeeded[i])

\* A state is on a request, or its step is none of the requests.
LEMMA OnRequest ==
  ASSUME NEW i \in States, NEW rt, StateOK(Config[i], rt), rt.pending_target_state # None
  PROVE  /\ rt.pending_target_state \in BinaryState
         /\ rt.action_step_index \in Nat
         /\ action_count(Config[i].to[rt.pending_target_state]) \in Nat
         /\ OnStep(Config[i], rt, "Request")
              <=> rt.action_step_index \in Requests(i, rt.pending_target_state)
<1>1. Running(Config[i], rt) /\ rt \in RuntimeState
  BY DEF StateOK, Idle
<1>2. rt.pending_target_state \in BinaryState /\ rt.action_step_index \in Nat
  BY <1>1 DEF Running, RuntimeState
<1>3. action_count(Config[i].to[rt.pending_target_state]) \in Nat
  BY <1>2, ConfigOK, ValidSteps
<1>4. rt.action_step_index < action_count(Config[i].to[rt.pending_target_state])
  BY <1>1 DEF Running
<1> QED
  BY <1>2, <1>3, <1>4 DEF OnStep, current_action, Requests, StepOf

\* A move leaves the requests before the step answered, if those it passes are
\* answered with it.
LEMMA MoveDelivered ==
  ASSUME NEW i \in States, NEW rt, NEW next, NEW answered, NEW after,
         StateOK(Config[i], rt), rt.pending_target_state # None,
         Moved(Config[i], rt, next), Delivered(i, rt, answered),
         \A k \in Requests(i, rt.pending_target_state) :
           k \in after <=> \/ k \in answered
                           \/ k = rt.action_step_index /\ ~Unmoved(rt, next)
  PROVE  /\ Delivered(i, next, after)
         /\ next.pending_target_state = None =>
              Requests(i, rt.pending_target_state) \subseteq after
<1> DEFINE target == rt.pending_target_state
           step == rt.action_step_index
           count == action_count(Config[i].to[target])
<1>1. step \in Nat /\ count \in Nat
  BY OnRequest
<1>2. \A k \in Requests(i, target) : k \in Nat /\ k < count
  BY <1>1 DEF Requests
<1>3. \A k \in Requests(i, target) :
        k \in after <=> k < step \/ (k = step /\ ~Unmoved(rt, next))
  BY DEF Delivered
<1>4. CASE Unmoved(rt, next)
  BY <1>3, <1>4 DEF Unmoved, Delivered
<1>5. CASE Advanced(Config[i], rt, next)
  <2>1. ~Unmoved(rt, next) /\ next.pending_target_state = target
        /\ next.action_step_index = step + 1
    BY <1>1, <1>5 DEF Advanced, Unmoved
  <2>2. \A k \in Requests(i, target) : k < step + 1 <=> k < step \/ k = step
    BY <1>1, <1>2
  <2> QED
    BY <1>3, <2>1, <2>2 DEF Delivered
<1>6. CASE Finished(Config[i], rt, next)
  <2>1. ~Unmoved(rt, next) /\ next.pending_target_state = None /\ step + 1 = count
    BY <1>6 DEF Finished, Unmoved
  <2>2. \A k \in Requests(i, target) : k < step \/ k = step
    BY <1>1, <1>2, <2>1
  <2> QED
    BY <1>3, <2>1, <2>2 DEF Delivered
<1>7. ~Begun(rt, next)
  BY DEF Begun
<1> QED
  BY <1>4, <1>5, <1>6, <1>7 DEF Moved

\* What a step does to one state: what was answered is kept, and a state that
\* becomes applied has had every request answered.
DeliveredStep(i) ==
  /\ Delivered(i, states'[i], succeeded'[i])
  /\ /\ states[i].pending_target_state # None
     /\ states'[i].pending_target_state = None
     => Requests(i, states[i].pending_target_state) \subseteq succeeded'[i]

LEMMA UnmovedDelivered ==
  ASSUME NEW i \in States, Delivered(i, states[i], succeeded[i]),
         Unmoved(states[i], states'[i]), succeeded'[i] = succeeded[i]
  PROVE  DeliveredStep(i)
BY DEF Unmoved, Delivered, DeliveredStep

LEMMA CollectDelivers ==
  ASSUME IInv, DeliveredInv, CollectDelivery, NEW i \in States
  PROVE  DeliveredStep(i)
<1>1. /\ StateOK(Config[i], states[i])
      /\ Config[i] \in StateConfigs /\ validate(Config[i])
      /\ Delivered(i, states[i], succeeded[i])
  BY StatesTyped, ConfigOK DEF IInv, TypeOK, DeliveredInv
<1>2. Collect /\ now \in Int
  BY DEF CollectDelivery, IInv, Control, Collect
<1>3. /\ states'[i] = Collected(Config[i], states[i], now).rt
      /\ succeeded'[i] = IF states[i].pending_target_state = None THEN {}
                         ELSE succeeded[i]
  BY <1>2 DEF CollectDelivery, Collect
<1>4. Moved(Config[i], states[i], states'[i])
  BY <1>1, <1>2, <1>3, CollectOne
<1>5. CASE states[i].pending_target_state = None
  <2>1. Unmoved(states[i], states'[i]) \/ Begun(states[i], states'[i])
    BY <1>4, <1>5, NoneAssumption DEF Moved, Advanced, Finished
  <2>2. CASE Unmoved(states[i], states'[i])
    BY <1>5, <2>2 DEF DeliveredStep, Delivered, Unmoved
  <2>3. CASE Begun(states[i], states'[i])
    <3>1. states'[i].pending_target_state \in BinaryState
          /\ states'[i].action_step_index = 0
      BY <2>3 DEF Begun
    <3>2. \A k \in Requests(i, states'[i].pending_target_state) : ~(k < 0)
      BY <3>1, ConfigOK, ValidSteps DEF Requests
    <3> QED
      BY <1>3, <1>5, <3>1, <3>2 DEF DeliveredStep, Delivered
  <2> QED
    BY <2>1, <2>2, <2>3
<1>6. CASE states[i].pending_target_state # None
  <2>1. \/ Unmoved(states[i], states'[i])
        \/ states[i].action_step_index \notin Requests(i, states[i].pending_target_state)
    BY <1>1, <1>2, <1>3, <1>6, OnRequest, TickKeepsRequest
  <2> QED
    BY <1>1, <1>3, <1>4, <1>6, <2>1, MoveDelivered DEF DeliveredStep
<1> QED
  BY <1>5, <1>6

LEMMA RecordDelivers ==
  ASSUME IInv, DeliveredInv, RecordDelivery, NEW j \in States
  PROVE  DeliveredStep(j)
<1>1. PICK i \in States :
        /\ IsNext(i)
        /\ states' = [states EXCEPT ![i] =
                        Recorded(Config[i], states[i], actions[i], outcome, now)]
  BY DEF RecordDelivery, Record
<1>2. succeeded' = [succeeded EXCEPT ![i] =
                      IF outcome = "Success" THEN succeeded[i] \cup {actions[i].step_index}
                      ELSE succeeded[i]]
  BY <1>1, OneIsNext DEF RecordDelivery
<1> DEFINE next == Recorded(Config[i], states[i], actions[i], outcome, now)
           after == IF outcome = "Success"
                    THEN succeeded[i] \cup {actions[i].step_index}
                    ELSE succeeded[i]
<1>3. \A k \in States : /\ states'[k] = IF k = i THEN next ELSE states[k]
                        /\ succeeded'[k] = IF k = i THEN after ELSE succeeded[k]
  BY <1>1, <1>2 DEF IInv, TypeOK, DeliveredInv
<1>4. /\ StateOK(Config[i], states[i])
      /\ Config[i] \in StateConfigs /\ validate(Config[i])
      /\ Delivered(i, states[i], succeeded[i])
  BY StatesTyped, ConfigOK DEF IInv, TypeOK, DeliveredInv
<1>5. now \in Int /\ actions[i] \in DueAction
  BY <1>1 DEF IInv, TypeOK, Control, RecordDelivery, Record, IsNext, Option
<1>6. Concerns(states[i], actions[i].target, actions[i].step_index)
  BY <1>1 DEF IInv, DueActionsAreCurrent, IsNext
<1>7. /\ states[i].pending_target_state # None
      /\ actions[i].step_index = states[i].action_step_index
  BY <1>5, <1>6, NoneAssumption DEF Concerns, DueAction
<1>8. Moved(Config[i], states[i], next)
  BY <1>4, <1>5, RecordOne
<1>9. states[i].action_step_index \in Requests(i, states[i].pending_target_state)
        => (Unmoved(states[i], next) <=> outcome # "Success")
  BY <1>4, <1>5, <1>6, <1>7, OnRequest, RecordRequest
<1> HIDE DEF next
<1>10. \A k \in Requests(i, states[i].pending_target_state) :
         k \in after <=> \/ k \in succeeded[i]
                         \/ k = states[i].action_step_index /\ ~Unmoved(states[i], next)
  BY <1>7, <1>9
<1> HIDE DEF after
<1>11. CASE j = i
  <2>1. states'[i] = next /\ succeeded'[i] = after
    BY <1>3
  <2>2. /\ Delivered(i, next, after)
        /\ next.pending_target_state = None =>
             Requests(i, states[i].pending_target_state) \subseteq after
    BY <1>4, <1>7, <1>8, <1>10, MoveDelivered
  <2> QED
    BY <1>11, <2>1, <2>2 DEF DeliveredStep
<1>12. CASE j # i
  <2>1. states'[j] = states[j] /\ succeeded'[j] = succeeded[j]
    BY <1>3, <1>12
  <2>2. Unmoved(states[j], states'[j])
    BY <2>1 DEF Unmoved
  <2> QED
    BY <2>1, <2>2, UnmovedDelivered DEF DeliveredInv
<1> QED
  BY <1>11, <1>12

LEMMA InitDelivered == DeliveryInit => DeliveredInv
BY DEF DeliveryInit, Init, NewRuntimeState, DeliveredInv, Delivered

\* The memory of answers is of its type.
LEMMA SucceededTyped ==
  ASSUME IInv, DeliveredInv, [DeliveryNext]_<<vars, deliveryVars>>
  PROVE  succeeded' \in [States -> SUBSET Nat]
<1>1. CASE RecordDelivery
  <2>1. PICK i \in States :
          /\ IsNext(i)
          /\ succeeded' = [succeeded EXCEPT ![i] =
                             IF outcome = "Success" THEN @ \cup {actions[i].step_index}
                             ELSE @]
    BY <1>1 DEF RecordDelivery
  <2>2. actions[i].step_index \in Nat
    BY <2>1 DEF IInv, TypeOK, IsNext, Option, DueAction
  <2> QED
    BY <2>1, <2>2 DEF DeliveredInv
<1>2. CASE CollectDelivery
  BY <1>2 DEF CollectDelivery, DeliveredInv
<1>3. CASE ElapseDelivery \/ OtherDelivery \/ UNCHANGED <<vars, deliveryVars>>
  BY <1>3 DEF ElapseDelivery, OtherDelivery, deliveryVars, DeliveredInv
<1> QED
  BY <1>1, <1>2, <1>3 DEF DeliveryNext

LEMMA NextDelivers ==
  ASSUME IInv, DeliveredInv, [DeliveryNext]_<<vars, deliveryVars>>
  PROVE  DeliveredInv' /\ \A i \in States : DeliveredStep(i)
<1> SUFFICES \A i \in States : DeliveredStep(i)
  BY SucceededTyped DEF DeliveredStep, DeliveredInv
<1>1. CASE CollectDelivery
  BY <1>1, CollectDelivers
<1>2. CASE RecordDelivery
  BY <1>2, RecordDelivers
<1>3. CASE ElapseDelivery
  <2>1. \A i \in States : Unmoved(states[i], states'[i]) /\ succeeded'[i] = succeeded[i]
    BY <1>3, StatesTyped, OlderOne DEF ElapseDelivery, Elapse, IInv, TypeOK
  <2> QED
    BY <2>1, UnmovedDelivered DEF DeliveredInv
<1>4. CASE OtherDelivery \/ UNCHANGED <<vars, deliveryVars>>
  <2>1. succeeded' = succeeded
    BY <1>4 DEF OtherDelivery, deliveryVars
  <2>2. \A i \in States : Unmoved(states[i], states'[i])
    <3>1. CASE \E sample \in Samples : ObserveSample(sample)
      BY <3>1, StatesTyped, ConfigOK, ObserveOne DEF IInv, TypeOK, ObserveSample
    <3>2. CASE UNCHANGED states
      BY <3>2 DEF Unmoved
    <3> QED
      BY <1>4, <3>1, <3>2 DEF OtherDelivery, TakeTick, Send, SkipSend, Answer, Stop,
                              Cancel, vars
  <2> QED
    BY <2>1, <2>2, UnmovedDelivered DEF DeliveredInv
<1> QED
  BY <1>1, <1>2, <1>3, <1>4 DEF DeliveryNext

\* What holds in every state of the engine and of the memory of answers.
LEMMA DeliveryInvariant == DeliverySpec => [](IInv /\ DeliveredInv)
<1>1. DeliveryInit => IInv /\ DeliveredInv
  BY InitIInv, InitDelivered DEF DeliveryInit
<1>2. IInv /\ DeliveredInv /\ [DeliveryNext]_<<vars, deliveryVars>> => IInv' /\ DeliveredInv'
  BY DeliveryStep, NextIInv, NextDelivers
<1> QED
  BY <1>1, <1>2, PTL DEF DeliverySpec

-----------------------------------------------------------------------------
\* The time between a failure and its retry.

\* On a request the failures are counted as the code counts them, the next
\* attempt waits for the delay of the table, unless that was over long ago, and
\* the request is due only once its time has come.
Spaced(config, rt, count, at, due) ==
  OnStep(config, rt, "Request") =>
    /\ count = rt.retry_attempt
    /\ count > 0 =>
         /\ at \in Int
         /\ \/ at <= -Horizon
            \/ /\ rt.next_retry_at \in Int
               /\ rt.next_retry_at >= at + RetryDelay(count)
    /\ due # None => rt.next_retry_at = None \/ rt.next_retry_at <= 0

\* Only a poll is answered with "pending".
PollsArePending ==
  pc = "recording" =>
    /\ outcome \in ActionOutcome
    /\ \A i \in States :
         outcome = "Pending" /\ IsNext(i) => ~OnStep(Config[i], states[i], "Request")

SpacedInv ==
  /\ failures \in [States -> 0 .. MaxAttempt]
  /\ failed_at \in [States -> Option(Int)]
  /\ PollsArePending
  /\ \A i \in States :
       Spaced(Config[i], states[i], failures[i], failed_at[i], actions[i])

\* Doublings are the powers of two.
LEMMA Powers ==
  ASSUME NEW n \in 1 .. 11
  PROVE  2^(n - 1) = Doublings[n]
<1>1. CASE n = 1
  <2>1. n - 1 = 0 /\ 2^0 = 1
    BY <1>1
  <2> QED
    BY <1>1, <2>1 DEF Doublings
<1>2. CASE n = 2
  <2>1. n - 1 = 1 /\ 2^1 = 2
    BY <1>2
  <2> QED
    BY <1>2, <2>1 DEF Doublings
<1>3. CASE n = 3
  <2>1. n - 1 = 2 /\ 2^2 = 4
    BY <1>3
  <2> QED
    BY <1>3, <2>1 DEF Doublings
<1>4. CASE n = 4
  <2>1. n - 1 = 3 /\ 2^3 = 8
    BY <1>4
  <2> QED
    BY <1>4, <2>1 DEF Doublings
<1>5. CASE n = 5
  <2>1. n - 1 = 4 /\ 2^4 = 16
    BY <1>5
  <2> QED
    BY <1>5, <2>1 DEF Doublings
<1>6. CASE n = 6
  <2>1. n - 1 = 5 /\ 2^5 = 32
    BY <1>6
  <2> QED
    BY <1>6, <2>1 DEF Doublings
<1>7. CASE n = 7
  <2>1. n - 1 = 6 /\ 2^6 = 64
    BY <1>7
  <2> QED
    BY <1>7, <2>1 DEF Doublings
<1>8. CASE n = 8
  <2>1. n - 1 = 7 /\ 2^7 = 128
    BY <1>8
  <2> QED
    BY <1>8, <2>1 DEF Doublings
<1>9. CASE n = 9
  <2>1. n - 1 = 8 /\ 2^8 = 256
    BY <1>9
  <2> QED
    BY <1>9, <2>1 DEF Doublings
<1>10. CASE n = 10
  <2>1. n - 1 = 9 /\ 2^9 = 512
    BY <1>10
  <2> QED
    BY <1>10, <2>1 DEF Doublings
<1>11. CASE n = 11
  <2>1. n - 1 = 10 /\ 2^10 = 1024
    BY <1>11
  <2> QED
    BY <1>11, <2>1 DEF Doublings
<1> QED
  BY <1>1, <1>2, <1>3, <1>4, <1>5, <1>6, <1>7, <1>8, <1>9, <1>10, <1>11

\* The delays of the table do not decrease.
LEMMA DoublingsGrow ==
  ASSUME NEW m \in 1 .. 11, NEW n \in 1 .. 11, m <= n
  PROVE  /\ Doublings[m] \in Nat
         /\ Doublings[n] \in Nat
         /\ Doublings[m] <= Doublings[n]
  BY DEF Doublings

LEMMA DelayBounds ==
  ASSUME NEW n \in Nat \ {0}
  PROVE  RetryDelay(n) \in Nat /\ RetryDelay(n) <= RetryMax
<1> DEFINE m == IF n < 11 THEN n ELSE 11
<1>1. m \in 1 .. 11
  OBVIOUS
<1>2. RetryDelay(n) = DocumentedDelay(m)
  BY DEF RetryDelay
<1> HIDE DEF m
<1>3. 2^(m - 1) = Doublings[m]
  BY <1>1, Powers
<1>4. Doublings[m] \in Nat
  BY <1>1, DoublingsGrow
<1>5. RetryInitial * 2^(m - 1) \in Nat
  BY <1>3, <1>4, RetryAssumption
<1> QED
  BY <1>2, <1>5, RetryAssumption DEF DocumentedDelay

\* backoff keeps to them, also once the counter saturates.
LEMMA BackoffDocumented ==
  ASSUME NEW attempt \in 0 .. MaxAttempt
  PROVE  /\ SaturatingIncrement(attempt) \in Nat \ {0}
         /\ backoff(attempt) \in Nat
         /\ RetryDelay(SaturatingIncrement(attempt)) <= backoff(attempt)
<1> DEFINE n == SaturatingIncrement(attempt)
           m == IF n < 11 THEN n ELSE 11
           k == (IF attempt < 10 THEN attempt ELSE 10) + 1
<1>1. /\ attempt \in Nat
      /\ n \in Nat \ {0}
      /\ n <= attempt + 1
  BY MaxAttemptAssumption DEF SaturatingIncrement
<1>2. backoff(attempt) \in Nat
  BY <1>1, BackoffBounds
<1> HIDE DEF n
<1>3. m \in 1 .. 11 /\ k \in 1 .. 11 /\ m <= k
  BY <1>1
<1>4. RetryDelay(n) = LET doubled == RetryInitial * 2^(m - 1)
                      IN IF doubled < RetryMax THEN doubled ELSE RetryMax
  BY DEF RetryDelay, DocumentedDelay
<1>5. backoff(attempt) = LET delay == RetryInitial * Doublings[k]
                         IN IF delay < RetryMax THEN delay ELSE RetryMax
  BY DEF backoff
<1> HIDE DEF m, k
<1>6. 2^(m - 1) = Doublings[m]
  BY <1>3, Powers
<1>7. /\ Doublings[m] \in Nat
      /\ Doublings[k] \in Nat
      /\ Doublings[m] <= Doublings[k]
  BY <1>3, DoublingsGrow
<1>8. /\ RetryInitial * Doublings[m] \in Nat
      /\ RetryInitial * Doublings[k] \in Nat
      /\ RetryInitial * Doublings[m] <= RetryInitial * Doublings[k]
  BY <1>7, RetryAssumption
<1>9. RetryDelay(n) <= backoff(attempt)
  BY <1>4, <1>5, <1>6, <1>8, RetryAssumption
<1> QED
  BY <1>1, <1>2, <1>9 DEF n

\* A timeout begins the next step afresh, or stays on its own.
LEMMA WaitTimeoutFresh ==
  ASSUME NEW config, NEW rt \in RuntimeState, NEW target, NEW step_index, NEW at
  PROVE  LET next == record_wait_timeout(config, rt, target, step_index, at)
         IN Untried(next) \/ Unmoved(rt, next)
<1>1. Unmoved(rt, rt)
  BY DEF Unmoved
<1>2. \A retry_at : Unmoved(rt, NewWindow(rt, retry_at))
  BY DEF NewWindow, Unmoved, RuntimeState
<1> QED
  BY <1>1, <1>2, AdvanceRetries DEF record_wait_timeout

\* So does a tick.
LEMMA CollectFresh ==
  ASSUME NEW config \in StateConfigs, validate(config),
         NEW rt, StateOK(config, rt), NEW at \in Int
  PROVE  LET next == Collected(config, rt, at).rt
         IN Untried(next) \/ Unmoved(rt, next)
<1> DEFINE decided == tick(config, rt, at)
<1>1. DecisionOK(config, rt, decided)
  BY Tick
<1>2. Untried(decided.rt) \/ Unmoved(rt, decided.rt)
  BY TickRetries
<1>3. Collected(config, rt, at) =
        CASE decided.decision = "None" -> [rt |-> decided.rt, due |-> None]
          [] decided.decision = "WaitTimedOut" -> TimedOut(config, decided.rt, at)
          [] decided.decision = "Attempt" ->
               [rt |-> decided.rt, due |-> DueActionOf(config, decided.rt)]
  BY DEF Collected
<1> HIDE DEF decided
<1>4. CASE decided.decision \in {"None", "Attempt"}
  BY <1>2, <1>3, <1>4
<1>5. CASE decided.decision = "WaitTimedOut"
  <2> DEFINE next == record_wait_timeout(config, decided.rt, decided.rt.pending_target_state,
                                         decided.rt.action_step_index, at)
  <2>1. Collected(config, rt, at).rt = next
    BY <1>3, <1>5 DEF TimedOut
  <2>2. Unmoved(rt, decided.rt) /\ decided.rt \in RuntimeState
    BY <1>1, <1>5 DEF DecisionOK, StateOK
  <2>3. Untried(next) \/ Unmoved(decided.rt, next)
    BY <2>2, WaitTimeoutFresh
  <2> HIDE DEF next
  <2> QED
    BY <2>1, <2>2, <2>3 DEF Unmoved
<1> QED
  BY <1>1, <1>4, <1>5 DEF DecisionOK, TickDecision

\* And the recording of an outcome.
LEMMA RecordFresh ==
  ASSUME NEW config, NEW rt \in RuntimeState, NEW due, NEW result, NEW at
  PROVE  LET next == Recorded(config, rt, due, result, at)
         IN Untried(next) \/ Unmoved(rt, next)
<1>1. /\ Unmoved(rt, rt)
      /\ Unmoved(rt, AfterFailure(rt, at))
      /\ Unmoved(rt, AfterPoll(config, rt, at))
  BY DEF Unmoved, AfterFailure, AfterPoll, RuntimeState
<1>2. LET next == record_action_result(config, rt, due.target, due.step_index, result, at)
      IN Untried(next) \/ Unmoved(rt, next)
  BY <1>1, AdvanceRetries DEF record_action_result
<1> QED
  BY <1>2, WaitTimeoutFresh DEF Recorded

\* The step a state is on is known by its target and its index.
LEMMA SameStep ==
  ASSUME NEW config, NEW rt, NEW next,
         next.pending_target_state = rt.pending_target_state,
         next.action_step_index = rt.action_step_index
  PROVE  \A type : OnStep(config, next, type) <=> OnStep(config, rt, type)
BY DEF OnStep, current_action

\* Time brings the attempt nearer and takes the failure further away.
LEMMA OlderSpaced ==
  ASSUME NEW config, NEW rt, StateOK(config, rt),
         NEW count \in 0 .. MaxAttempt, NEW at \in Option(Int),
         NEW due \in Option(DueAction), Spaced(config, rt, count, at, due)
  PROVE  Spaced(config, OlderState(rt), count, Older(at), OlderAction(due))
<1>1. rt \in RuntimeState
  BY DEF StateOK
<1>2. /\ OlderState(rt).pending_target_state = rt.pending_target_state
      /\ OlderState(rt).action_step_index = rt.action_step_index
      /\ OlderState(rt).retry_attempt = rt.retry_attempt
      /\ OlderState(rt).next_retry_at = Older(rt.next_retry_at)
  BY <1>1 DEF OlderState, RuntimeState
<1> SUFFICES ASSUME OnStep(config, OlderState(rt), "Request")
             PROVE  /\ count = rt.retry_attempt
                    /\ count > 0 =>
                         /\ Older(at) \in Int
                         /\ \/ Older(at) <= -Horizon
                            \/ /\ Older(rt.next_retry_at) \in Int
                               /\ Older(rt.next_retry_at)
                                    >= Older(at) + RetryDelay(count)
                    /\ OlderAction(due) # None =>
                         Older(rt.next_retry_at) = None \/ Older(rt.next_retry_at) <= 0
  BY <1>2 DEF Spaced
<1>3. OnStep(config, rt, "Request")
  BY <1>2, SameStep
<1>4. rt.next_retry_at \in Option(Int)
  BY <1>1 DEF RuntimeState
<1>5. ASSUME count > 0
      PROVE  /\ Older(at) \in Int
             /\ \/ Older(at) <= -Horizon
                \/ /\ Older(rt.next_retry_at) \in Int
                   /\ Older(rt.next_retry_at) >= Older(at) + RetryDelay(count)
  <2>1. RetryDelay(count) \in Nat
    BY <1>5, MaxAttemptAssumption, DelayBounds
  <2>2. at \in Int /\ at # None
    BY <1>3, <1>5, NoneAssumption DEF Spaced
  <2>3. CASE at <= -Horizon
    BY <2>2, <2>3, BoundsAssumption DEF Older
  <2>4. CASE ~(at <= -Horizon)
    <3>1. /\ rt.next_retry_at \in Int /\ rt.next_retry_at # None
          /\ rt.next_retry_at >= at + RetryDelay(count)
      BY <1>3, <1>5, <2>4, NoneAssumption DEF Spaced
    <3>2. Older(at) = at - 1
      BY <2>2, <2>4, BoundsAssumption DEF Older
    <3>3. Older(rt.next_retry_at) = rt.next_retry_at - 1
      BY <2>1, <2>2, <2>4, <3>1, BoundsAssumption DEF Older
    <3> QED
      BY <2>1, <2>2, <3>1, <3>2, <3>3
  <2> QED
    BY <2>3, <2>4
<1>6. ASSUME OlderAction(due) # None
      PROVE  Older(rt.next_retry_at) = None \/ Older(rt.next_retry_at) <= 0
  <2>1. due # None
    BY <1>6 DEF OlderAction
  <2>2. rt.next_retry_at = None \/ rt.next_retry_at <= 0
    BY <1>3, <2>1 DEF Spaced
  <2> QED
    BY <1>4, <2>2, BoundsAssumption DEF Older, Option
<1> QED
  BY <1>3, <1>5, <1>6 DEF Spaced

\* A step that neither touches a state's attempts nor makes it due.
LEMMA KeptSpaced ==
  ASSUME NEW config, NEW rt, NEW next, NEW count, NEW at, NEW due, NEW after,
         next.pending_target_state = rt.pending_target_state,
         next.action_step_index = rt.action_step_index,
         next.retry_attempt = rt.retry_attempt,
         next.next_retry_at = rt.next_retry_at,
         after # None => due # None,
         Spaced(config, rt, count, at, due)
  PROVE  Spaced(config, next, count, at, after)
BY SameStep DEF Spaced

\* What a step does to the attempts of one state.
SpacedStep(i) ==
  Spaced(Config[i], states'[i], failures'[i], failed_at'[i], actions'[i])

LEMMA CollectSpaced ==
  ASSUME IInv, NearInv, SpacedInv, CollectDelivery, NEW i \in States
  PROVE  SpacedStep(i)
<1>1. /\ StateOK(Config[i], states[i]) /\ states[i] \in RuntimeState
      /\ Config[i] \in StateConfigs /\ validate(Config[i])
      /\ Spaced(Config[i], states[i], failures[i], failed_at[i], actions[i])
  BY StatesTyped, ConfigOK DEF IInv, TypeOK, SpacedInv
<1>2. Collect /\ now \in Int /\ now <= 0
  BY NoneAssumption DEF CollectDelivery, IInv, Control, Collect, NearInv
<1> DEFINE collected == Collected(Config[i], states[i], now)
<1>3. /\ states'[i] = collected.rt
      /\ actions'[i] = collected.due
      /\ failures'[i] = IF Moves(i) THEN 0 ELSE failures[i]
      /\ failed_at'[i] = IF Moves(i) THEN None ELSE failed_at[i]
  BY <1>2 DEF CollectDelivery, Collect
<1>4. CASE OnStep(Config[i], states[i], "Request")
  <2>1. /\ Unmoved(states[i], collected.rt)
        /\ collected.rt.next_retry_at = states[i].next_retry_at
        /\ collected.rt.retry_attempt = states[i].retry_attempt
        /\ collected.due # None => Reached(now, states[i].next_retry_at)
    BY <1>1, <1>2, <1>4, TickKeepsRequest
  <2> HIDE DEF collected
  <2>2. ~Moves(i)
    BY <1>3, <2>1 DEF Moves, Unmoved
  <2>3. states[i].next_retry_at \in Option(Int)
    BY <1>1 DEF RuntimeState
  <2>4. actions'[i] # None =>
          states[i].next_retry_at = None \/ states[i].next_retry_at <= 0
    BY <1>2, <1>3, <2>1, <2>3 DEF Reached, Option
  <2> QED
    BY <1>1, <1>3, <1>4, <2>1, <2>2, <2>4 DEF SpacedStep, Spaced
<1>5. CASE ~OnStep(Config[i], states[i], "Request")
  <2>1. Untried(states'[i]) \/ Unmoved(states[i], states'[i])
    BY <1>1, <1>2, <1>3, CollectFresh
  <2> HIDE DEF collected
  <2>2. CASE Moves(i)
    <3>1. Untried(states'[i])
      BY <2>1, <2>2 DEF Moves, Unmoved
    <3> QED
      BY <1>3, <2>2, <3>1 DEF Untried, SpacedStep, Spaced
  <2>3. CASE ~Moves(i)
    <3>1. ~OnStep(Config[i], states'[i], "Request")
      BY <1>5, <2>3, SameStep DEF Moves
    <3> QED
      BY <3>1 DEF SpacedStep, Spaced
  <2> QED
    BY <2>2, <2>3
<1> QED
  BY <1>4, <1>5

LEMMA RecordSpaced ==
  ASSUME IInv, NearInv, SpacedInv, RecordDelivery, NEW j \in States
  PROVE  SpacedStep(j)
<1>1. PICK i \in States :
        /\ IsNext(i)
        /\ states' = [states EXCEPT ![i] =
                        Recorded(Config[i], states[i], actions[i], outcome, now)]
        /\ actions' = [actions EXCEPT ![i] = None]
  BY DEF RecordDelivery, Record
<1>2. /\ failures' = [failures EXCEPT ![i] =
                        IF Moves(i) THEN 0
                        ELSE IF outcome = "Failure" THEN SaturatingIncrement(failures[i])
                        ELSE failures[i]]
      /\ failed_at' = [failed_at EXCEPT ![i] =
                         IF Moves(i) THEN None
                         ELSE IF outcome = "Failure" THEN now
                         ELSE failed_at[i]]
  BY <1>1, OneIsNext DEF RecordDelivery
<1>3. /\ StateOK(Config[i], states[i]) /\ states[i] \in RuntimeState
      /\ Config[i] \in StateConfigs /\ validate(Config[i])
      /\ Spaced(Config[i], states[i], failures[i], failed_at[i], actions[i])
  BY StatesTyped, ConfigOK DEF IInv, TypeOK, SpacedInv
<1>4. now \in Int /\ now <= 0 /\ actions[i] \in DueAction
  BY <1>1, NoneAssumption DEF IInv, TypeOK, Control, RecordDelivery, Record, IsNext,
                              Option, NearInv
<1>5. Concerns(states[i], actions[i].target, actions[i].step_index)
  BY <1>1 DEF IInv, DueActionsAreCurrent, IsNext
<1> DEFINE next == Recorded(Config[i], states[i], actions[i], outcome, now)
<1>6. CASE j # i
  <2>1. /\ states'[j] = states[j] /\ actions'[j] = actions[j]
        /\ failures'[j] = failures[j] /\ failed_at'[j] = failed_at[j]
    BY <1>1, <1>2, <1>6 DEF IInv, TypeOK, SpacedInv
  <2> QED
    BY <2>1 DEF SpacedStep, SpacedInv
<1>7. CASE j = i
  <2>1. states'[i] = next /\ actions'[i] = None
    BY <1>1 DEF IInv, TypeOK
  <2>2. /\ failures'[i] = IF Moves(i) THEN 0
                          ELSE IF outcome = "Failure" THEN SaturatingIncrement(failures[i])
                          ELSE failures[i]
        /\ failed_at'[i] = IF Moves(i) THEN None
                           ELSE IF outcome = "Failure" THEN now
                           ELSE failed_at[i]
    BY <1>2 DEF SpacedInv
  <2>3. Untried(next) \/ Unmoved(states[i], next)
    BY <1>3, RecordFresh
  <2>4. CASE Moves(i)
    <3> HIDE DEF next
    <3>1. Untried(next)
      BY <2>1, <2>3, <2>4 DEF Moves, Unmoved
    <3> QED
      BY <1>7, <2>1, <2>2, <2>4, <3>1 DEF Untried, SpacedStep, Spaced
  <2>5. CASE ~Moves(i) /\ OnStep(Config[i], states[i], "Request")
    <3>1. outcome = "Failure"
      <4>1. Unmoved(states[i], next) <=> outcome # "Success"
        BY <1>3, <1>4, <1>5, <2>5, RecordRequest
      <4>2. Moved(Config[i], states[i], next)
        BY <1>3, <1>4, RecordOne
      <4>3. Unmoved(states[i], next)
        <5> HIDE DEF next
        <5>1. states[i].action_step_index \in Nat
          BY <1>3 DEF RuntimeState
        <5> QED
          BY <2>1, <2>5, <4>2, <5>1, NoneAssumption
             DEF Moves, Moved, Advanced, Finished, Begun
      <4>4. outcome # "Pending" /\ outcome \in ActionOutcome
        BY <1>1, <2>5 DEF SpacedInv, PollsArePending, RecordDelivery, Record
      <4> QED
        BY <4>1, <4>3, <4>4 DEF ActionOutcome
    <3>2. next = AfterFailure(states[i], now)
      BY <1>5, <2>5, <3>1
         DEF Recorded, wait_timed_out, WaitExpired, OnStep, record_action_result
    <3> HIDE DEF next
    <3> DEFINE attempt == states[i].retry_attempt
    <3>3. /\ next.retry_attempt = SaturatingIncrement(attempt)
          /\ next.next_retry_at = now + backoff(attempt)
      BY <1>3, <3>2 DEF AfterFailure, RuntimeState
    <3>4. attempt \in 0 .. MaxAttempt
      BY <1>3 DEF RuntimeState
    <3>5. /\ SaturatingIncrement(attempt) \in Nat \ {0}
          /\ backoff(attempt) \in Nat
          /\ RetryDelay(SaturatingIncrement(attempt)) <= backoff(attempt)
          /\ RetryDelay(SaturatingIncrement(attempt)) \in Nat
      BY <3>4, BackoffDocumented, DelayBounds
    <3>6. failures'[i] = SaturatingIncrement(attempt) /\ failed_at'[i] = now
      BY <1>3, <2>2, <2>5, <3>1 DEF Spaced
    <3> HIDE DEF attempt
    <3>7. /\ next.next_retry_at \in Int
          /\ next.next_retry_at
               >= now + RetryDelay(SaturatingIncrement(attempt))
      BY <1>4, <3>3, <3>5
    <3> QED
      BY <1>4, <1>7, <2>1, <3>3, <3>6, <3>7 DEF SpacedStep, Spaced
  <2>6. CASE ~Moves(i) /\ ~OnStep(Config[i], states[i], "Request")
    <3>1. ~OnStep(Config[i], states'[i], "Request")
      BY <2>6, SameStep DEF Moves
    <3> QED
      BY <1>7, <3>1 DEF SpacedStep, Spaced
  <2> QED
    BY <2>4, <2>5, <2>6
<1> QED
  BY <1>6, <1>7

LEMMA QuietSpaced ==
  ASSUME IInv, SpacedInv, ElapseDelivery \/ OtherDelivery \/ UNCHANGED <<vars, deliveryVars>>,
         NEW i \in States
  PROVE  SpacedStep(i)
<1>1. /\ StateOK(Config[i], states[i]) /\ states[i] \in RuntimeState
      /\ failures[i] \in 0 .. MaxAttempt
      /\ failed_at[i] \in Option(Int)
      /\ actions[i] \in Option(DueAction)
      /\ Spaced(Config[i], states[i], failures[i], failed_at[i], actions[i])
  BY StatesTyped DEF IInv, TypeOK, SpacedInv
<1>2. CASE ElapseDelivery
  <2>1. /\ states'[i] = OlderState(states[i])
        /\ actions'[i] = OlderAction(actions[i])
        /\ failures'[i] = failures[i]
        /\ failed_at'[i] = Older(failed_at[i])
    BY <1>2 DEF ElapseDelivery, Elapse
  <2> QED
    BY <1>1, <2>1, OlderSpaced DEF SpacedStep
<1>3. ASSUME NEW sample \in Samples, ObserveSample(sample), OtherDelivery
      PROVE  SpacedStep(i)
  <2>1. /\ states'[i] = observe_sample(Config[i], states[i], sample, 0)
        /\ actions' = actions
        /\ failures' = failures /\ failed_at' = failed_at
    BY <1>3 DEF ObserveSample, OtherDelivery, deliveryVars, task
  <2>2. /\ states'[i].pending_target_state = states[i].pending_target_state
        /\ states'[i].action_step_index = states[i].action_step_index
        /\ states'[i].retry_attempt = states[i].retry_attempt
        /\ states'[i].next_retry_at = states[i].next_retry_at
    BY <1>1, <2>1 DEF observe_sample, RuntimeState
  <2> QED
    BY <1>1, <2>1, <2>2, KeptSpaced DEF SpacedStep
<1>4. CASE UNCHANGED <<states, actions, failures, failed_at>>
  BY <1>1, <1>4 DEF SpacedStep
<1>5. \/ ElapseDelivery
      \/ OtherDelivery /\ \E sample \in Samples : ObserveSample(sample)
      \/ UNCHANGED <<states, actions, failures, failed_at>>
  BY DEF OtherDelivery, TakeTick, Send, SkipSend, Answer, Stop, Cancel, task, vars,
         deliveryVars
<1> QED
  BY <1>2, <1>3, <1>4, <1>5

\* The memory of failures is of its type.
LEMMA FailuresTyped ==
  ASSUME IInv, SpacedInv, [DeliveryNext]_<<vars, deliveryVars>>
  PROVE  /\ failures' \in [States -> 0 .. MaxAttempt]
         /\ failed_at' \in [States -> Option(Int)]
<1>1. /\ failures \in [States -> 0 .. MaxAttempt]
      /\ failed_at \in [States -> Option(Int)]
      /\ now \in Option(Int)
  BY DEF IInv, TypeOK, SpacedInv
<1>2. CASE RecordDelivery
  <2>1. PICK i \in States :
          /\ failures' = [failures EXCEPT ![i] =
                            IF Moves(i) THEN 0
                            ELSE IF outcome = "Failure" THEN SaturatingIncrement(@)
                            ELSE @]
          /\ failed_at' = [failed_at EXCEPT ![i] =
                             IF Moves(i) THEN None
                             ELSE IF outcome = "Failure" THEN now
                             ELSE @]
    BY <1>2 DEF RecordDelivery
  <2>2. SaturatingIncrement(failures[i]) \in 0 .. MaxAttempt
    BY <1>1, FieldValues
  <2> QED
    BY <1>1, <2>1, <2>2, FieldValues
<1>3. CASE CollectDelivery
  BY <1>1, <1>3, FieldValues DEF CollectDelivery
<1>4. CASE ElapseDelivery
  <2>1. \A i \in States : Older(failed_at[i]) \in Option(Int)
    BY <1>1, OlderInstant
  <2> QED
    BY <1>1, <1>4, <2>1 DEF ElapseDelivery
<1>5. CASE OtherDelivery \/ UNCHANGED <<vars, deliveryVars>>
  BY <1>1, <1>5 DEF OtherDelivery, deliveryVars
<1> QED
  BY <1>2, <1>3, <1>4, <1>5 DEF DeliveryNext

\* Only a poll is answered with "pending" (execute_wait_for_json in http.rs).
LEMMA NextPollsArePending ==
  ASSUME IInv, PollsArePending, [Next]_vars
  PROVE  PollsArePending'
<1>1. CASE Elapse
  <2>1. \A i \in States : Unmoved(states[i], states'[i])
                          /\ (actions'[i] = None <=> actions[i] = None)
    BY <1>1, StatesTyped, OlderOne, OlderDue DEF IInv, TypeOK, Elapse
  <2>2. \A i \in States :
          /\ IsNext(i)' => IsNext(i)
          /\ OnStep(Config[i], states'[i], "Request")
               => OnStep(Config[i], states[i], "Request")
    BY <2>1, SameStep DEF IsNext, Unmoved
  <2> QED
    BY <1>1, <2>2 DEF PollsArePending, Elapse
<1>2. ASSUME NEW sample \in Samples, ObserveSample(sample)
      PROVE  PollsArePending'
  <2>1. \A i \in States : Unmoved(states[i], states'[i])
    BY <1>2, StatesTyped, ConfigOK, ObserveOne DEF IInv, TypeOK, ObserveSample
  <2>2. \A i \in States :
          OnStep(Config[i], states'[i], "Request")
            => OnStep(Config[i], states[i], "Request")
    BY <2>1, SameStep DEF Unmoved
  <2> QED
    BY <1>2, <2>2 DEF PollsArePending, ObserveSample, task, IsNext
<1>3. CASE Collect \/ Record
  <2>1. pc' # "recording"
    BY <1>3 DEF Collect, Record, AfterRecording
  <2> QED
    BY <2>1 DEF PollsArePending
<1>4. CASE TakeTick \/ Send \/ Stop
  BY <1>4 DEF TakeTick, Send, Stop, PollsArePending
<1>5. CASE SkipSend
  BY <1>5 DEF SkipSend, PollsArePending, ActionOutcome
<1>6. ASSUME NEW result \in ActionOutcome, Answer(result)
      PROVE  PollsArePending'
  <2>1. outcome' = result /\ states' = states /\ actions' = actions
    BY <1>6 DEF Answer
  <2>2. ASSUME NEW i \in States, IsNext(i), result = "Pending"
        PROVE  ~OnStep(Config[i], states[i], "Request")
    <3>1. action(Config[i].to[actions[i].target], actions[i].step_index).type
            = "WaitForJson"
      BY <1>6, <2>2, OneIsNext DEF Answer
    <3>2. Concerns(states[i], actions[i].target, actions[i].step_index)
      BY <2>2 DEF IInv, DueActionsAreCurrent, IsNext
    <3> QED
      BY <3>1, <3>2 DEF OnStep, current_action, Concerns
  <2> QED
    BY <2>1, <2>2 DEF PollsArePending, IsNext
<1>7. CASE Cancel \/ UNCHANGED vars
  BY <1>7 DEF Cancel, task, vars, PollsArePending, IsNext
<1> QED
  BY <1>1, <1>2, <1>3, <1>4, <1>5, <1>6, <1>7 DEF Next, TickTask

LEMMA InitSpaced == DeliveryInit => SpacedInv
BY FieldValues DEF DeliveryInit, Init, NewRuntimeState, NoActions, SpacedInv, Spaced, OnStep,
                   PollsArePending

LEMMA NextSpaced ==
  IInv /\ NearInv /\ SpacedInv /\ [DeliveryNext]_<<vars, deliveryVars>> => SpacedInv'
<1> SUFFICES ASSUME IInv, NearInv, SpacedInv, [DeliveryNext]_<<vars, deliveryVars>>
             PROVE  SpacedInv'
  OBVIOUS
<1>1. PollsArePending'
  BY DeliveryStep, NextPollsArePending DEF SpacedInv
<1>2. ASSUME NEW i \in States
      PROVE  SpacedStep(i)
  BY CollectSpaced, RecordSpaced, QuietSpaced DEF DeliveryNext
<1> QED
  BY <1>1, <1>2, FailuresTyped DEF SpacedInv, SpacedStep

-----------------------------------------------------------------------------
\* What is proved.

\* However long a request took, whatever was read from the clock before it and
\* however often it has failed, the next attempt of a state is at most retry_max
\* away, or poll_every when that is longer (backoff, record_action_result and
\* record_wait_timeout in machine.rs).
THEOREM RetriesAreNear == DeliverySpec => []RetryIsNear
<1>1. DeliveryInit => IInv /\ NearInv
  BY InitIInv, InitNear DEF DeliveryInit
<1>2. IInv /\ NearInv /\ [DeliveryNext]_<<vars, deliveryVars>> => IInv' /\ NearInv'
  BY DeliveryStep, NextIInv, NextNear
<1>3. NearInv => RetryIsNear
  BY DEF NearInv, Near, Limit, RetryIsNear
<1> QED
  BY <1>1, <1>2, <1>3, PTL DEF DeliverySpec

\* A state becomes applied only when each request of its sequence has been
\* answered with success since the sequence began, whatever was lost, late,
\* retried or timed out meanwhile (advance_step, record_action_result and
\* record_wait_timeout in machine.rs).
THEOREM AppliedIsDelivered == DeliverySpec => AppliedMeansDelivered
<1> DEFINE Applies ==
      \A i \in States :
        /\ states[i].pending_target_state # None
        /\ states'[i].pending_target_state = None
        => Requests(i, states[i].pending_target_state) \subseteq succeeded'[i]
<1>1. IInv /\ DeliveredInv /\ [DeliveryNext]_<<vars, deliveryVars>> => Applies
  BY NextDelivers DEF DeliveredStep
<1>2. IInv /\ DeliveredInv /\ [DeliveryNext]_<<vars, deliveryVars>>
        => [Applies]_<<vars, deliveryVars>>
  BY <1>1
<1> HIDE DEF Applies
<1>3. DeliverySpec => [][Applies]_<<vars, deliveryVars>>
  BY <1>2, DeliveryInvariant, PTL DEF DeliverySpec
<1> QED
  BY <1>3 DEF Applies, AppliedMeansDelivered

\* A request is sent after all the requests before it have succeeded, and not
\* again once it has (collect_due_actions in engine.rs, run_state_tick in
\* main.rs).
THEOREM RequestsInOrderAndOnce == DeliverySpec => SentInOrderAndOnce
<1>1. IInv /\ DeliveredInv => \A i \in States : RequestInOrder(i)
  <2> SUFFICES ASSUME IInv, DeliveredInv, NEW i \in States, Sends(i)
               PROVE  LET due == actions[i]
                      IN succeeded[i] \cap Requests(i, due.target)
                           = {k \in Requests(i, due.target) : k < due.step_index}
    BY DEF RequestInOrder
  <2>1. /\ actions[i] \in DueAction
        /\ Concerns(states[i], actions[i].target, actions[i].step_index)
    BY DEF IInv, TypeOK, DueActionsAreCurrent, Sends, IsNext, Option
  <2>2. /\ states[i].pending_target_state = actions[i].target
        /\ states[i].pending_target_state # None
        /\ states[i].action_step_index = actions[i].step_index
    BY <2>1, NoneAssumption DEF Concerns, DueAction
  <2>3. \A k \in Requests(i, actions[i].target) :
          k \in succeeded[i] <=> k < actions[i].step_index
    BY <2>2 DEF DeliveredInv, Delivered
  <2> QED
    BY <2>3
<1>2. IInv /\ DeliveredInv /\ [DeliveryNext]_<<vars, deliveryVars>>
        => [\A i \in States : RequestInOrder(i)]_<<vars, deliveryVars>>
  BY <1>1
<1> QED
  BY <1>2, DeliveryInvariant, PTL DEF DeliverySpec, SentInOrderAndOnce

\* For every unit of time, retry_initial and retry_max that the validator lets
\* pass: a request that has failed n times is sent again no sooner than the n-th
\* delay of the documented table after the failure (the eleventh once n is past
\* it), however late the answers, the clock and the lock were and whatever came in
\* between (backoff, record_action_result and due_sequence_step in machine.rs).
THEOREM RetriesKeepTheirDelay == DeliverySpec => RetriesAreSpaced
<1> DEFINE Spacing == \A i \in States : HasWaited(i, RetryDelay(failures[i]))
<1>1. IInv /\ SpacedInv => Spacing
  <2> SUFFICES ASSUME IInv, SpacedInv, NEW i \in States, Sends(i), failures[i] > 0,
                      actions[i].step_index \in Requests(i, actions[i].target)
               PROVE  0 - failed_at[i] >= RetryDelay(failures[i])
    BY DEF HasWaited
  <2>1. /\ actions[i] \in DueAction /\ actions[i] # None
        /\ Concerns(states[i], actions[i].target, actions[i].step_index)
        /\ StateOK(Config[i], states[i])
        /\ failures[i] \in Nat
    BY StatesTyped, MaxAttemptAssumption
       DEF IInv, TypeOK, DueActionsAreCurrent, Sends, IsNext, Option, SpacedInv
  <2>2. /\ states[i].pending_target_state = actions[i].target
        /\ states[i].pending_target_state # None
        /\ states[i].action_step_index = actions[i].step_index
    BY <2>1, NoneAssumption DEF Concerns, DueAction
  <2>3. OnStep(Config[i], states[i], "Request")
    BY <2>1, <2>2, OnRequest
  <2>4. /\ failed_at[i] \in Int
        /\ \/ failed_at[i] <= -Horizon
           \/ /\ states[i].next_retry_at \in Int
              /\ states[i].next_retry_at >= failed_at[i] + RetryDelay(failures[i])
        /\ states[i].next_retry_at = None \/ states[i].next_retry_at <= 0
    BY <2>1, <2>3 DEF SpacedInv, Spaced
  <2>5. /\ RetryDelay(failures[i]) \in Nat
        /\ RetryDelay(failures[i]) <= RetryMax
    BY <2>1, DelayBounds
  <2> QED
    BY <2>4, <2>5, NoneAssumption, BoundsAssumption, RetryAssumption,
       RetryHorizonAssumption
<1>2. DeliveryInit => IInv /\ NearInv /\ SpacedInv
  BY InitIInv, InitNear, InitSpaced DEF DeliveryInit
<1>3. IInv /\ NearInv /\ SpacedInv /\ [DeliveryNext]_<<vars, deliveryVars>>
        => IInv' /\ NearInv' /\ SpacedInv'
  BY DeliveryStep, NextIInv, NextNear, NextSpaced
<1>4. IInv /\ SpacedInv /\ [DeliveryNext]_<<vars, deliveryVars>>
        => [Spacing]_<<vars, deliveryVars>>
  BY <1>1
<1> HIDE DEF Spacing
<1>5. DeliverySpec => [][Spacing]_<<vars, deliveryVars>>
  BY <1>2, <1>3, <1>4, PTL DEF DeliverySpec
<1> QED
  BY <1>5 DEF Spacing, RetriesAreSpaced
=============================================================================

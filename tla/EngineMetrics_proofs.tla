------------------------- MODULE EngineMetrics_proofs -------------------------
(***************************************************************************)
(* What the gauges of the states show and their counters count, for every    *)
(* configuration that Config::validate accepts, any number of states, any    *)
(* samples and every bound.                                                 *)
(***************************************************************************)
EXTENDS EngineMetrics, StateEngine_proofs

-----------------------------------------------------------------------------
\* The methods of RuntimeState.

\* What the gauges show of a state.
SameShown(rt, next) ==
  /\ next.stale = rt.stale
  /\ next.ambiguous = rt.ambiguous
  /\ next.desired_state = rt.desired_state
  /\ next.applied_state = rt.applied_state
  /\ next.pending_target_state = rt.pending_target_state
  /\ next.action_step_index = rt.action_step_index

LEMMA OlderShown ==
  ASSUME NEW rt \in RuntimeState
  PROVE  SameShown(rt, OlderState(rt))
BY DEF OlderState, RuntimeState, SameShown

LEMMA ObserveShown ==
  ASSUME NEW config \in StateConfigs, NEW rt \in RuntimeState, NEW sample \in Samples
  PROVE  LET next == observe_sample(config, rt, sample, 0)
         IN /\ SameShown(rt, next)
            /\ next.latest_value = IF sample.serial = config.serial
                                   THEN sample.value[config.field]
                                   ELSE rt.latest_value
BY DEF observe_sample, RuntimeState, SameShown

\* A wait expires with its step and the start of it alone.
LEMMA SameWait ==
  ASSUME NEW config, NEW rt, NEW next, Unmoved(rt, next),
         next.step_started_at = rt.step_started_at, NEW at
  PROVE  /\ WaitExpired(config, next, at) <=> WaitExpired(config, rt, at)
         /\ \A type : OnStep(config, next, type) <=> OnStep(config, rt, type)
BY DEF Unmoved, WaitExpired, OnStep, current_action

\* A step is decided to have timed out exactly if it is a wait whose window is
\* over (due_sequence_step).
LEMMA StepTimesOut ==
  ASSUME NEW config, NEW rt, NEW at
  PROVE  StepDecision(config, rt, at) = "WaitTimedOut" <=> WaitExpired(config, rt, at)
BY DEF StepDecision, WaitExpired, OnStep

\* So it is with the decision of a tick.
LEMMA TickTimesOut ==
  ASSUME NEW config \in StateConfigs, validate(config),
         NEW rt, StateOK(config, rt), NEW at \in Int
  PROVE  tick(config, rt, at).decision = "WaitTimedOut" <=> WaitExpired(config, rt, at)
<1> DEFINE decided == tick(config, rt, at)
<1>1. DecisionOK(config, rt, decided)
  BY Tick
<1>2. CASE rt.pending_target_state = None \/ OnStep(config, rt, "Delay")
  <2>1. ~OnStep(config, rt, "WaitForJson")
    BY <1>2 DEF OnStep
  <2>2. ASSUME decided.decision = "WaitTimedOut" PROVE FALSE
    <3>1. Unmoved(rt, decided.rt) /\ OnStep(config, decided.rt, "WaitForJson")
      BY <1>1, <2>2 DEF DecisionOK
    <3> HIDE DEF decided
    <3>2. OnStep(config, rt, "WaitForJson")
      BY <3>1 DEF Unmoved, OnStep, current_action
    <3> QED
      BY <2>1, <3>2
  <2> QED
    BY <2>1, <2>2 DEF WaitExpired
<1>3. CASE rt.pending_target_state # None /\ ~OnStep(config, rt, "Delay")
  <2> DEFINE stale == IF rt.latest_sample_at = None THEN rt.stale
                      ELSE IsStale(config, rt, at)
             aged == [rt EXCEPT !.stale = stale]
  <2>1. rt \in RuntimeState
    BY DEF StateOK
  <2>2. /\ Unmoved(rt, aged)
        /\ aged.step_started_at = rt.step_started_at
        /\ aged.pending_target_state = rt.pending_target_state
    BY <2>1 DEF RuntimeState, Unmoved
  <2>3. decided = due_attempt(config, aged, at)
    BY <1>3 DEF tick
  <2> HIDE DEF aged, decided
  <2>4. decided = due_sequence_step(config, aged, at)
    BY <1>3, <2>2, <2>3 DEF due_attempt
  <2>5. ~OnStep(config, aged, "Delay")
    BY <1>3, <2>2, SameWait
  <2>6. decided = Decided(aged, StepDecision(config, aged, at))
    BY <2>4, <2>5 DEF due_sequence_step
  <2>7. decided.decision = StepDecision(config, aged, at)
    BY <2>6 DEF Decided
  <2> QED
    BY <2>2, <2>7, SameWait, StepTimesOut DEF decided
<1> QED
  BY <1>2, <1>3

\* Once its timeout is recorded a wait is over or has a window to come
\* (record_wait_timeout).
LEMMA TimeoutEndsWindow ==
  ASSUME NEW config \in StateConfigs, validate(config),
         NEW rt, StateOK(config, rt), NEW at \in Int, OnStep(config, rt, "WaitForJson")
  PROVE  ~WaitExpired(config,
            record_wait_timeout(config, rt, rt.pending_target_state,
                                rt.action_step_index, at), at)
<1> DEFINE next == record_wait_timeout(config, rt, rt.pending_target_state,
                                       rt.action_step_index, at)
<1>1. rt \in RuntimeState /\ Running(config, rt)
  BY DEF StateOK, OnStep, Idle
<1>2. CASE current_action(config, rt).on_timeout = "Continue"
  <2>1. next = advance_step(config, rt, rt.pending_target_state, at)
    BY <1>2 DEF record_wait_timeout, Concerns
  <2>2. /\ StateOK(config, next)
        /\ next.pending_target_state # None => next.step_started_at = at
    BY <1>1, <2>1, AdvanceStep
  <2> HIDE DEF next
  <2>3. CASE next.pending_target_state = None
    BY <2>3 DEF WaitExpired, OnStep, next
  <2>4. CASE next.pending_target_state # None
    BY <2>2, <2>4, NotExpiredAtStart DEF next
  <2> QED
    BY <2>3, <2>4
<1>3. CASE current_action(config, rt).on_timeout # "Continue"
  <2> DEFINE retry_at == at + backoff(rt.retry_attempt)
  <2>1. next = NewWindow(rt, retry_at)
    BY <1>3 DEF record_wait_timeout, Concerns
  <2>2. rt.retry_attempt \in Nat
    BY <1>1, FieldValues DEF RuntimeState
  <2>3. retry_at \in Int /\ at <= retry_at
    BY <2>2, BackoffBounds
  <2> HIDE DEF retry_at
  <2>4. Unmoved(rt, next) /\ next.step_started_at = retry_at
    BY <1>1, <2>1 DEF NewWindow, Unmoved, RuntimeState
  <2> HIDE DEF next
  <2>5. current_action(config, next) = current_action(config, rt)
    BY <2>4 DEF Unmoved, current_action
  <2>6. current_action(config, rt).timeout \in Nat /\ current_action(config, rt).timeout >= Second
    BY <1>1, CurrentStep DEF OnStep, ActionStepConfig, ValidStep
  <2>7. DurationSinceOr(at, retry_at) = 0
    BY <2>3, NoneAssumption DEF DurationSinceOr, DurationSince
  <2> QED
    BY <2>4, <2>5, <2>6, <2>7, SecondAssumption DEF WaitExpired, next
<1> QED
  BY <1>2, <1>3

\* A move that changes what is applied applies the pending target.
LEMMA MoveApplies ==
  ASSUME NEW config, NEW rt, NEW next, Moved(config, rt, next),
         next.applied_state # rt.applied_state
  PROVE  next.applied_state # None /\ next.applied_state = rt.pending_target_state
BY NoneAssumption DEF Moved, Unmoved, Advanced, Finished, Begun

-----------------------------------------------------------------------------
\* The gauges.

\* The gauges of a state, but for the delay, which was right when it was set.
Shown(rt, delay) ==
  [stale |-> rt.stale,
   ambiguous |-> rt.ambiguous,
   desired |-> rt.desired_state,
   applied |-> rt.applied_state,
   pending |-> rt.pending_target_state # None,
   sequence_step |-> IF rt.pending_target_state = None THEN -1 ELSE rt.action_step_index,
   retry_delay |-> delay]

Shows(gauge, rt) ==
  \E delay \in Nat :
    /\ gauge = Shown(rt, delay)
    /\ delay > 0 => rt.pending_target_state # None

StateShown(i) ==
  /\ SampleOK(states[i])
  /\ input_value[i] = states[i].latest_value
  /\ gauges[i] # None => Shows(gauges[i], states[i])

\* What is added to IInv.
GaugesInv ==
  /\ gauges = [i \in States |-> gauges[i]]
  /\ \A i \in States : StateShown(i)

LEMMA SameGauges ==
  ASSUME NEW rt, NEW next, SameShown(rt, next), NEW gauge, Shows(gauge, rt)
  PROVE  Shows(gauge, next)
BY DEF SameShown, Shows, Shown

\* A delay is shown for a pending transition only (set_http_retry_delay).
LEMMA StatusShows ==
  ASSUME NEW config, NEW rt, StateOK(config, rt), NEW at \in Int
  PROVE  Shows(Status(rt, at), rt)
<1> DEFINE delay == IF rt.next_retry_at = None THEN 0
                    ELSE DurationSince(rt.next_retry_at, at)
<1>1. rt.next_retry_at \in Option(Int)
  BY DEF StateOK, RuntimeState
<1>2. delay \in Nat
  <2>1. CASE rt.next_retry_at = None
    BY <2>1
  <2>2. CASE rt.next_retry_at # None
    <3>1. rt.next_retry_at \in Int
      BY <1>1, <2>2 DEF Option
    <3> QED
      BY <2>2, <3>1 DEF DurationSince
  <2> QED
    BY <2>1, <2>2
<1>3. delay > 0 => rt.pending_target_state # None
  BY NoneAssumption DEF StateOK, Idle, Running
<1>4. Status(rt, at) = Shown(rt, delay)
  BY DEF Status, Shown
<1> HIDE DEF delay
<1> QED
  BY <1>2, <1>3, <1>4 DEF Shows

\* A sequence step is shown exactly while a transition is pending, which is
\* when desired and applied differ.
LEMMA ShownState ==
  ASSUME NEW config, NEW rt, StateOK(config, rt), NEW gauge, Shows(gauge, rt)
  PROVE  /\ [gauge EXCEPT !.retry_delay = 0] = [Status(rt, 0) EXCEPT !.retry_delay = 0]
         /\ gauge.pending = (gauge.desired # gauge.applied)
         /\ gauge.pending = (gauge.sequence_step # -1)
         /\ gauge.retry_delay > 0 => gauge.pending
<1>1. PICK delay \in Nat : /\ gauge = Shown(rt, delay)
                           /\ delay > 0 => rt.pending_target_state # None
  BY DEF Shows
<1>2. PICK delay0 : Status(rt, 0) = Shown(rt, delay0)
  BY DEF Status, Shown
<1>3. [gauge EXCEPT !.retry_delay = 0] = Shown(rt, 0)
  BY <1>1 DEF Shown
<1>4. [Status(rt, 0) EXCEPT !.retry_delay = 0] = Shown(rt, 0)
  BY <1>2 DEF Shown
<1>5. /\ gauge.pending = (rt.pending_target_state # None)
      /\ gauge.desired = rt.desired_state
      /\ gauge.applied = rt.applied_state
      /\ gauge.sequence_step = IF rt.pending_target_state = None THEN -1
                               ELSE rt.action_step_index
      /\ gauge.retry_delay = delay
  BY <1>1 DEF Shown
<1>6. (rt.pending_target_state # None) <=> (rt.desired_state # rt.applied_state)
  BY NoneAssumption DEF StateOK, Idle, Running
<1>7. rt.action_step_index \in Nat
  BY DEF StateOK, RuntimeState
<1>8. (rt.pending_target_state # None) <=> (gauge.sequence_step # -1)
  BY <1>5, <1>7
<1> QED
  BY <1>1, <1>3, <1>4, <1>5, <1>6, <1>8

LEMMA InitGauges == MetricsInit => GaugesInv
<1> SUFFICES ASSUME MetricsInit PROVE GaugesInv
  OBVIOUS
<1>1. \A i \in States : StateShown(i)
  BY DEF MetricsInit, Init, NewRuntimeState, StateShown, SampleOK
<1>2. gauges = [i \in States |-> gauges[i]]
  BY DEF MetricsInit
<1> QED
  BY <1>1, <1>2 DEF GaugesInv

LEMMA ObserveGauges ==
  ASSUME IInv, GaugesInv, NEW sample \in Samples, ObserveMetrics(sample)
  PROVE  GaugesInv'
<1>1. ASSUME NEW i \in States PROVE StateShown(i)'
  <2>1. states[i] \in RuntimeState /\ StateShown(i)
    BY StatesTyped DEF IInv, TypeOK, GaugesInv
  <2>2. /\ states'[i] = observe_sample(Config[i], states[i], sample, 0)
        /\ gauges'[i] = gauges[i]
        /\ input_value'[i] = IF sample.serial = Config[i].serial
                             THEN sample.value[Config[i].field] ELSE input_value[i]
    BY DEF ObserveMetrics, ObserveSample
  <2>3. /\ SameShown(states[i], states'[i])
        /\ SampleOK(states'[i])
        /\ states'[i].latest_value = IF sample.serial = Config[i].serial
                                     THEN sample.value[Config[i].field]
                                     ELSE states[i].latest_value
    <3>1. SampleOK(states[i])
      BY <2>1 DEF StateShown
    <3>2. SampleOK(states'[i])
      BY <2>1, <2>2, <3>1, ConfigOK, ObservedReading
    <3> QED
      BY <2>1, <2>2, <3>2, ConfigOK, ObserveShown
  <2> QED
    BY <2>1, <2>2, <2>3, SameGauges DEF StateShown
<1>2. gauges' = [i \in States |-> gauges'[i]]
  BY DEF ObserveMetrics, GaugesInv
<1> QED
  BY <1>1, <1>2 DEF GaugesInv

LEMMA CollectGauges ==
  ASSUME IInv, GaugesInv, CollectMetrics
  PROVE  GaugesInv'
<1>1. Collect /\ now \in Int
  BY DEF CollectMetrics, IInv, Control, Collect
<1>2. IInv'
  BY <1>1, CollectIInv
<1>3. ASSUME NEW i \in States PROVE StateShown(i)'
  <2>1. /\ StateOK(Config[i], states[i]) /\ StateOK(Config[i], states'[i])
        /\ Config[i] \in StateConfigs /\ validate(Config[i])
        /\ StateShown(i)
    BY <1>2, ConfigOK DEF IInv, StatesOK, GaugesInv
  <2>2. /\ states'[i] = Collected(Config[i], states[i], now).rt
        /\ gauges'[i] = Status(states'[i], now)
        /\ input_value'[i] = input_value[i]
    BY <1>1 DEF CollectMetrics, Collect
  <2>3. SameSample(states[i], states'[i])
    BY <1>1, <2>1, <2>2, CollectTimes DEF StateShown, SampleOK
  <2>4. Shows(gauges'[i], states'[i])
    BY <1>1, <2>1, <2>2, StatusShows
  <2> QED
    BY <2>1, <2>2, <2>3, <2>4 DEF StateShown, SameSample, SampleOK
<1>4. gauges' = [i \in States |-> gauges'[i]]
  BY DEF CollectMetrics
<1> QED
  BY <1>3, <1>4 DEF GaugesInv

\* What is recorded is recorded for the next of the due actions.
LEMMA RecordNext ==
  ASSUME IInv, Record, NEW i \in States, IsNext(i)
  PROVE  /\ states'[i] = Recorded(Config[i], states[i], actions[i], outcome, now)
         /\ \A j \in States : j # i => states'[j] = states[j]
         /\ now \in Int
         /\ actions[i] \in DueAction
         /\ Concerns(states[i], actions[i].target, actions[i].step_index)
         /\ states[i].pending_target_state \in BinaryState
<1>1. PICK k \in States :
        /\ IsNext(k)
        /\ states' = [states EXCEPT ![k] =
                        Recorded(Config[k], states[k], actions[k], outcome, now)]
  BY DEF Record
<1>2. k = i
  BY <1>1, OneIsNext
<1>3. now \in Int
  BY DEF IInv, Control, Record
<1>4. actions[i] \in DueAction /\ actions[i] # None
  BY DEF IInv, TypeOK, IsNext, Option
<1>5. Concerns(states[i], actions[i].target, actions[i].step_index)
  BY <1>4 DEF IInv, DueActionsAreCurrent
<1>6. states[i].pending_target_state \in BinaryState
  BY <1>4, <1>5 DEF Concerns, DueAction
<1> QED
  BY <1>1, <1>2, <1>3, <1>4, <1>5, <1>6 DEF IInv, TypeOK

LEMMA RecordGauges ==
  ASSUME IInv, GaugesInv, RecordMetrics
  PROVE  GaugesInv'
<1>1. Record
  BY DEF RecordMetrics
<1>2. PICK i \in States :
        IsNext(i) /\ gauges' = [gauges EXCEPT ![i] = Status(states'[i], now)]
  BY DEF RecordMetrics
<1>3. /\ states'[i] = Recorded(Config[i], states[i], actions[i], outcome, now)
      /\ \A j \in States : j # i => states'[j] = states[j]
      /\ now \in Int
      /\ states[i].pending_target_state \in BinaryState
  BY <1>1, <1>2, RecordNext
<1>4. StateOK(Config[i], states'[i]) /\ states[i] \in RuntimeState
  BY <1>1, RecordIInv, StatesTyped DEF IInv, TypeOK, StatesOK
<1>5. input_value' = input_value
  BY DEF RecordMetrics
<1>6. gauges' = [j \in States |-> IF j = i THEN Status(states'[i], now) ELSE gauges[j]]
  BY <1>2 DEF GaugesInv
<1>7. StateShown(i)'
  <2>1. SameSample(states[i], states'[i])
    BY <1>3, <1>4, RecordTimes DEF Went
  <2>2. Shows(gauges'[i], states'[i])
    BY <1>3, <1>4, <1>6, StatusShows
  <2>3. StateShown(i)
    BY DEF GaugesInv
  <2> QED
    BY <1>5, <2>1, <2>2, <2>3 DEF StateShown, SameSample, SampleOK
<1>8. ASSUME NEW j \in States, j # i PROVE StateShown(j)'
  <2>1. StateShown(j)
    BY DEF GaugesInv
  <2> QED
    BY <1>3, <1>5, <1>6, <1>8, <2>1 DEF StateShown
<1>9. gauges' = [j \in States |-> gauges'[j]]
  BY <1>6
<1> QED
  BY <1>7, <1>8, <1>9 DEF GaugesInv

LEMMA OtherGauges ==
  ASSUME IInv, GaugesInv, NoMetrics \/ UNCHANGED metricsVars
  PROVE  GaugesInv'
<1>1. gauges' = gauges /\ input_value' = input_value
  BY DEF NoMetrics, metricsVars, metrics
<1>2. Elapse \/ states' = states
  BY DEF NoMetrics, metricsVars, vars, TakeTick, Send, SkipSend, Stop, Cancel, Answer
<1>3. ASSUME NEW i \in States PROVE StateShown(i)'
  <2>1. states[i] \in RuntimeState /\ StateShown(i)
    BY StatesTyped DEF IInv, TypeOK, GaugesInv
  <2>2. CASE Elapse
    <3>1. states'[i] = OlderState(states[i])
      BY <2>2 DEF Elapse
    <3>2. /\ SameShown(states[i], states'[i])
          /\ SampleOK(states'[i])
          /\ states'[i].latest_value = states[i].latest_value
      BY <2>1, <3>1, OlderShown, OlderReading DEF StateShown
    <3> QED
      BY <1>1, <2>1, <3>2, SameGauges DEF StateShown
  <2>3. CASE states' = states
    BY <1>1, <2>1, <2>3 DEF StateShown
  <2> QED
    BY <1>2, <2>2, <2>3
<1> QED
  BY <1>1, <1>3 DEF GaugesInv

\* The metrics constrain nothing.
LEMMA MetricsStep == [MetricsNext]_metricsVars => [Next]_vars
BY DEF MetricsNext, metricsVars, ObserveMetrics, CollectMetrics, RecordMetrics,
       NoMetrics, Next, TickTask

LEMMA MetricsInductive == MetricsSpec => [](IInv /\ GaugesInv)
<1>1. MetricsInit => IInv /\ GaugesInv
  BY InitIInv, InitGauges DEF MetricsInit
<1>2. IInv /\ GaugesInv /\ [MetricsNext]_metricsVars => (IInv /\ GaugesInv)'
  BY MetricsStep, NextIInv, ObserveGauges, CollectGauges, RecordGauges, OtherGauges
     DEF MetricsNext
<1> QED
  BY <1>1, <1>2, PTL DEF MetricsSpec

\* The gauges never show a state the engine is not in: what observe_sample, the
\* tick, a timeout and a result leave behind is what was set last
\* (collect_due_actions and record_action_result in engine.rs).
THEOREM GaugesAreTrue == MetricsSpec => []GaugesShowTheState
<1>1. IInv /\ GaugesInv => GaugesShowTheState
  <2> SUFFICES ASSUME IInv, GaugesInv, NEW i \in States
               PROVE  /\ input_value[i] = states[i].latest_value
                      /\ gauges[i] # None =>
                           /\ [gauges[i] EXCEPT !.retry_delay = 0]
                                = [Status(states[i], 0) EXCEPT !.retry_delay = 0]
                           /\ gauges[i].pending = (gauges[i].desired # gauges[i].applied)
                           /\ gauges[i].pending = (gauges[i].sequence_step # -1)
                           /\ gauges[i].retry_delay > 0 => gauges[i].pending
    BY DEF GaugesShowTheState
  <2>1. StateOK(Config[i], states[i]) /\ StateShown(i)
    BY DEF IInv, StatesOK, GaugesInv
  <2> QED
    BY <2>1, ShownState DEF StateShown
<1> QED
  BY <1>1, MetricsInductive, PTL

-----------------------------------------------------------------------------
\* The counters.

\* What CountersCountEverything says of one state in one step.
Counted(i) ==
  LET expired == Deciding(i) /\ pc' # pc /\ WaitExpired(Config[i], states[i], now)
      timeouts == {c \in incremented'[i] : c.counter = "action_wait_timeouts"}
      transitions == {c \in incremented'[i] : c.counter = "state_transitions"}
  IN /\ expired = (timeouts # {})
     /\ expired => ~WaitExpired(Config[i], states'[i], now)
     /\ states'[i].applied_state # states[i].applied_state
          => transitions = {Transition(states'[i].applied_state)}
     /\ transitions # {} => states'[i].applied_state # states[i].applied_state

\* The counters tell a timeout, a transition and an attempt apart.
LEMMA CounterNames ==
  /\ \A target : /\ Transition(target).counter = "state_transitions"
                 /\ WaitTimeout(target).counter = "action_wait_timeouts"
  /\ \A target, success : Attempt(target, success).counter = "http_attempts"
BY DEF Transition, WaitTimeout, Attempt

\* What a call increments beside others: a timeout, and what it has applied.
Counts(others, timed_out, target, before, after) ==
  others \cup {WaitTimeout(t) : t \in IF timed_out THEN {target} ELSE {}}
         \cup {Transition(t) : t \in {after} \ {None, before}}

\* There is a timeout among them exactly if one was found, and a transition
\* exactly if something else is applied.
LEMMA SplitCounters ==
  ASSUME NEW others, NEW timed_out \in BOOLEAN, NEW target, NEW before, NEW after,
         after # before => after # None,
         \A c \in others : c.counter = "http_attempts"
  PROVE  LET counters == Counts(others, timed_out, target, before, after)
         IN /\ timed_out = ({c \in counters : c.counter = "action_wait_timeouts"} # {})
            /\ after # before =>
                 {c \in counters : c.counter = "state_transitions"} = {Transition(after)}
            /\ {c \in counters : c.counter = "state_transitions"} # {} => after # before
<1> DEFINE counters == Counts(others, timed_out, target, before, after)
<1>1. \A c \in counters :
        \/ c.counter = "http_attempts"
        \/ timed_out /\ c = WaitTimeout(target)
        \/ after \notin {None, before} /\ c = Transition(after)
  BY DEF Counts
<1>2. timed_out => WaitTimeout(target) \in counters
  BY DEF Counts
<1>3. after # before => Transition(after) \in counters
  BY DEF Counts
<1>4. /\ WaitTimeout(target).counter = "action_wait_timeouts"
      /\ Transition(after).counter = "state_transitions"
  BY CounterNames
<1> HIDE DEF counters
<1>5. {c \in counters : c.counter = "action_wait_timeouts"}
        = IF timed_out THEN {WaitTimeout(target)} ELSE {}
  BY <1>1, <1>2, <1>4
<1>6. {c \in counters : c.counter = "state_transitions"}
        = IF after # before THEN {Transition(after)} ELSE {}
  BY <1>1, <1>3, <1>4
<1> QED
  BY <1>5, <1>6 DEF counters

LEMMA CollectCounts ==
  ASSUME IInv, CollectMetrics, NEW i \in States
  PROVE  Counted(i)
<1> DEFINE rt == states[i]
           next == states'[i]
           decided == tick(Config[i], rt, now)
           timed_out == WaitExpired(Config[i], rt, now)
<1>1. Collect /\ now \in Int
  BY DEF CollectMetrics, IInv, Control, Collect
<1>2. /\ StateOK(Config[i], rt)
      /\ Config[i] \in StateConfigs /\ validate(Config[i])
  BY ConfigOK DEF IInv, StatesOK
<1>3. next = Collected(Config[i], rt, now).rt
  BY <1>1 DEF Collect
<1>4. Moved(Config[i], rt, next)
  BY <1>1, <1>2, <1>3, CollectOne
<1>5. decided.decision = "WaitTimedOut" <=> timed_out
  BY <1>1, <1>2, TickTimesOut
<1>6. incremented'[i] = TransitionCount(i, next.applied_state)
                          \cup {WaitTimeout(target) : target \in
                                  IF decided.decision = "WaitTimedOut"
                                  THEN {rt.pending_target_state} ELSE {}}
  BY DEF CollectMetrics
<1>7. timed_out => ~WaitExpired(Config[i], next, now)
  <2> SUFFICES ASSUME timed_out PROVE ~WaitExpired(Config[i], next, now)
    OBVIOUS
  <2>1. decided.decision = "WaitTimedOut"
    BY <1>5
  <2>2. DecisionOK(Config[i], rt, decided)
    BY <1>1, <1>2, Tick
  <2>3. StateOK(Config[i], decided.rt) /\ OnStep(Config[i], decided.rt, "WaitForJson")
    BY <2>1, <2>2 DEF DecisionOK
  <2>4. next = record_wait_timeout(Config[i], decided.rt, decided.rt.pending_target_state,
                                   decided.rt.action_step_index, now)
    BY <1>3, <2>1 DEF Collected, TimedOut
  <2> HIDE DEF next, decided
  <2> QED
    BY <1>1, <1>2, <2>3, <2>4, TimeoutEndsWindow
<1>8. next.applied_state # rt.applied_state => next.applied_state # None
  BY <1>4, MoveApplies
<1>9. Deciding(i) /\ pc' # pc
  BY <1>1 DEF Collect, Deciding, AfterRecording
<1>10. timed_out \in BOOLEAN
  BY DEF WaitExpired, OnStep
<1> DEFINE counters == incremented'[i]
           before == rt.applied_state
           after == next.applied_state
<1>11. counters = Counts({}, timed_out, rt.pending_target_state, before, after)
  BY <1>5, <1>6 DEF TransitionCount, Counts
<1>12. after # before => after # None
  BY <1>8
<1> HIDE DEF timed_out, decided, counters, before, after
<1>13. /\ timed_out = ({c \in counters : c.counter = "action_wait_timeouts"} # {})
       /\ after # before =>
            {c \in counters : c.counter = "state_transitions"} = {Transition(after)}
       /\ {c \in counters : c.counter = "state_transitions"} # {} => after # before
  BY <1>10, <1>11, <1>12, SplitCounters
<1>14. (Deciding(i) /\ pc' # pc /\ WaitExpired(Config[i], states[i], now)) = timed_out
  BY <1>9 DEF timed_out, WaitExpired, OnStep
<1> QED
  BY <1>7, <1>13, <1>14, Zenon DEF Counted, counters, before, after

LEMMA RecordCounts ==
  ASSUME IInv, RecordMetrics, NEW j \in States
  PROVE  Counted(j)
<1>1. Record
  BY DEF RecordMetrics
<1>2. PICK i \in States :
        /\ IsNext(i)
        /\ incremented' = [NoIncrement EXCEPT ![i] =
                             {Attempt(actions[i].target, outcome # "Failure")}
                               \cup (IF Expired(i) THEN {WaitTimeout(actions[i].target)}
                                     ELSE {})
                               \cup TransitionCount(i, actions[i].target)]
  BY DEF RecordMetrics
<1>3. /\ states'[i] = Recorded(Config[i], states[i], actions[i], outcome, now)
      /\ \A k \in States : k # i => states'[k] = states[k]
      /\ now \in Int
      /\ actions[i] \in DueAction
      /\ Concerns(states[i], actions[i].target, actions[i].step_index)
  BY <1>1, <1>2, RecordNext
<1>4. pc = "recording" /\ pc' # pc
  BY <1>1 DEF Record, AfterRecording
<1>5. CASE j # i
  <2>1. incremented'[j] = {}
    BY <1>2, <1>5 DEF NoIncrement
  <2>2. states'[j] = states[j]
    BY <1>3, <1>5
  <2>3. ~Deciding(j)
    BY <1>2, <1>4, <1>5, OneIsNext DEF Deciding
  <2> QED
    BY <2>1, <2>2, <2>3 DEF Counted
<1>6. CASE j = i
  <2> DEFINE rt == states[i]
             next == states'[i]
             timed_out == WaitExpired(Config[i], rt, now)
             counters == incremented'[i]
             before == rt.applied_state
             after == next.applied_state
             target == actions[i].target
             tried == {Attempt(target, outcome # "Failure")}
  <2>1. /\ StateOK(Config[i], rt)
        /\ Config[i] \in StateConfigs /\ validate(Config[i])
    BY ConfigOK DEF IInv, StatesOK
  <2>2. Moved(Config[i], rt, next)
    BY <1>3, <2>1, RecordOne
  <2>3. after # before => after # None /\ after = target
    BY <1>3, <2>2, MoveApplies DEF Concerns
  <2>4. Expired(i) <=> timed_out
    BY <1>3 DEF Expired, wait_timed_out
  <2>5. timed_out => ~WaitExpired(Config[i], next, now)
    <3> SUFFICES ASSUME timed_out PROVE ~WaitExpired(Config[i], next, now)
      OBVIOUS
    <3>1. rt.pending_target_state = target /\ rt.action_step_index = actions[i].step_index
      BY <1>3 DEF Concerns
    <3>2. next = record_wait_timeout(Config[i], rt, rt.pending_target_state,
                                     rt.action_step_index, now)
      BY <1>3, <3>1 DEF Recorded, wait_timed_out
    <3>3. OnStep(Config[i], rt, "WaitForJson")
      BY DEF WaitExpired
    <3> HIDE DEF next, rt
    <3> QED
      BY <1>3, <2>1, <3>2, <3>3, TimeoutEndsWindow
  <2>6. timed_out \in BOOLEAN
    BY DEF WaitExpired, OnStep
  <2>7. counters = tried \cup (IF Expired(i) THEN {WaitTimeout(target)} ELSE {})
                     \cup TransitionCount(i, target)
    BY <1>2 DEF NoIncrement
  <2>8. counters = Counts(tried, timed_out, target, before, after)
    BY <2>3, <2>4, <2>7 DEF TransitionCount, Counts
  <2>9. \A c \in tried : c.counter = "http_attempts"
    BY CounterNames
  <2>10. Deciding(i)
    BY <1>2, <1>4 DEF Deciding
  <2> HIDE DEF timed_out, counters, before, after, tried, target
  <2>11. /\ timed_out = ({c \in counters : c.counter = "action_wait_timeouts"} # {})
         /\ after # before =>
              {c \in counters : c.counter = "state_transitions"} = {Transition(after)}
         /\ {c \in counters : c.counter = "state_transitions"} # {} => after # before
    BY <2>3, <2>6, <2>8, <2>9, SplitCounters
  <2>12. (Deciding(i) /\ pc' # pc /\ WaitExpired(Config[i], states[i], now)) = timed_out
    BY <1>4, <2>10 DEF timed_out, WaitExpired, OnStep
  <2>13. Counted(i)
    BY <2>5, <2>11, <2>12, Zenon DEF Counted, counters, before, after
  <2> QED
    BY <1>6, <2>13
<1> QED
  BY <1>5, <1>6

\* What is neither decided nor recorded counts nothing.
LEMMA NothingCounted ==
  ASSUME IInv, NoMetrics \/ \E sample \in Samples : ObserveMetrics(sample), NEW i \in States
  PROVE  Counted(i)
<1>1. incremented'[i] = {}
  BY DEF NoMetrics, ObserveMetrics, NoIncrement
<1>2. states[i] \in RuntimeState
  BY DEF IInv, TypeOK
<1>3. states'[i].applied_state = states[i].applied_state
  <2>1. CASE Elapse
    BY <1>2, <2>1, OlderShown DEF Elapse, SameShown
  <2>2. ASSUME NEW sample \in Samples, ObserveMetrics(sample)
        PROVE  states'[i].applied_state = states[i].applied_state
    <3>1. states'[i] = observe_sample(Config[i], states[i], sample, 0)
      BY <2>2 DEF ObserveMetrics, ObserveSample
    <3> QED
      BY <1>2, <3>1, ConfigOK, ObserveShown DEF SameShown
  <2>3. CASE states' = states
    BY <2>3
  <2> QED
    BY <2>1, <2>2, <2>3
       DEF NoMetrics, TakeTick, Send, SkipSend, Stop, Cancel, Answer
<1>4. ~(Deciding(i) /\ pc' # pc)
  BY DEF NoMetrics, ObserveMetrics, ObserveSample, Elapse, TakeTick, Send, SkipSend,
         Stop, Cancel, Answer, task, Deciding
<1> QED
  BY <1>1, <1>3, <1>4 DEF Counted

\* No timeout and no transition is missed or counted twice, whether a tick finds
\* that a window has passed or the end of a poll does (collect_due_actions and
\* record_action_result in engine.rs).
THEOREM CountersAreComplete == MetricsSpec => CountersCountEverything
<1>1. IInv /\ [MetricsNext]_metricsVars => [\A i \in States : Counted(i)]_metricsVars
  BY CollectCounts, RecordCounts, NothingCounted DEF MetricsNext
<1>2. MetricsSpec => [][\A i \in States : Counted(i)]_metricsVars
  BY <1>1, MetricsInductive, PTL DEF MetricsSpec
<1> QED
  BY <1>2 DEF CountersCountEverything, Counted
=============================================================================

--------------------------- MODULE EngineMetrics ----------------------------
(***************************************************************************)
(* StateEngine with the metrics of a state: the gauges that Collect, Record  *)
(* and ObserveSample set, and the counters they increment (the calls of      *)
(* src/state/engine.rs, and src/metrics.rs).  A counter only grows, so what  *)
(* a step has added to it stands for its value.                              *)
(***************************************************************************)
EXTENDS StateEngine

VARIABLES
  gauges,       \* the status gauges of each state; None before its first tick
  input_value,  \* wattdog_state_input_value; None before its first sample
  incremented   \* the counters of each state that the last step incremented

metrics == <<gauges, input_value, incremented>>
metricsVars == <<vars, metrics>>

Transition(target) == [counter |-> "state_transitions", target |-> target]
WaitTimeout(target) == [counter |-> "action_wait_timeouts", target |-> target]
Attempt(target, success) ==
  [counter |-> "http_attempts", target |-> target, success |-> success]

\* set_state_status, set_action_sequence_step and set_http_retry_delay.
Status(rt, at) ==
  [stale |-> rt.stale,
   ambiguous |-> rt.ambiguous,
   desired |-> rt.desired_state,
   applied |-> rt.applied_state,
   pending |-> rt.pending_target_state # None,
   sequence_step |-> IF rt.pending_target_state = None THEN -1 ELSE rt.action_step_index,
   retry_delay |-> IF rt.next_retry_at = None THEN 0 ELSE DurationSince(rt.next_retry_at, at)]

NoIncrement == [i \in States |-> {}]

MetricsInit ==
  /\ Init
  /\ gauges = [i \in States |-> None]
  /\ input_value = [i \in States |-> None]
  /\ incremented = NoIncrement

\* state_transition(applied), where a call has changed the applied state.
TransitionCount(i, applied) ==
  {Transition(target) : target \in
     IF states'[i].applied_state # states[i].applied_state THEN {applied} \ {None} ELSE {}}

ObserveMetrics(sample) ==
  /\ ObserveSample(sample)
  /\ input_value' = [i \in States |->
                       IF sample.serial = Config[i].serial
                       THEN sample.value[Config[i].field]
                       ELSE input_value[i]]
  /\ incremented' = NoIncrement
  /\ UNCHANGED gauges

\* Mutant of CollectMetrics: the gauges are set before a timeout is recorded.
CollectMetrics_early ==
  /\ Collect
  /\ gauges' = [i \in States |-> Status(tick(Config[i], states[i], now).rt, now)]
  /\ incremented' = [i \in States |->
                       TransitionCount(i, states'[i].applied_state)
                         \cup {WaitTimeout(target) : target \in
                                 IF tick(Config[i], states[i], now).decision = "WaitTimedOut"
                                 THEN {states[i].pending_target_state} ELSE {}}]
  /\ UNCHANGED input_value

CollectMetrics ==
  /\ Collect
  /\ gauges' = [i \in States |-> Status(states'[i], now)]
  /\ incremented' = [i \in States |->
                       TransitionCount(i, states'[i].applied_state)
                         \cup {WaitTimeout(target) : target \in
                                 IF tick(Config[i], states[i], now).decision = "WaitTimedOut"
                                 THEN {states[i].pending_target_state} ELSE {}}]
  /\ UNCHANGED input_value

Expired(i) ==
  wait_timed_out(Config[i], states[i], actions[i].target, actions[i].step_index, now)

\* Mutant of RecordMetrics: a timeout found when a poll ends is not counted.
RecordMetrics_silent ==
  /\ Record
  /\ \E i \in States :
       /\ IsNext(i)
       /\ gauges' = [gauges EXCEPT ![i] = Status(states'[i], now)]
       /\ incremented' = [NoIncrement EXCEPT ![i] =
                            {Attempt(actions[i].target, outcome # "Failure")}
                              \cup TransitionCount(i, actions[i].target)]
  /\ UNCHANGED input_value

RecordMetrics ==
  /\ Record
  /\ \E i \in States :
       /\ IsNext(i)
       /\ gauges' = [gauges EXCEPT ![i] = Status(states'[i], now)]
       /\ incremented' = [NoIncrement EXCEPT ![i] =
                            {Attempt(actions[i].target, outcome # "Failure")}
                              \cup (IF Expired(i) THEN {WaitTimeout(actions[i].target)} ELSE {})
                              \cup TransitionCount(i, actions[i].target)]
  /\ UNCHANGED input_value

NoMetrics ==
  /\ Elapse \/ TakeTick \/ Send \/ SkipSend \/ Stop \/ Cancel
       \/ \E result \in ActionOutcome : Answer(result)
  /\ incremented' = NoIncrement
  /\ UNCHANGED <<gauges, input_value>>

MetricsNext ==
  \/ \E sample \in Samples : ObserveMetrics(sample)
  \/ CollectMetrics
  \/ RecordMetrics
  \/ NoMetrics

MetricsSpec == MetricsInit /\ [][MetricsNext]_metricsVars

-----------------------------------------------------------------------------
\* From its first tick on the gauges of a state are what the engine acts on,
\* between two calls and whatever is observed, timed out or recorded: a
\* sequence step is shown exactly while a transition is pending, and that is
\* when desired and applied differ, as the alert of the metrics page for an
\* action that keeps failing supposes
\* (docs/src/routes/docs/reference/metrics/+page.md).
GaugesShowTheState ==
  \A i \in States :
    /\ input_value[i] = states[i].latest_value
    /\ gauges[i] # None =>
         /\ [gauges[i] EXCEPT !.retry_delay = 0]
              = [Status(states[i], 0) EXCEPT !.retry_delay = 0]
         /\ gauges[i].pending = (gauges[i].desired # gauges[i].applied)
         /\ gauges[i].pending = (gauges[i].sequence_step # -1)
         /\ gauges[i].retry_delay > 0 => gauges[i].pending

\* Every window of a wait that passes is counted, when it is found to have
\* passed, and only once: afterwards the wait is over or has a new window.
\* And every applied transition is counted, under its target.
Deciding(i) == pc = "collecting" \/ (pc = "recording" /\ IsNext(i))

CountersCountEverything ==
  [][ \A i \in States :
        LET expired == Deciding(i) /\ pc' # pc /\ WaitExpired(Config[i], states[i], now)
            timeouts == {c \in incremented'[i] : c.counter = "action_wait_timeouts"}
            transitions == {c \in incremented'[i] : c.counter = "state_transitions"}
        IN /\ expired = (timeouts # {})
           /\ expired => ~WaitExpired(Config[i], states'[i], now)
           /\ states'[i].applied_state # states[i].applied_state
                => transitions = {Transition(states'[i].applied_state)}
           /\ transitions # {} => states'[i].applied_state # states[i].applied_state
    ]_metricsVars
=============================================================================

---------------------------- MODULE StateConfig -----------------------------
(***************************************************************************)
(* The part of src/config.rs the state engine runs on: one binary output    *)
(* driven by one measurement, its two transitions and their action          *)
(* sequences, and what Config::validate demands of them.  Names, URLs, HTTP  *)
(* methods, JSON pointers and expected values are left out: no decision of  *)
(* the engine depends on them.                                              *)
(*                                                                          *)
(* Durations and instants are whole numbers of a unit of time, Second of      *)
(* which are a second: the unit is as fine as the configuration needs.       *)
(***************************************************************************)
EXTENDS Thresholds, Sequences

CONSTANTS
  Second,                   \* units of time in a second
  RetryInitial, RetryMax    \* [http].retry_initial and retry_max

ASSUME SecondAssumption == Second \in Nat \ {0}

\* The checks of Config::validate on [http].
ASSUME RetryAssumption ==
  /\ RetryInitial \in Nat \ {0}
  /\ RetryMax \in Nat \ {0}
  /\ RetryInitial <= RetryMax
  /\ RetryMax <= 5 * Second

BinaryState == {"On", "Off"}

MeasurementField ==
  {"voltage1_volts", "voltage2_volts", "current_amps", "power_watts"}

WaitTimeoutPolicy == {"Continue", "Retry"}

ActionStepConfig ==
  [type : {"Request"}]
    \cup [type : {"Delay"}, duration : Nat]
    \cup [type : {"WaitForJson"}, poll_every : Nat, timeout : Nat,
          on_timeout : WaitTimeoutPolicy]

\* url says whether the legacy single URL is given.
TransitionConfig ==
  [op : ComparisonOp, value : Float, duration : Nat, hold_for : Nat,
   url : BOOLEAN, actions : Seq(ActionStepConfig)]

StateConfigs ==
  [serial : Nat, field : MeasurementField, default_state : BinaryState,
   stale_after : Nat, to : [BinaryState -> TransitionConfig]]

\* TransitionConfig::action_count and ::action; index counts from 0.
action_count(transition) ==
  IF transition.actions = << >>
  THEN IF transition.url THEN 1 ELSE 0
  ELSE Len(transition.actions)

action(transition, index) ==
  IF transition.actions = << >>
  THEN [type |-> "Request"]
  ELSE transition.actions[index + 1]

ValidStep(step) ==
  \/ step.type = "Request"
  \/ step.type = "Delay" /\ step.duration >= Second
  \/ /\ step.type = "WaitForJson"
     /\ step.poll_every >= Second
     /\ step.timeout >= Second
     /\ step.poll_every <= step.timeout

validate_transition_actions(transition) ==
  /\ transition.url = (transition.actions = << >>)
  /\ \A k \in DOMAIN transition.actions : ValidStep(transition.actions[k])

\* What Config::validate checks of one state.
validate(config) ==
  /\ config.stale_after > 0
  /\ \A target \in BinaryState : validate_transition_actions(config.to[target])
  /\ validate_thresholds(config.to["On"], config.to["Off"])
=============================================================================

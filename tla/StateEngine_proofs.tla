------------------------- MODULE StateEngine_proofs -------------------------
(***************************************************************************)
(* Safety of StateEngine for every configuration that Config::validate       *)
(* accepts, any number of states, every set of samples and every bound: from *)
(* the comparison of thresholds, by way of the methods of RuntimeState and   *)
(* what they preserve, to the engine.                                       *)
(***************************************************************************)
EXTENDS StateEngine, TLAPS

-----------------------------------------------------------------------------
\* What the validator of thresholds guarantees.

\* A condition bounded from above and one bounded from below: when total_cmp
\* puts the first threshold below the second, or finds them equal and not both
\* included, only a reading of zero can satisfy both, and only with the
\* thresholds -0.0 and +0.0 (validate_thresholds, condition::matches).
LEMMA BoundsDoNotMeet ==
  ASSUME NEW x \in Int, NEW u \in Int, NEW l \in Int,
         NEW uop \in {"<", "<="}, NEW lop \in {">", ">="},
         ~(u > l),
         ~(u = l /\ inclusive(uop) /\ inclusive(lop)),
         ~(u = NegativeZero /\ inclusive(uop) /\ l = PositiveZero /\ inclusive(lop))
  PROVE  ~(matches(uop, x, u) /\ matches(lop, x, l))
<1> SUFFICES ASSUME matches(uop, x, u), matches(lop, x, l)
             PROVE FALSE
  OBVIOUS
<1>1. Numeric(x) <= Numeric(u) /\ Numeric(l) <= Numeric(x)
  BY DEF matches, Numeric
<1>2. u <= l
  OBVIOUS
<1>3. CASE u = l
  <2>1. Numeric(u) = Numeric(l)
    BY <1>3
  <2>2. uop = "<" \/ lop = ">"
    BY <1>3 DEF inclusive
  <2> QED
    BY <2>1, <2>2 DEF matches, Numeric
<1>4. CASE u < l
  <2>1. u = NegativeZero /\ l = PositiveZero
    BY <1>1, <1>4 DEF Numeric, NegativeZero, PositiveZero
  <2>2. uop = "<" \/ lop = ">"
    BY <2>1 DEF inclusive
  <2> QED
    BY <2>1, <2>2 DEF matches, Numeric, NegativeZero, PositiveZero
<1> QED
  BY <1>2, <1>3, <1>4

\* The ambiguity guard is a safety net: no reading at all, a NaN and an
\* infinity included, satisfies both conditions of an accepted state, unless
\* its thresholds are the two zeros (validate_thresholds, condition::matches).
THEOREM NoReadingSatisfiesBoth ==
  ASSUME NEW on, on.op \in ComparisonOp, on.value \in Float,
         NEW off, off.op \in ComparisonOp, off.value \in Float,
         validate_thresholds(on, off),
         ~SplitZero(on, off),
         NEW x \in Int
  PROVE  ~(matches(on.op, x, on.value) /\ matches(off.op, x, off.value))
<1>1. on.value \in Int /\ off.value \in Int
  BY MAssumption DEF Float
<1>2. CASE upper_bound(on.op)
  <2>1. on.op \in {"<", "<="} /\ off.op \in {">", ">="}
    BY <1>2 DEF validate_thresholds, upper_bound, ComparisonOp
  <2> QED
    BY <1>1, <1>2, <2>1, BoundsDoNotMeet DEF validate_thresholds, SplitZero
<1>3. CASE ~upper_bound(on.op)
  <2>1. off.op \in {"<", "<="} /\ on.op \in {">", ">="}
    BY <1>3 DEF validate_thresholds, upper_bound, ComparisonOp
  <2> QED
    BY <1>1, <1>3, <2>1, BoundsDoNotMeet DEF validate_thresholds, SplitZero
<1> QED
  BY <1>2, <1>3

-----------------------------------------------------------------------------
\* What the methods of RuntimeState preserve.

\* An idle state keeps nothing of the last sequence.
Idle(rt) ==
  /\ rt.pending_target_state = None
  /\ rt.action_step_index = 0
  /\ rt.step_started_at = None
  /\ rt.retry_attempt = 0
  /\ rt.next_retry_at = None

\* A state in a sequence is on a step of it and knows when the step began.
Running(config, rt) ==
  /\ rt.pending_target_state \in BinaryState
  /\ rt.desired_state = rt.pending_target_state
  /\ rt.applied_state # rt.pending_target_state
  /\ rt.action_step_index < action_count(config.to[rt.pending_target_state])
  /\ rt.step_started_at # None
  /\ rt.hold_until = None

StateOK(config, rt) ==
  /\ rt \in RuntimeState
  /\ \/ Idle(rt) /\ rt.desired_state = rt.applied_state
     \/ Running(config, rt)

\* The moves of a sequence, as the fields of the state show them.
Unmoved(rt, next) ==
  /\ next.applied_state = rt.applied_state
  /\ next.pending_target_state = rt.pending_target_state
  /\ next.action_step_index = rt.action_step_index

Advanced(config, rt, next) ==
  /\ rt.pending_target_state \in BinaryState
  /\ rt.action_step_index + 1 < action_count(config.to[rt.pending_target_state])
  /\ next.applied_state = rt.applied_state
  /\ next.pending_target_state = rt.pending_target_state
  /\ next.action_step_index = rt.action_step_index + 1

Finished(config, rt, next) ==
  /\ rt.pending_target_state \in BinaryState
  /\ rt.action_step_index + 1 = action_count(config.to[rt.pending_target_state])
  /\ next.applied_state = rt.pending_target_state
  /\ next.pending_target_state = None
  /\ next.action_step_index = 0

Begun(rt, next) ==
  /\ rt.pending_target_state = None
  /\ next.pending_target_state \in BinaryState
  /\ next.pending_target_state # rt.applied_state
  /\ next.applied_state = rt.applied_state
  /\ next.action_step_index = 0

Moved(config, rt, next) ==
  \/ Unmoved(rt, next)
  \/ Advanced(config, rt, next)
  \/ Finished(config, rt, next)
  \/ Begun(rt, next)

\* The n-th delay is never zero and never more than retry_max, however many
\* failures there have been (backoff in machine.rs).
LEMMA BackoffBounds ==
  ASSUME NEW attempt \in Nat
  PROVE  /\ backoff(attempt) \in Nat
         /\ RetryInitial <= backoff(attempt)
         /\ backoff(attempt) <= RetryMax
<1> DEFINE n == (IF attempt < 10 THEN attempt ELSE 10) + 1
<1>1. n \in 1 .. 11
  OBVIOUS
<1>2. Doublings[n] \in Nat /\ Doublings[n] >= 1
  BY <1>1 DEF Doublings
<1> HIDE DEF n
<1>3. RetryInitial * Doublings[n] \in Nat /\ RetryInitial <= RetryInitial * Doublings[n]
  BY <1>2, RetryAssumption
<1> QED
  BY <1>3, RetryAssumption DEF backoff, n

\* A valid transition has at least one step, and each is a valid step.
LEMMA ValidSteps ==
  ASSUME NEW config \in StateConfigs, validate(config), NEW target \in BinaryState
  PROVE  /\ action_count(config.to[target]) \in Nat \ {0}
         /\ \A k \in 0 .. action_count(config.to[target]) - 1 :
              /\ action(config.to[target], k) \in ActionStepConfig
              /\ ValidStep(action(config.to[target], k))
<1> DEFINE transition == config.to[target]
<1>1. transition \in TransitionConfig /\ validate_transition_actions(transition)
  BY DEF StateConfigs, validate
<1> HIDE DEF transition
<1>2. transition.actions \in Seq(ActionStepConfig) /\ transition.url \in BOOLEAN
  BY <1>1 DEF TransitionConfig
<1>3. transition.url = (transition.actions = << >>)
  BY <1>1 DEF validate_transition_actions
<1>4. CASE transition.actions = << >>
  <2>1. transition.url
    BY <1>3, <1>4
  <2>2. action_count(transition) = 1
    BY <1>4, <2>1 DEF action_count
  <2>3. \A k : action(transition, k) = [type |-> "Request"]
    BY <1>4 DEF action
  <2> QED
    BY <2>2, <2>3 DEF ActionStepConfig, ValidStep, transition
<1>5. CASE transition.actions # << >>
  <2>1. action_count(transition) = Len(transition.actions)
    BY <1>5 DEF action_count
  <2>2. Len(transition.actions) \in Nat \ {0}
    BY <1>2, <1>5
  <2>3. ASSUME NEW k \in 0 .. Len(transition.actions) - 1
        PROVE  /\ action(transition, k) \in ActionStepConfig
               /\ ValidStep(action(transition, k))
    <3>1. action(transition, k) = transition.actions[k + 1]
      BY <1>5 DEF action
    <3>2. k + 1 \in DOMAIN transition.actions
      BY <1>2, <2>3
    <3> QED
      BY <1>1, <1>2, <3>1, <3>2 DEF validate_transition_actions
  <2> QED
    BY <2>1, <2>2, <2>3 DEF transition
<1> QED
  BY <1>4, <1>5

\* The current step of a running state is a valid step of its transition.
LEMMA CurrentStep ==
  ASSUME NEW config \in StateConfigs, validate(config),
         NEW rt \in RuntimeState, Running(config, rt)
  PROVE  /\ current_action(config, rt) \in ActionStepConfig
         /\ ValidStep(current_action(config, rt))
<1>1. rt.action_step_index \in 0 .. action_count(config.to[rt.pending_target_state]) - 1
  BY ValidSteps DEF Running, RuntimeState
<1> QED
  BY <1>1, ValidSteps DEF Running, current_action

\* What the fields of a runtime state are set to is of their types.
LEMMA FieldValues ==
  /\ None \in Option(Int)
  /\ None \in Option(BinaryState)
  /\ \A at \in Int : at \in Option(Int)
  /\ \A target \in BinaryState : target \in Option(BinaryState)
  /\ [t \in BinaryState |-> None] \in [BinaryState -> Option(Int)]
  /\ 0 \in 0 .. MaxAttempt
  /\ \A attempt \in 0 .. MaxAttempt : SaturatingIncrement(attempt) \in 0 .. MaxAttempt
  /\ 0 .. MaxAttempt \subseteq Nat
BY MaxAttemptAssumption DEF Option, SaturatingIncrement

\* Setting one field to a value of its type leaves a runtime state.
LEMMA SetField ==
  ASSUME NEW rt \in RuntimeState
  PROVE  /\ \A x \in Option(Float) : [rt EXCEPT !.latest_value = x] \in RuntimeState
         /\ \A x \in Option(Int) : [rt EXCEPT !.latest_sample_at = x] \in RuntimeState
         /\ \A x \in Option(BinaryState) : [rt EXCEPT !.desired_state = x] \in RuntimeState
         /\ \A x \in Option(BinaryState) : [rt EXCEPT !.applied_state = x] \in RuntimeState
         /\ \A x \in Option(BinaryState) :
              [rt EXCEPT !.pending_target_state = x] \in RuntimeState
         /\ \A x \in [BinaryState -> Option(Int)] :
              [rt EXCEPT !.condition_started_at = x] \in RuntimeState
         /\ \A x \in 0 .. MaxAttempt : [rt EXCEPT !.retry_attempt = x] \in RuntimeState
         /\ \A x \in Nat : [rt EXCEPT !.action_step_index = x] \in RuntimeState
         /\ \A x \in Option(Int) : [rt EXCEPT !.step_started_at = x] \in RuntimeState
         /\ \A x \in Option(Int) : [rt EXCEPT !.next_retry_at = x] \in RuntimeState
         /\ \A x \in Option(Int) : [rt EXCEPT !.hold_until = x] \in RuntimeState
         /\ \A x \in BOOLEAN : [rt EXCEPT !.stale = x] \in RuntimeState
         /\ \A x \in BOOLEAN : [rt EXCEPT !.ambiguous = x] \in RuntimeState
BY DEF RuntimeState

\* Going on from a step leaves a running state running on the next step, or
\* idle with its target applied (advance_step).
LEMMA AdvanceStep ==
  ASSUME NEW config \in StateConfigs, validate(config),
         NEW rt \in RuntimeState, Running(config, rt), NEW at \in Int
  PROVE  LET next == advance_step(config, rt, rt.pending_target_state, at)
         IN /\ StateOK(config, next)
            /\ Advanced(config, rt, next) \/ Finished(config, rt, next)
            /\ next.ambiguous = rt.ambiguous
            /\ next.pending_target_state # None =>
                 next.step_started_at = at /\ next.next_retry_at = None
<1> DEFINE target == rt.pending_target_state
           next == advance_step(config, rt, target, at)
<1>1. target \in BinaryState
  BY DEF Running
<1>2. at + config.to[target].hold_for \in Int
  BY <1>1 DEF StateConfigs, TransitionConfig
<1>3. rt.action_step_index \in Nat /\ action_count(config.to[target]) \in Nat
  BY <1>1, ValidSteps DEF RuntimeState
<1>4. rt.action_step_index < action_count(config.to[target])
  BY DEF Running
<1>5. CASE rt.action_step_index + 1 < action_count(config.to[target])
  <2>1. next = OnNextStep(rt, at)
    BY <1>5 DEF advance_step
  <2>2. OnNextStep(rt, at) \in RuntimeState
    <3> DEFINE moved == [rt EXCEPT !.action_step_index = rt.action_step_index + 1]
               fresh == [moved EXCEPT !.retry_attempt = 0]
               due == [fresh EXCEPT !.next_retry_at = None]
    <3>1. moved \in RuntimeState
      <4>1. rt.action_step_index + 1 \in Nat
        BY <1>3
      <4> QED
        BY <4>1, SetField
    <3>2. fresh \in RuntimeState
      BY <3>1, FieldValues, SetField
    <3>3. due \in RuntimeState
      BY <3>2, FieldValues, SetField
    <3>4. [due EXCEPT !.step_started_at = at] \in RuntimeState
      BY <3>3, FieldValues, SetField
    <3> QED
      BY <3>4 DEF OnNextStep
  <2>3. Running(config, OnNextStep(rt, at))
    BY <1>3, <1>5, NoneAssumption DEF OnNextStep, Running, RuntimeState
  <2>4. Advanced(config, rt, OnNextStep(rt, at))
    BY <1>1, <1>5 DEF OnNextStep, Advanced, RuntimeState
  <2>5. /\ OnNextStep(rt, at).ambiguous = rt.ambiguous
        /\ OnNextStep(rt, at).step_started_at = at
        /\ OnNextStep(rt, at).next_retry_at = None
    BY DEF OnNextStep, RuntimeState
  <2> QED
    BY <2>1, <2>2, <2>3, <2>4, <2>5 DEF StateOK
<1>6. CASE ~(rt.action_step_index + 1 < action_count(config.to[target]))
  <2>1. next = Applied(config, rt, target, at)
    BY <1>6 DEF advance_step
  <2>2. Applied(config, rt, target, at) \in RuntimeState
    BY <1>1, <1>2, FieldValues, SetField DEF Applied
  <2>3. Idle(Applied(config, rt, target, at))
    BY DEF Applied, Idle, RuntimeState
  <2>4. Applied(config, rt, target, at).desired_state
          = Applied(config, rt, target, at).applied_state
    BY DEF Applied, RuntimeState
  <2>5. rt.action_step_index + 1 = action_count(config.to[target])
    BY <1>3, <1>4, <1>6
  <2>6. Finished(config, rt, Applied(config, rt, target, at))
    BY <1>1, <2>5 DEF Applied, Finished, RuntimeState
  <2>7. Applied(config, rt, target, at).ambiguous = rt.ambiguous
    BY DEF Applied, RuntimeState
  <2> QED
    BY <2>1, <2>2, <2>3, <2>4, <2>6, <2>7 DEF StateOK, Idle
<1> QED
  BY <1>5, <1>6

\* What a method of the tick returns for a state: a good state, at most one
\* move away, whose sequence runs when something is due, and which has not
\* moved when a wait has timed out.
DecisionOK(config, rt, decided) ==
  /\ StateOK(config, decided.rt)
  /\ decided.decision \in TickDecision
  /\ Moved(config, rt, decided.rt)
  /\ decided.decision # "None" => Running(config, decided.rt)
  /\ decided.decision = "WaitTimedOut" =>
       Unmoved(rt, decided.rt) /\ OnStep(config, decided.rt, "WaitForJson")

\* A step that begins now is not over: a valid wait takes a second at least.
LEMMA NotExpiredAtStart ==
  ASSUME NEW config \in StateConfigs, validate(config),
         NEW rt, StateOK(config, rt), NEW at \in Int, rt.step_started_at = at
  PROVE  ~WaitExpired(config, rt, at)
<1> SUFFICES ASSUME OnStep(config, rt, "WaitForJson")
             PROVE  ~(DurationSinceOr(at, rt.step_started_at)
                        >= current_action(config, rt).timeout)
  BY DEF WaitExpired
<1>1. Running(config, rt) /\ rt \in RuntimeState
  BY DEF OnStep, StateOK, Idle
<1>2. current_action(config, rt).type = "WaitForJson"
  BY DEF OnStep
<1>3. current_action(config, rt).timeout >= Second
  BY <1>1, <1>2, CurrentStep DEF ValidStep
<1>4. current_action(config, rt).timeout \in Nat
  BY <1>1, <1>2, CurrentStep DEF ActionStepConfig
<1>5. DurationSinceOr(at, rt.step_started_at) = 0
  BY DEF DurationSinceOr, DurationSince
<1> QED
  BY <1>3, <1>4, <1>5, SecondAssumption

\* StepDecision answers None for an idle state, and a timeout only for a wait.
LEMMA StepDecisions ==
  ASSUME NEW config \in StateConfigs, NEW rt, StateOK(config, rt), NEW at \in Int
  PROVE  /\ StepDecision(config, rt, at) \in TickDecision
         /\ StepDecision(config, rt, at) # "None" => Running(config, rt)
         /\ StepDecision(config, rt, at) = "WaitTimedOut" => WaitExpired(config, rt, at)
<1>1. rt.pending_target_state = None \/ Running(config, rt)
  BY DEF StateOK, Idle
<1> QED
  BY <1>1 DEF StepDecision, TickDecision

\* A pending sequence goes on: a delay that has elapsed is left, and what is
\* due next is decided (due_sequence_step).
LEMMA DueSequenceStep ==
  ASSUME NEW config \in StateConfigs, validate(config),
         NEW rt \in RuntimeState, Running(config, rt), NEW at \in Int
  PROVE  LET decided == due_sequence_step(config, rt, at)
         IN /\ DecisionOK(config, rt, decided)
            /\ decided.rt.ambiguous = rt.ambiguous
            /\ rt.step_started_at = at =>
                 Unmoved(rt, decided.rt) /\ decided.decision # "WaitTimedOut"
<1> DEFINE elapsed == /\ OnStep(config, rt, "Delay")
                      /\ DurationSince(at, rt.step_started_at)
                           >= current_action(config, rt).duration
           next == IF elapsed THEN advance_step(config, rt, rt.pending_target_state, at)
                   ELSE rt
<1>1. due_sequence_step(config, rt, at) = Decided(next, StepDecision(config, next, at))
  BY DEF due_sequence_step, Running
<1>2. /\ due_sequence_step(config, rt, at).rt = next
      /\ due_sequence_step(config, rt, at).decision = StepDecision(config, next, at)
  BY <1>1 DEF Decided
<1>3. CASE elapsed
  <2>1. next = advance_step(config, rt, rt.pending_target_state, at)
    BY <1>3
  <2>2. /\ StateOK(config, next)
        /\ Advanced(config, rt, next) \/ Finished(config, rt, next)
        /\ next.ambiguous = rt.ambiguous
        /\ next.pending_target_state # None => next.step_started_at = at
    BY <2>1, AdvanceStep
  <2>3. StepDecision(config, next, at) # "WaitTimedOut"
    <3>1. CASE next.pending_target_state = None
      BY <3>1 DEF StepDecision
    <3>2. CASE next.pending_target_state # None
      BY <2>2, <3>2, NotExpiredAtStart, StepDecisions
    <3> QED
      BY <3>1, <3>2
  <2>4. rt.step_started_at # at
    <3> SUFFICES ASSUME rt.step_started_at = at PROVE FALSE
      OBVIOUS
    <3>1. DurationSince(at, rt.step_started_at) = 0
      BY DEF DurationSince
    <3>2. current_action(config, rt).type = "Delay"
      BY <1>3 DEF OnStep
    <3>3. /\ current_action(config, rt).duration \in Nat
          /\ current_action(config, rt).duration >= Second
      BY <3>2, CurrentStep DEF ActionStepConfig, ValidStep
    <3> QED
      BY <1>3, <3>1, <3>3, SecondAssumption
  <2> HIDE DEF next
  <2> QED
    BY <1>2, <2>2, <2>3, <2>4, StepDecisions DEF DecisionOK, Moved
<1>4. CASE ~elapsed
  <2>1. next = rt
    BY <1>4
  <2>2. StateOK(config, rt) /\ Unmoved(rt, rt)
    BY DEF StateOK, Unmoved
  <2>3. rt.step_started_at = at => StepDecision(config, rt, at) # "WaitTimedOut"
    BY <2>2, NotExpiredAtStart, StepDecisions
  <2>4. StepDecision(config, rt, at) = "WaitTimedOut" => OnStep(config, rt, "WaitForJson")
    BY <2>2, StepDecisions DEF WaitExpired
  <2> HIDE DEF next
  <2> QED
    BY <1>2, <2>1, <2>2, <2>3, <2>4, StepDecisions DEF DecisionOK, Moved
<1> QED
  BY <1>3, <1>4

\* A state that may desire something new: what qualify leaves to due_attempt.
Undecided(rt) ==
  /\ rt \in RuntimeState
  /\ Idle(rt)
  /\ rt.hold_until = None
  /\ rt.desired_state = None => rt.applied_state = None

\* An idle state begins the sequence to what it desires, if that is not
\* applied already (due_attempt).
LEMMA DueAttemptIdle ==
  ASSUME NEW config \in StateConfigs, validate(config),
         NEW rt, Undecided(rt), NEW at \in Int
  PROVE  /\ DecisionOK(config, rt, due_attempt(config, rt, at))
         /\ due_attempt(config, rt, at).rt.ambiguous = rt.ambiguous
<1>1. rt \in RuntimeState /\ Idle(rt)
  BY DEF Undecided
<1>2. CASE rt.desired_state \in {None, rt.applied_state}
  <2>1. due_attempt(config, rt, at) = Decided(rt, "None")
    BY <1>1, <1>2 DEF due_attempt, Idle
  <2>2. rt.desired_state = rt.applied_state
    BY <1>2 DEF Undecided
  <2> QED
    BY <1>1, <2>1, <2>2 DEF Decided, DecisionOK, StateOK, Moved, Unmoved, TickDecision
<1>3. CASE rt.desired_state \notin {None, rt.applied_state}
  <2> DEFINE begun == [rt EXCEPT !.pending_target_state = rt.desired_state,
                                 !.action_step_index = 0,
                                 !.step_started_at = at,
                                 !.retry_attempt = 0,
                                 !.next_retry_at = None]
  <2>1. due_attempt(config, rt, at) = due_sequence_step(config, begun, at)
    BY <1>1, <1>3 DEF due_attempt, Idle
  <2>2. rt.desired_state \in BinaryState
    BY <1>1, <1>3 DEF RuntimeState, Option
  <2>3. begun \in RuntimeState
    <3>1. [rt EXCEPT !.pending_target_state = rt.desired_state] \in RuntimeState
      BY <1>1, <2>2, FieldValues, SetField
    <3> QED
      BY <3>1, FieldValues, SetField
  <2>4. action_count(config.to[rt.desired_state]) \in Nat \ {0}
    BY <2>2, ValidSteps
  <2>5. /\ begun.pending_target_state = rt.desired_state
        /\ begun.desired_state = rt.desired_state
        /\ begun.applied_state = rt.applied_state
        /\ begun.action_step_index = 0
        /\ begun.step_started_at = at
        /\ begun.hold_until = None
        /\ begun.ambiguous = rt.ambiguous
    BY <1>1 DEF RuntimeState, Undecided
  <2> HIDE DEF begun
  <2>6. Running(config, begun)
    BY <1>3, <2>2, <2>4, <2>5, NoneAssumption DEF Running
  <2>7. Begun(rt, begun)
    BY <1>1, <1>3, <2>2, <2>5 DEF Begun, Idle
  <2> DEFINE decided == due_sequence_step(config, begun, at)
  <2>8. /\ DecisionOK(config, begun, decided)
        /\ decided.rt.ambiguous = begun.ambiguous
        /\ Unmoved(begun, decided.rt)
        /\ decided.decision # "WaitTimedOut"
    BY <2>3, <2>5, <2>6, DueSequenceStep
  <2>9. Begun(rt, decided.rt)
    BY <2>7, <2>8 DEF Begun, Unmoved
  <2> QED
    BY <2>1, <2>5, <2>8, <2>9 DEF DecisionOK, Moved
<1> QED
  BY <1>2, <1>3

\* A state whose desire is met has nothing due (due_attempt).
LEMMA DueAttemptSettled ==
  ASSUME NEW config, NEW rt, NEW at,
         Idle(rt), rt.desired_state = rt.applied_state
  PROVE  due_attempt(config, rt, at) = Decided(rt, "None")
BY DEF due_attempt, Idle

\* The timers stay of their type and nothing else changes (update_timer).
LEMMA UpdateTimer ==
  ASSUME NEW config, NEW rt \in RuntimeState, NEW at \in Int
  PROVE  \E timers \in [BinaryState -> Option(Int)] :
           update_timer(config, rt, at) = [rt EXCEPT !.condition_started_at = timers]
<1> DEFINE timers == [target \in BinaryState |->
                        IF target \notin Matching(config, rt) THEN None
                        ELSE IF rt.condition_started_at[target] = None THEN at
                        ELSE rt.condition_started_at[target]]
<1>1. update_timer(config, rt, at) = [rt EXCEPT !.condition_started_at = timers]
  BY DEF update_timer
<1>2. rt.condition_started_at \in [BinaryState -> Option(Int)]
  BY DEF RuntimeState
<1>3. timers \in [BinaryState -> Option(Int)]
  BY <1>2, FieldValues
<1> HIDE DEF timers
<1> QED
  BY <1>1, <1>3

\* The thresholds of a state can be told apart: not the two zeros.
Separable(config) == ~SplitZero(config.to["On"], config.to["Off"])

\* A separable state never has both conditions satisfied (Satisfied).
LEMMA NeverBothSatisfied ==
  ASSUME NEW config \in StateConfigs, validate(config), Separable(config),
         NEW rt, rt.latest_value \in Float, NEW at
  PROVE  Satisfied(config, rt, at) # BinaryState
<1>1. /\ config.to["On"].op \in ComparisonOp /\ config.to["On"].value \in Float
      /\ config.to["Off"].op \in ComparisonOp /\ config.to["Off"].value \in Float
  BY DEF StateConfigs, TransitionConfig, BinaryState
<1>2. rt.latest_value \in Int
  BY MAssumption DEF Float
<1>3. ~(/\ matches(config.to["On"].op, rt.latest_value, config.to["On"].value)
        /\ matches(config.to["Off"].op, rt.latest_value, config.to["Off"].value))
  BY <1>1, <1>2, NoReadingSatisfiesBoth DEF validate, Separable
<1> QED
  BY <1>3 DEF Satisfied, Matching, BinaryState

\* The threshold part of a tick (qualify).
LEMMA Qualify ==
  ASSUME NEW config \in StateConfigs, validate(config),
         NEW rt \in RuntimeState, Idle(rt), rt.desired_state = rt.applied_state,
         rt.latest_value \in Float, NEW at \in Int
  PROVE  /\ DecisionOK(config, rt, qualify(config, rt, at))
         /\ Separable(config) => ~qualify(config, rt, at).rt.ambiguous
<1> DEFINE free == [rt EXCEPT !.hold_until = None]
           timed == update_timer(config, free, at)
           satisfied == Satisfied(config, timed, at)
           clear == [timed EXCEPT !.ambiguous = FALSE,
                                  !.desired_state = NewDesired(config, timed, satisfied)]
<1>1. free \in RuntimeState
  BY FieldValues, SetField
<1>2. /\ Idle(free)
      /\ free.desired_state = rt.desired_state
      /\ free.applied_state = rt.applied_state
      /\ free.hold_until = None
      /\ free.latest_value = rt.latest_value
      /\ Unmoved(rt, free)
  BY DEF RuntimeState, Idle, Unmoved
<1> HIDE DEF free
<1> HIDE DEF timed
<1>3. PICK timers \in [BinaryState -> Option(Int)] :
        timed = [free EXCEPT !.condition_started_at = timers]
  BY <1>1, UpdateTimer DEF timed
<1>4. /\ timed \in RuntimeState
      /\ Idle(timed)
      /\ timed.desired_state = rt.desired_state
      /\ timed.applied_state = rt.applied_state
      /\ timed.hold_until = None
      /\ timed.latest_value = rt.latest_value
      /\ Unmoved(rt, timed)
  <2>1. timed \in RuntimeState
    BY <1>1, <1>3, SetField
  <2> QED
    BY <1>1, <1>2, <1>3, <2>1 DEF RuntimeState, Idle, Unmoved
<1>5. CASE satisfied = BinaryState
  <2> DEFINE both == [timed EXCEPT !.ambiguous = TRUE]
  <2>1. qualify(config, rt, at) = Decided(both, "None")
    BY <1>5 DEF qualify, free, timed
  <2>2. both \in RuntimeState
    BY <1>4, SetField
  <2>3. Idle(both) /\ both.desired_state = both.applied_state /\ Unmoved(rt, both)
    BY <1>4 DEF RuntimeState, Idle, Unmoved
  <2>4. ~Separable(config)
    BY <1>4, <1>5, NeverBothSatisfied
  <2> HIDE DEF both
  <2>5. DecisionOK(config, rt, Decided(both, "None"))
    BY <2>2, <2>3 DEF Decided, DecisionOK, StateOK, Moved, TickDecision
  <2> QED
    BY <2>1, <2>4, <2>5
<1>6. CASE satisfied # BinaryState
  <2>1. qualify(config, rt, at) = due_attempt(config, clear, at)
    BY <1>6 DEF qualify, free, timed
  <2> DEFINE desired == NewDesired(config, timed, satisfied)
  <2>2. /\ desired \in Option(BinaryState)
        /\ desired = None => timed.applied_state = None
    <3>1. timed.desired_state \in Option(BinaryState)
      BY <1>4 DEF RuntimeState
    <3>2. config.default_state \in BinaryState
      BY DEF StateConfigs
    <3>3. desired \in BinaryState \/ desired = timed.desired_state
      BY <3>2 DEF NewDesired, BinaryState
    <3> QED
      BY <1>4, <3>1, <3>3, FieldValues, NoneAssumption
  <2> HIDE DEF desired, satisfied
  <2>3. clear = [[timed EXCEPT !.ambiguous = FALSE] EXCEPT !.desired_state = desired]
    BY DEF desired
  <2>4. [timed EXCEPT !.ambiguous = FALSE] \in RuntimeState
    BY <1>4, SetField
  <2>5. clear \in RuntimeState
    BY <2>2, <2>3, <2>4, SetField
  <2>6. /\ Idle(clear) /\ clear.hold_until = None
        /\ clear.desired_state = desired
        /\ clear.applied_state = timed.applied_state
        /\ clear.pending_target_state = timed.pending_target_state
        /\ clear.action_step_index = timed.action_step_index
        /\ clear.ambiguous = FALSE
    BY <1>4, <2>3 DEF RuntimeState, Idle
  <2> HIDE DEF clear
  <2>7. Undecided(clear)
    BY <2>2, <2>5, <2>6 DEF Undecided
  <2>8. /\ DecisionOK(config, clear, due_attempt(config, clear, at))
        /\ ~due_attempt(config, clear, at).rt.ambiguous
    BY <2>6, <2>7, DueAttemptIdle
  <2>9. \A next : /\ Moved(config, clear, next) => Moved(config, rt, next)
                  /\ Unmoved(clear, next) => Unmoved(rt, next)
    BY <1>4, <2>6 DEF Moved, Unmoved, Advanced, Finished, Begun
  <2> QED
    BY <2>1, <2>8, <2>9 DEF DecisionOK
<1> QED
  BY <1>5, <1>6

\* A tick takes a good state to a good state, by one move at most (tick).
LEMMA Tick ==
  ASSUME NEW config \in StateConfigs, validate(config),
         NEW rt, StateOK(config, rt), NEW at \in Int
  PROVE  /\ DecisionOK(config, rt, tick(config, rt, at))
         /\ Separable(config) /\ ~rt.ambiguous => ~tick(config, rt, at).rt.ambiguous
<1> DEFINE stale == IF rt.latest_sample_at = None THEN rt.stale
                    ELSE IsStale(config, rt, at)
           aged == [rt EXCEPT !.stale = stale]
<1>1. rt \in RuntimeState
  BY DEF StateOK
<1>2. stale \in BOOLEAN
  <2>1. IsStale(config, rt, at) \in BOOLEAN
    BY DEF IsStale
  <2>2. rt.stale \in BOOLEAN
    BY <1>1 DEF RuntimeState
  <2> QED
    BY <2>1, <2>2
<1> HIDE DEF stale
<1>3. /\ aged \in RuntimeState
      /\ aged.latest_value = rt.latest_value
      /\ aged.desired_state = rt.desired_state
      /\ aged.applied_state = rt.applied_state
      /\ aged.pending_target_state = rt.pending_target_state
      /\ aged.action_step_index = rt.action_step_index
      /\ aged.step_started_at = rt.step_started_at
      /\ aged.retry_attempt = rt.retry_attempt
      /\ aged.next_retry_at = rt.next_retry_at
      /\ aged.hold_until = rt.hold_until
      /\ aged.ambiguous = rt.ambiguous
  <2>1. aged \in RuntimeState
    BY <1>1, <1>2, SetField
  <2> QED
    BY <1>1, <2>1 DEF RuntimeState
<1>4. tick(config, rt, at) =
        IF rt.latest_value = None \/ rt.pending_target_state # None
        THEN due_attempt(config, aged, at)
        ELSE IF aged.stale THEN Decided(aged, "None")
        ELSE IF Held(aged, at) THEN Decided(InDwell(config, aged, at), "None")
        ELSE qualify(config, aged, at)
  BY DEF tick, stale
<1> HIDE DEF aged
<1>5. StateOK(config, aged) /\ Unmoved(rt, aged)
  BY <1>3 DEF StateOK, Idle, Running, Unmoved
<1>6. \A next : /\ Moved(config, aged, next) => Moved(config, rt, next)
                /\ Unmoved(aged, next) => Unmoved(rt, next)
  BY <1>3 DEF Moved, Unmoved, Advanced, Finished, Begun
<1>7. /\ DecisionOK(config, aged, tick(config, rt, at))
      /\ Separable(config) /\ ~rt.ambiguous => ~tick(config, rt, at).rt.ambiguous
  <2>1. CASE Running(config, aged)
    <3>1. tick(config, rt, at) = due_sequence_step(config, aged, at)
      BY <1>3, <1>4, <2>1, NoneAssumption DEF Running, due_attempt
    <3> QED
      BY <1>3, <2>1, <3>1, DueSequenceStep
  <2>2. CASE Idle(aged) /\ aged.desired_state = aged.applied_state
    <3>1. rt.pending_target_state = None
      BY <1>3, <2>2 DEF Idle
    <3>2. DecisionOK(config, aged, Decided(aged, "None"))
      BY <1>5 DEF Decided, DecisionOK, Moved, Unmoved, TickDecision
    <3>3. CASE rt.latest_value = None
      BY <1>3, <1>4, <2>2, <3>2, <3>3, DueAttemptSettled DEF Decided
    <3>4. CASE rt.latest_value # None /\ aged.stale
      BY <1>3, <1>4, <3>1, <3>2, <3>4 DEF Decided
    <3>5. CASE rt.latest_value # None /\ ~aged.stale /\ Held(aged, at)
      <4> DEFINE waiting == InDwell(config, aged, at)
      <4>1. tick(config, rt, at) = Decided(waiting, "None")
        BY <1>4, <3>1, <3>5
      <4>2. waiting \in RuntimeState
        BY <1>3, FieldValues, SetField DEF InDwell
      <4>3. /\ Idle(waiting) /\ waiting.desired_state = waiting.applied_state
            /\ Unmoved(aged, waiting) /\ waiting.ambiguous = aged.ambiguous
        BY <1>3, <2>2 DEF InDwell, RuntimeState, Idle, Unmoved
      <4> HIDE DEF waiting
      <4> QED
        BY <1>3, <4>1, <4>2, <4>3
           DEF Decided, DecisionOK, StateOK, Moved, TickDecision
    <3>6. CASE rt.latest_value # None /\ ~aged.stale /\ ~Held(aged, at)
      <4>1. tick(config, rt, at) = qualify(config, aged, at)
        BY <1>4, <3>1, <3>6
      <4>2. aged.latest_value \in Float
        BY <1>1, <1>3, <3>6 DEF RuntimeState, Option
      <4> QED
        BY <1>3, <2>2, <4>1, <4>2, Qualify
    <3> QED
      BY <3>3, <3>4, <3>5, <3>6
  <2> QED
    BY <1>5, <2>1, <2>2 DEF StateOK
<1> QED
  BY <1>6, <1>7 DEF DecisionOK

\* A timeout of a wait takes a good state to a good state, by one move at most
\* (record_wait_timeout).
LEMMA RecordWaitTimeout ==
  ASSUME NEW config \in StateConfigs, validate(config),
         NEW rt, StateOK(config, rt), NEW at \in Int,
         NEW target \in BinaryState, NEW step_index \in Nat
  PROVE  LET next == record_wait_timeout(config, rt, target, step_index, at)
         IN /\ StateOK(config, next)
            /\ Moved(config, rt, next)
            /\ next.ambiguous = rt.ambiguous
<1> DEFINE next == record_wait_timeout(config, rt, target, step_index, at)
<1>1. rt \in RuntimeState
  BY DEF StateOK
<1>2. CASE ~(Concerns(rt, target, step_index) /\ OnStep(config, rt, "WaitForJson"))
  BY <1>2 DEF record_wait_timeout, Moved, Unmoved
<1>3. CASE Concerns(rt, target, step_index) /\ OnStep(config, rt, "WaitForJson")
  <2>1. rt.pending_target_state = target
    BY <1>3 DEF Concerns
  <2>2. Running(config, rt)
    BY <2>1, NoneAssumption DEF StateOK, Idle
  <2>3. CASE current_action(config, rt).on_timeout = "Continue"
    <3>1. next = advance_step(config, rt, rt.pending_target_state, at)
      BY <1>3, <2>1, <2>3 DEF record_wait_timeout
    <3> HIDE DEF next
    <3> QED
      BY <1>1, <2>2, <3>1, AdvanceStep DEF Moved, next
  <2>4. CASE current_action(config, rt).on_timeout # "Continue"
    <3> DEFINE retry_at == at + backoff(rt.retry_attempt)
    <3>1. next = NewWindow(rt, retry_at)
      BY <1>3, <2>4 DEF record_wait_timeout
    <3>2. rt.retry_attempt \in 0 .. MaxAttempt
      BY <1>1 DEF RuntimeState
    <3>3. retry_at \in Int
      BY <3>2, FieldValues, BackoffBounds
    <3> HIDE DEF retry_at
    <3>4. NewWindow(rt, retry_at) \in RuntimeState
      <4> DEFINE counted == [rt EXCEPT !.retry_attempt =
                               SaturatingIncrement(rt.retry_attempt)]
                 opened == [counted EXCEPT !.step_started_at = retry_at]
      <4>1. counted \in RuntimeState
        <5>1. SaturatingIncrement(rt.retry_attempt) \in 0 .. MaxAttempt
          BY <3>2, FieldValues
        <5> QED
          BY <1>1, <5>1, SetField
      <4>2. opened \in RuntimeState
        BY <3>3, <4>1, FieldValues, SetField
      <4>3. [opened EXCEPT !.next_retry_at = retry_at] \in RuntimeState
        BY <3>3, <4>2, FieldValues, SetField
      <4> QED
        BY <4>3 DEF NewWindow
    <3>5. /\ Running(config, NewWindow(rt, retry_at))
          /\ Unmoved(rt, NewWindow(rt, retry_at))
          /\ NewWindow(rt, retry_at).ambiguous = rt.ambiguous
      BY <1>1, <2>2, <3>3, NoneAssumption DEF NewWindow, RuntimeState, Running, Unmoved
    <3> HIDE DEF next
    <3> QED
      BY <3>1, <3>4, <3>5 DEF StateOK, Moved, next
  <2> QED
    BY <2>3, <2>4
<1> QED
  BY <1>2, <1>3

\* So does the result of an attempt (record_action_result).
LEMMA RecordActionResult ==
  ASSUME NEW config \in StateConfigs, validate(config),
         NEW rt, StateOK(config, rt), NEW at \in Int,
         NEW target \in BinaryState, NEW step_index \in Nat, NEW result
  PROVE  LET next == record_action_result(config, rt, target, step_index, result, at)
         IN /\ StateOK(config, next)
            /\ Moved(config, rt, next)
            /\ next.ambiguous = rt.ambiguous
<1> DEFINE next == record_action_result(config, rt, target, step_index, result, at)
<1>1. rt \in RuntimeState
  BY DEF StateOK
<1>2. CASE ~Concerns(rt, target, step_index)
  BY <1>2 DEF record_action_result, Moved, Unmoved
<1>3. CASE Concerns(rt, target, step_index)
  <2>1. rt.pending_target_state = target /\ Running(config, rt)
    BY <1>3, NoneAssumption DEF Concerns, StateOK, Idle
  <2>2. rt.retry_attempt \in 0 .. MaxAttempt
    BY <1>1 DEF RuntimeState
  <2>3. CASE result = "Success"
    <3>1. next = advance_step(config, rt, rt.pending_target_state, at)
      BY <1>3, <2>1, <2>3 DEF record_action_result
    <3> HIDE DEF next
    <3> QED
      BY <1>1, <2>1, <3>1, AdvanceStep DEF Moved, next
  <2>4. CASE result = "Failure" /\ ~OnStep(config, rt, "WaitForJson")
    <3> DEFINE retry_at == at + backoff(rt.retry_attempt)
    <3>1. next = AfterFailure(rt, at)
      BY <1>3, <2>4 DEF record_action_result
    <3>2. retry_at \in Int
      BY <2>2, FieldValues, BackoffBounds
    <3>3. SaturatingIncrement(rt.retry_attempt) \in 0 .. MaxAttempt
      BY <2>2, FieldValues
    <3>4. AfterFailure(rt, at)
            = [[rt EXCEPT !.next_retry_at = retry_at]
                 EXCEPT !.retry_attempt = SaturatingIncrement(rt.retry_attempt)]
      BY <1>1 DEF AfterFailure, RuntimeState
    <3> HIDE DEF retry_at
    <3>5. [rt EXCEPT !.next_retry_at = retry_at] \in RuntimeState
      BY <1>1, <3>2, FieldValues, SetField
    <3>6. AfterFailure(rt, at) \in RuntimeState
      BY <3>3, <3>4, <3>5, SetField
    <3>7. /\ Running(config, AfterFailure(rt, at))
          /\ Unmoved(rt, AfterFailure(rt, at))
          /\ AfterFailure(rt, at).ambiguous = rt.ambiguous
      BY <1>1, <2>1 DEF AfterFailure, RuntimeState, Running, Unmoved
    <3> HIDE DEF next
    <3> QED
      BY <3>1, <3>6, <3>7 DEF StateOK, Moved, next
  <2>5. CASE result # "Success" /\ ~(result = "Failure" /\ ~OnStep(config, rt, "WaitForJson"))
    <3>1. next = AfterPoll(config, rt, at)
      BY <1>3, <2>5 DEF record_action_result
    <3>2. poll_every(config, rt) \in Nat
      BY <1>1, <2>1, CurrentStep DEF poll_every, OnStep, ActionStepConfig
    <3>3. at + poll_every(config, rt) \in Int
      BY <3>2
    <3>4. AfterPoll(config, rt, at) \in RuntimeState
      BY <1>1, <3>3, FieldValues, SetField DEF AfterPoll
    <3>5. /\ Running(config, AfterPoll(config, rt, at))
          /\ Unmoved(rt, AfterPoll(config, rt, at))
          /\ AfterPoll(config, rt, at).ambiguous = rt.ambiguous
      BY <1>1, <2>1 DEF AfterPoll, RuntimeState, Running, Unmoved
    <3> HIDE DEF next
    <3> QED
      BY <3>1, <3>4, <3>5 DEF StateOK, Moved, next
  <2> QED
    BY <2>3, <2>4, <2>5
<1> QED
  BY <1>2, <1>3

-----------------------------------------------------------------------------
\* What the methods do with the timers, the dwell and the reading.

\* A tick at an instant finds a fresh reading, or the dwell over.
Fresh(config, rt, at) == rt.latest_value # None /\ ~IsStale(config, rt, at)

Passed(rt, at) == rt.hold_until = None \/ rt.hold_until <= at

SameSample(rt, next) ==
  /\ next.latest_value = rt.latest_value
  /\ next.latest_sample_at = rt.latest_sample_at

\* A reading has the instant it was taken at.
SampleOK(rt) == rt.latest_value # None => rt.latest_sample_at # None

\* A tick leaves an idle state idle: a timer is cleared, goes on, if not broken
\* by a fresh reading, or begins, after the dwell.
Rested(config, rt, next, at) ==
  /\ next.pending_target_state = None
  /\ next.applied_state = rt.applied_state
  /\ \/ next.hold_until = rt.hold_until
     \/ next.hold_until = None /\ Passed(rt, at)
  /\ \A t \in BinaryState :
       \/ next.condition_started_at[t] = None
       \/ /\ next.condition_started_at[t] = rt.condition_started_at[t]
          /\ Fresh(config, rt, at) => t \in Matching(config, rt)
       \/ /\ next.condition_started_at[t] = at
          /\ t \in Matching(config, rt)
          /\ Passed(rt, at)

\* The condition has held for its duration.
Lasted(config, rt, target, at) ==
  /\ target \in Matching(config, rt)
  /\ \/ config.to[target].duration = 0
     \/ /\ rt.condition_started_at[target] # None
        /\ at - rt.condition_started_at[target] >= config.to[target].duration

\* A tick begins a sequence, on its threshold or by default.
Started(config, rt, next, at) ==
  /\ Fresh(config, rt, at)
  /\ Passed(rt, at)
  /\ next.pending_target_state \in BinaryState
  /\ next.applied_state = rt.applied_state
  /\ \/ Lasted(config, rt, next.pending_target_state, at)
     \/ /\ Matching(config, rt) = {}
        /\ rt.applied_state = None
        /\ next.pending_target_state = config.default_state

\* A sequence ends: its dwell begins and no timer runs.
Completed(config, rt, next, at) ==
  /\ rt.pending_target_state \in BinaryState
  /\ next.pending_target_state = None
  /\ next.applied_state = rt.pending_target_state
  /\ next.hold_until = at + config.to[rt.pending_target_state].hold_for
  /\ \A t \in BinaryState : next.condition_started_at[t] = None

\* A sequence goes on or ends.
Went(config, rt, next, at) ==
  /\ SameSample(rt, next)
  /\ \/ next.pending_target_state # None /\ next.applied_state = rt.applied_state
     \/ Completed(config, rt, next, at)

\* advance_step.
LEMMA AdvanceWent ==
  ASSUME NEW config, NEW rt \in RuntimeState, NEW at, rt.pending_target_state \in BinaryState
  PROVE  Went(config, rt, advance_step(config, rt, rt.pending_target_state, at), at)
<1> DEFINE target == rt.pending_target_state
<1>1. CASE rt.action_step_index + 1 < action_count(config.to[target])
  <2>1. advance_step(config, rt, target, at) = OnNextStep(rt, at)
    BY <1>1 DEF advance_step
  <2>2. Went(config, rt, OnNextStep(rt, at), at)
    BY NoneAssumption DEF OnNextStep, RuntimeState, Went, SameSample
  <2> QED
    BY <2>1, <2>2
<1>2. CASE ~(rt.action_step_index + 1 < action_count(config.to[target]))
  <2>1. advance_step(config, rt, target, at) = Applied(config, rt, target, at)
    BY <1>2 DEF advance_step
  <2>2. Went(config, rt, Applied(config, rt, target, at), at)
    BY DEF Applied, RuntimeState, Went, SameSample, Completed
  <2> QED
    BY <2>1, <2>2
<1> QED
  BY <1>1, <1>2

\* due_sequence_step.
LEMMA DueWent ==
  ASSUME NEW config, NEW rt \in RuntimeState, NEW at,
         rt.pending_target_state \in BinaryState, rt.step_started_at # None
  PROVE  Went(config, rt, due_sequence_step(config, rt, at).rt, at)
<1> DEFINE elapsed == /\ OnStep(config, rt, "Delay")
                      /\ DurationSince(at, rt.step_started_at)
                           >= current_action(config, rt).duration
           next == IF elapsed THEN advance_step(config, rt, rt.pending_target_state, at)
                   ELSE rt
<1>1. due_sequence_step(config, rt, at).rt = next
  BY DEF due_sequence_step, Decided
<1>2. Went(config, rt, rt, at)
  BY NoneAssumption DEF Went, SameSample
<1> QED
  BY <1>1, <1>2, AdvanceWent

\* record_wait_timeout.
LEMMA TimeoutWent ==
  ASSUME NEW config, NEW rt \in RuntimeState, NEW at, NEW target, NEW step_index,
         rt.pending_target_state \in BinaryState
  PROVE  Went(config, rt, record_wait_timeout(config, rt, target, step_index, at), at)
<1> DEFINE next == record_wait_timeout(config, rt, target, step_index, at)
           retry_at == at + backoff(rt.retry_attempt)
<1>1. CASE next = rt
  BY <1>1, NoneAssumption DEF Went, SameSample
<1>2. CASE next = advance_step(config, rt, target, at) /\ target = rt.pending_target_state
  BY <1>2, AdvanceWent
<1>3. CASE next = NewWindow(rt, retry_at)
  <2> HIDE DEF retry_at
  <2>1. Went(config, rt, NewWindow(rt, retry_at), at)
    BY NoneAssumption DEF NewWindow, RuntimeState, Went, SameSample
  <2> QED
    BY <1>3, <2>1
<1> QED
  BY <1>1, <1>2, <1>3 DEF record_wait_timeout, Concerns

\* record_action_result.
LEMMA ResultWent ==
  ASSUME NEW config, NEW rt \in RuntimeState, NEW at, NEW target, NEW step_index,
         NEW result, rt.pending_target_state \in BinaryState
  PROVE  Went(config, rt, record_action_result(config, rt, target, step_index, result, at), at)
<1> DEFINE next == record_action_result(config, rt, target, step_index, result, at)
<1>1. CASE next = rt
  BY <1>1, NoneAssumption DEF Went, SameSample
<1>2. CASE next = advance_step(config, rt, target, at) /\ target = rt.pending_target_state
  BY <1>2, AdvanceWent
<1>3. CASE next = AfterFailure(rt, at)
  <2>1. Went(config, rt, AfterFailure(rt, at), at)
    BY NoneAssumption DEF AfterFailure, RuntimeState, Went, SameSample
  <2> QED
    BY <1>3, <2>1
<1>4. CASE next = AfterPoll(config, rt, at)
  <2>1. Went(config, rt, AfterPoll(config, rt, at), at)
    BY NoneAssumption DEF AfterPoll, RuntimeState, Went, SameSample
  <2> QED
    BY <1>4, <2>1
<1> QED
  BY <1>1, <1>2, <1>3, <1>4 DEF record_action_result, Concerns

\* due_attempt, for an idle state.
LEMMA DueAttemptBegins ==
  ASSUME NEW config \in StateConfigs, validate(config),
         NEW rt, Undecided(rt), NEW at \in Int
  PROVE  LET next == due_attempt(config, rt, at).rt
         IN \/ next = rt
            \/ /\ SameSample(rt, next)
               /\ rt.desired_state \in BinaryState
               /\ rt.desired_state # rt.applied_state
               /\ next.pending_target_state = rt.desired_state
               /\ next.applied_state = rt.applied_state
<1>1. rt \in RuntimeState /\ Idle(rt)
  BY DEF Undecided
<1>2. CASE rt.desired_state \in {None, rt.applied_state}
  BY <1>1, <1>2 DEF due_attempt, Idle, Decided
<1>3. CASE rt.desired_state \notin {None, rt.applied_state}
  <2> DEFINE begun == [rt EXCEPT !.pending_target_state = rt.desired_state,
                                 !.action_step_index = 0,
                                 !.step_started_at = at,
                                 !.retry_attempt = 0,
                                 !.next_retry_at = None]
  <2>1. due_attempt(config, rt, at) = due_sequence_step(config, begun, at)
    BY <1>1, <1>3 DEF due_attempt, Idle
  <2>2. rt.desired_state \in BinaryState
    BY <1>1, <1>3 DEF RuntimeState, Option
  <2>3. begun \in RuntimeState
    <3>1. [rt EXCEPT !.pending_target_state = rt.desired_state] \in RuntimeState
      BY <1>1, <2>2, FieldValues, SetField
    <3> QED
      BY <3>1, FieldValues, SetField
  <2>4. action_count(config.to[rt.desired_state]) \in Nat \ {0}
    BY <2>2, ValidSteps
  <2>5. /\ begun.pending_target_state = rt.desired_state
        /\ begun.desired_state = rt.desired_state
        /\ begun.applied_state = rt.applied_state
        /\ begun.action_step_index = 0
        /\ begun.step_started_at = at
        /\ begun.hold_until = None
        /\ SameSample(rt, begun)
    BY <1>1 DEF RuntimeState, Undecided, SameSample
  <2> HIDE DEF begun
  <2>6. Running(config, begun)
    BY <1>3, <2>2, <2>4, <2>5, NoneAssumption DEF Running
  <2> DEFINE next == due_sequence_step(config, begun, at).rt
  <2>7. Unmoved(begun, next)
    BY <2>3, <2>5, <2>6, DueSequenceStep
  <2>8. SameSample(begun, next)
    BY <2>2, <2>3, <2>5, DueWent, NoneAssumption DEF Went
  <2> QED
    BY <1>3, <2>1, <2>2, <2>5, <2>7, <2>8 DEF Unmoved, SameSample
<1> QED
  BY <1>2, <1>3

\* What update_timer makes of rt, once the dwell is over.
TimersUpToDate(config, rt, timed, at) ==
  /\ timed \in RuntimeState
  /\ SameSample(rt, timed)
  /\ timed.hold_until = None
  /\ timed.desired_state = rt.desired_state
  /\ timed.applied_state = rt.applied_state
  /\ Idle(rt) => Idle(timed)
  /\ Matching(config, timed) = Matching(config, rt)
  /\ \A t \in BinaryState :
       timed.condition_started_at[t] =
         IF t \notin Matching(config, rt) THEN None
         ELSE IF rt.condition_started_at[t] = None THEN at
         ELSE rt.condition_started_at[t]

LEMMA TimersAfterDwell ==
  ASSUME NEW config, NEW rt \in RuntimeState, NEW at \in Int,
         NEW timed, timed = update_timer(config, [rt EXCEPT !.hold_until = None], at)
  PROVE  TimersUpToDate(config, rt, timed, at)
<1> DEFINE free == [rt EXCEPT !.hold_until = None]
           timers == [t \in BinaryState |->
                        IF t \notin Matching(config, rt) THEN None
                        ELSE IF rt.condition_started_at[t] = None THEN at
                        ELSE rt.condition_started_at[t]]
<1>1. free \in RuntimeState
  BY FieldValues, SetField
<1>2. /\ free.condition_started_at = rt.condition_started_at
      /\ Matching(config, free) = Matching(config, rt)
  BY DEF RuntimeState, Matching
<1>3. timed = [free EXCEPT !.condition_started_at = timers]
  BY <1>2 DEF update_timer
<1>4. rt.condition_started_at \in [BinaryState -> Option(Int)]
  BY DEF RuntimeState
<1>5. timers \in [BinaryState -> Option(Int)]
  BY <1>4, FieldValues
<1>6. \A t \in BinaryState :
        timers[t] = IF t \notin Matching(config, rt) THEN None
                    ELSE IF rt.condition_started_at[t] = None THEN at
                    ELSE rt.condition_started_at[t]
  OBVIOUS
<1> HIDE DEF timers
<1>7. timed \in RuntimeState
  <2> HIDE DEF free
  <2>1. \A x \in [BinaryState -> Option(Int)] :
          [free EXCEPT !.condition_started_at = x] \in RuntimeState
    BY <1>1, SetField
  <2> QED
    BY <1>3, <1>5, <2>1
<1>8. /\ timed.latest_value = rt.latest_value
      /\ timed.latest_sample_at = rt.latest_sample_at
      /\ timed.hold_until = None
      /\ timed.desired_state = rt.desired_state
      /\ timed.applied_state = rt.applied_state
      /\ timed.condition_started_at = timers
      /\ Idle(rt) => Idle(timed)
  <2>1. /\ free.latest_value = rt.latest_value
        /\ free.latest_sample_at = rt.latest_sample_at
        /\ free.hold_until = None
        /\ free.desired_state = rt.desired_state
        /\ free.applied_state = rt.applied_state
        /\ Idle(rt) => Idle(free)
    BY DEF RuntimeState, Idle
  <2> HIDE DEF free
  <2>2. /\ timed.latest_value = free.latest_value
        /\ timed.latest_sample_at = free.latest_sample_at
        /\ timed.hold_until = free.hold_until
        /\ timed.desired_state = free.desired_state
        /\ timed.applied_state = free.applied_state
        /\ timed.condition_started_at = timers
    BY <1>1, <1>3 DEF RuntimeState
  <2>3. Idle(free) => Idle(timed)
    BY <1>1, <1>3 DEF RuntimeState, Idle
  <2> QED
    BY <2>1, <2>2, <2>3
<1>9. Matching(config, timed) = Matching(config, rt)
  BY <1>8 DEF Matching
<1> QED
  BY <1>6, <1>7, <1>8, <1>9 DEF TimersUpToDate, SameSample

\* A condition satisfied with the timers up to date has held for its duration.
LEMMA SatisfiedLasted ==
  ASSUME NEW config \in StateConfigs, NEW rt \in RuntimeState, NEW timed, NEW at \in Int,
         NEW target \in BinaryState,
         Matching(config, timed) = Matching(config, rt),
         target \in Satisfied(config, timed, at),
         timed.condition_started_at[target]
           = IF target \notin Matching(config, rt) THEN None
             ELSE IF rt.condition_started_at[target] = None THEN at
             ELSE rt.condition_started_at[target]
  PROVE  Lasted(config, rt, target, at)
<1> DEFINE duration == config.to[target].duration
           began == rt.condition_started_at[target]
<1>1. duration \in Nat
  BY DEF StateConfigs, TransitionConfig
<1>2. began \in Option(Int)
  BY DEF RuntimeState
<1>3. /\ target \in Matching(config, rt)
      /\ DurationSince(at, timed.condition_started_at[target]) >= duration
  BY DEF Satisfied
<1>4. CASE began = None
  <2>1. DurationSince(at, timed.condition_started_at[target]) = 0
    BY <1>3, <1>4 DEF DurationSince
  <2>2. duration = 0
    BY <1>1, <1>3, <2>1
  <2> QED
    BY <1>3, <2>2 DEF Lasted
<1>5. CASE began # None
  <2>1. began \in Int
    BY <1>2, <1>5 DEF Option
  <2>2. DurationSince(at, began) >= duration
    BY <1>3, <1>5
  <2> HIDE DEF began, duration
  <2>3. duration = 0 \/ at - began >= duration
    BY <1>1, <2>1, <2>2 DEF DurationSince
  <2> QED
    BY <1>3, <1>5, <2>3 DEF Lasted, began, duration
<1> QED
  BY <1>4, <1>5

\* qualify, for a fresh reading after the dwell.
LEMMA QualifyTimes ==
  ASSUME NEW config \in StateConfigs, validate(config),
         NEW rt \in RuntimeState, Idle(rt), rt.desired_state = rt.applied_state,
         NEW at \in Int, Fresh(config, rt, at), Passed(rt, at)
  PROVE  LET next == qualify(config, rt, at).rt
         IN /\ SameSample(rt, next)
            /\ Rested(config, rt, next, at) \/ Started(config, rt, next, at)
<1> DEFINE timed == update_timer(config, [rt EXCEPT !.hold_until = None], at)
           satisfied == Satisfied(config, timed, at)
           desired == NewDesired(config, timed, satisfied)
           next == qualify(config, rt, at).rt
<1>1. /\ timed \in RuntimeState
      /\ SameSample(rt, timed)
      /\ timed.hold_until = None
      /\ timed.desired_state = rt.desired_state
      /\ timed.applied_state = rt.applied_state
      /\ Idle(timed)
      /\ Matching(config, timed) = Matching(config, rt)
      /\ \A t \in BinaryState :
           timed.condition_started_at[t] =
             IF t \notin Matching(config, rt) THEN None
             ELSE IF rt.condition_started_at[t] = None THEN at
             ELSE rt.condition_started_at[t]
  <2>1. timed = update_timer(config, [rt EXCEPT !.hold_until = None], at)
    OBVIOUS
  <2> HIDE DEF timed
  <2>2. TimersUpToDate(config, rt, timed, at)
    BY <2>1, TimersAfterDwell
  <2> QED
    BY <2>2 DEF TimersUpToDate
<1>2. qualify(config, rt, at) =
        IF satisfied = BinaryState
        THEN Decided([timed EXCEPT !.ambiguous = TRUE], "None")
        ELSE due_attempt(config,
               [timed EXCEPT !.ambiguous = FALSE, !.desired_state = desired], at)
  BY DEF qualify
<1>3. \A target \in BinaryState \cap satisfied : Lasted(config, rt, target, at)
  BY <1>1, SatisfiedLasted
<1> HIDE DEF timed
<1>4. ASSUME NEW still, SameSample(timed, still), still.hold_until = None,
             still.pending_target_state = None,
             still.applied_state = timed.applied_state,
             still.condition_started_at = timed.condition_started_at
      PROVE  SameSample(rt, still) /\ Rested(config, rt, still, at)
  BY <1>1, <1>4 DEF SameSample, Rested
<1>5. CASE satisfied = BinaryState
  <2>1. next = [timed EXCEPT !.ambiguous = TRUE]
    BY <1>2, <1>5 DEF Decided
  <2>2. /\ SameSample(timed, next)
        /\ next.hold_until = None
        /\ next.pending_target_state = None
        /\ next.applied_state = timed.applied_state
        /\ next.condition_started_at = timed.condition_started_at
    BY <1>1, <2>1 DEF RuntimeState, SameSample, Idle
  <2> QED
    BY <1>4, <2>2
<1>6. CASE satisfied # BinaryState
  <2> DEFINE clear == [timed EXCEPT !.ambiguous = FALSE]
             decided == [clear EXCEPT !.desired_state = desired]
  <2>1. next = due_attempt(config, decided, at).rt
    BY <1>1, <1>2, <1>6 DEF RuntimeState
  <2>2. /\ desired \in Option(BinaryState)
        /\ desired = None => timed.applied_state = None
        /\ \/ desired = timed.desired_state
           \/ desired \in BinaryState \cap satisfied
           \/ /\ Matching(config, timed) = {}
              /\ timed.applied_state = None
              /\ desired = config.default_state
    <3>1. timed.desired_state \in Option(BinaryState)
      BY <1>1 DEF RuntimeState
    <3>2. config.default_state \in BinaryState
      BY DEF StateConfigs
    <3>3. \/ desired = timed.desired_state
          \/ desired \in BinaryState \cap satisfied
          \/ /\ Matching(config, timed) = {}
             /\ timed.applied_state = None
             /\ desired = config.default_state
      BY DEF NewDesired, BinaryState
    <3> QED
      BY <1>1, <3>1, <3>2, <3>3, FieldValues, NoneAssumption
  <2> HIDE DEF desired, satisfied, next
  <2>3. decided \in RuntimeState
    <3>1. clear \in RuntimeState
      BY <1>1, SetField
    <3> QED
      BY <2>2, <3>1, SetField
  <2>4. /\ SameSample(timed, decided)
        /\ Idle(decided)
        /\ decided.desired_state = desired
        /\ decided.hold_until = None
        /\ decided.pending_target_state = None
        /\ decided.applied_state = timed.applied_state
        /\ decided.condition_started_at = timed.condition_started_at
    BY <1>1, <2>3 DEF RuntimeState, SameSample, Idle
  <2>5. Undecided(decided)
    BY <2>2, <2>3, <2>4 DEF Undecided
  <2> HIDE DEF decided
  <2>6. CASE next = decided
    BY <1>4, <2>4, <2>6 DEF next
  <2>7. CASE /\ SameSample(decided, next)
             /\ desired \in BinaryState
             /\ desired # decided.applied_state
             /\ next.pending_target_state = desired
             /\ next.applied_state = decided.applied_state
    <3>1. SameSample(rt, next) /\ next.applied_state = rt.applied_state
      BY <1>1, <2>4, <2>7 DEF SameSample
    <3>2. \/ desired \in BinaryState \cap satisfied
          \/ /\ Matching(config, rt) = {}
             /\ rt.applied_state = None
             /\ desired = config.default_state
      BY <1>1, <2>2, <2>4, <2>7
    <3>3. Started(config, rt, next, at)
      BY <1>3, <2>7, <3>1, <3>2 DEF Started
    <3> QED
      BY <3>1, <3>3 DEF next
  <2> QED
    BY <2>1, <2>4, <2>5, <2>6, <2>7, DueAttemptBegins
<1> QED
  BY <1>5, <1>6

\* tick, for an idle state.
LEMMA TickTimesIdle ==
  ASSUME NEW config \in StateConfigs, validate(config),
         NEW rt \in RuntimeState, Idle(rt), rt.desired_state = rt.applied_state,
         rt.latest_value # None => rt.latest_sample_at # None,
         NEW at \in Int
  PROVE  LET next == tick(config, rt, at).rt
         IN /\ SameSample(rt, next)
            /\ Rested(config, rt, next, at) \/ Started(config, rt, next, at)
<1> DEFINE stale == IF rt.latest_sample_at = None THEN rt.stale
                    ELSE IsStale(config, rt, at)
           aged == [rt EXCEPT !.stale = stale]
           next == tick(config, rt, at).rt
<1>1. stale \in BOOLEAN
  <2>1. IsStale(config, rt, at) \in BOOLEAN
    BY DEF IsStale
  <2>2. rt.stale \in BOOLEAN
    BY DEF RuntimeState
  <2> QED
    BY <2>1, <2>2
<1>2. rt.latest_value # None => stale = IsStale(config, rt, at)
  OBVIOUS
<1>3. tick(config, rt, at) =
        IF rt.latest_value = None
        THEN due_attempt(config, aged, at)
        ELSE IF aged.stale THEN Decided(aged, "None")
        ELSE IF Held(aged, at) THEN Decided(InDwell(config, aged, at), "None")
        ELSE qualify(config, aged, at)
  BY DEF tick, Idle
<1> HIDE DEF stale
<1>4. /\ aged \in RuntimeState
      /\ Idle(aged)
      /\ SameSample(rt, aged)
      /\ aged.stale = stale
      /\ aged.desired_state = rt.desired_state
      /\ aged.applied_state = rt.applied_state
      /\ aged.hold_until = rt.hold_until
      /\ aged.condition_started_at = rt.condition_started_at
  <2>1. aged \in RuntimeState
    BY <1>1, SetField
  <2> QED
    BY <2>1 DEF Idle, RuntimeState, SameSample
<1> HIDE DEF aged
<1>5. /\ Fresh(config, aged, at) <=> Fresh(config, rt, at)
      /\ Passed(aged, at) <=> Passed(rt, at)
      /\ Matching(config, aged) = Matching(config, rt)
  BY <1>4 DEF SameSample, Fresh, IsStale, Passed, Matching
<1>6. ~Fresh(config, rt, at) => SameSample(rt, aged) /\ Rested(config, rt, aged, at)
  BY <1>4 DEF Rested, Idle
<1>7. CASE rt.latest_value = None
  <2>1. next = aged
    BY <1>3, <1>4, <1>7, DueAttemptSettled DEF Decided
  <2> QED
    BY <1>6, <1>7, <2>1 DEF Fresh
<1>8. CASE rt.latest_value # None /\ aged.stale
  <2>1. next = aged
    BY <1>3, <1>8 DEF Decided
  <2> QED
    BY <1>2, <1>4, <1>6, <1>8, <2>1 DEF Fresh
<1>9. CASE rt.latest_value # None /\ ~aged.stale /\ Held(aged, at)
  <2>1. next = InDwell(config, aged, at)
    BY <1>3, <1>9 DEF Decided
  <2>2. /\ SameSample(aged, next)
        /\ next.pending_target_state = None
        /\ next.applied_state = aged.applied_state
        /\ next.hold_until = aged.hold_until
        /\ \A t \in BinaryState : next.condition_started_at[t] = None
    BY <1>4, <2>1 DEF InDwell, RuntimeState, SameSample, Idle
  <2> QED
    BY <1>4, <2>2 DEF Rested, SameSample
<1>10. CASE rt.latest_value # None /\ ~aged.stale /\ ~Held(aged, at)
  <2>1. next = qualify(config, aged, at).rt
    BY <1>3, <1>10
  <2>2. Fresh(config, aged, at)
    BY <1>2, <1>4, <1>5, <1>10 DEF Fresh
  <2>3. Passed(aged, at)
    BY <1>4, <1>10 DEF Held, Passed, RuntimeState, Option
  <2>4. /\ SameSample(aged, next)
        /\ Rested(config, aged, next, at) \/ Started(config, aged, next, at)
    BY <1>4, <2>1, <2>2, <2>3, QualifyTimes
  <2>5. Rested(config, aged, next, at) => Rested(config, rt, next, at)
    BY <1>4, <1>5 DEF Rested
  <2>6. Started(config, aged, next, at) => Started(config, rt, next, at)
    BY <1>4, <1>5 DEF Started, Lasted
  <2> QED
    BY <1>4, <2>4, <2>5, <2>6 DEF SameSample
<1> QED
  BY <1>7, <1>8, <1>9, <1>10

\* tick, for a state in a sequence.
LEMMA TickTimesRunning ==
  ASSUME NEW config \in StateConfigs,
         NEW rt \in RuntimeState, Running(config, rt), NEW at \in Int
  PROVE  Went(config, rt, tick(config, rt, at).rt, at)
<1> DEFINE stale == IF rt.latest_sample_at = None THEN rt.stale
                    ELSE IsStale(config, rt, at)
           aged == [rt EXCEPT !.stale = stale]
           next == tick(config, rt, at).rt
<1>1. stale \in BOOLEAN
  <2>1. IsStale(config, rt, at) \in BOOLEAN
    BY DEF IsStale
  <2>2. rt.stale \in BOOLEAN
    BY DEF RuntimeState
  <2> QED
    BY <2>1, <2>2
<1>2. rt.pending_target_state # None
  BY NoneAssumption DEF Running
<1>3. tick(config, rt, at) = due_attempt(config, aged, at)
  BY <1>2 DEF tick
<1> HIDE DEF stale
<1>4. /\ aged \in RuntimeState
      /\ SameSample(rt, aged)
      /\ aged.pending_target_state = rt.pending_target_state
      /\ aged.applied_state = rt.applied_state
      /\ aged.step_started_at = rt.step_started_at
  <2>1. aged \in RuntimeState
    BY <1>1, SetField
  <2> QED
    BY <2>1 DEF RuntimeState, SameSample
<1> HIDE DEF aged
<1>5. next = due_sequence_step(config, aged, at).rt
  BY <1>2, <1>3, <1>4 DEF due_attempt
<1>6. Went(config, aged, next, at)
  BY <1>4, <1>5, DueWent DEF Running
<1> QED
  BY <1>4, <1>6 DEF Went, SameSample, Completed

\* collect_due_actions, for one state: an idle state rests or begins, and a
\* sequence goes on or ends.
LEMMA CollectTimes ==
  ASSUME NEW config \in StateConfigs, validate(config),
         NEW rt, StateOK(config, rt),
         rt.latest_value # None => rt.latest_sample_at # None,
         NEW at \in Int
  PROVE  LET next == Collected(config, rt, at).rt
         IN /\ SameSample(rt, next)
            /\ IF rt.pending_target_state = None
               THEN Rested(config, rt, next, at) \/ Started(config, rt, next, at)
               ELSE Went(config, rt, next, at)
<1> DEFINE decided == tick(config, rt, at)
           next == Collected(config, rt, at).rt
<1>1. DecisionOK(config, rt, decided)
  BY Tick
<1>2. rt \in RuntimeState
  BY DEF StateOK
<1>3. /\ SameSample(rt, decided.rt)
      /\ IF rt.pending_target_state = None
         THEN Rested(config, rt, decided.rt, at) \/ Started(config, rt, decided.rt, at)
         ELSE Went(config, rt, decided.rt, at)
  <2>1. CASE Idle(rt) /\ rt.desired_state = rt.applied_state
    BY <1>2, <2>1, TickTimesIdle DEF Idle
  <2>2. CASE Running(config, rt)
    BY <1>2, <2>2, TickTimesRunning, NoneAssumption DEF Running, Went
  <2> QED
    BY <2>1, <2>2 DEF StateOK
<1>4. Collected(config, rt, at) =
        CASE decided.decision = "None" -> [rt |-> decided.rt, due |-> None]
          [] decided.decision = "WaitTimedOut" -> TimedOut(config, decided.rt, at)
          [] decided.decision = "Attempt" ->
               [rt |-> decided.rt, due |-> DueActionOf(config, decided.rt)]
  BY DEF Collected
<1> HIDE DEF decided
<1>5. CASE decided.decision \in {"None", "Attempt"}
  BY <1>3, <1>4, <1>5
<1>6. CASE decided.decision = "WaitTimedOut"
  <2> DEFINE mid == decided.rt
  <2>1. next = record_wait_timeout(config, mid, mid.pending_target_state,
                                   mid.action_step_index, at)
    BY <1>4, <1>6 DEF TimedOut
  <2>2. /\ mid \in RuntimeState
        /\ mid.pending_target_state \in BinaryState
        /\ mid.pending_target_state = rt.pending_target_state
        /\ mid.applied_state = rt.applied_state
    BY <1>1, <1>6 DEF DecisionOK, StateOK, Running, Unmoved
  <2> HIDE DEF mid, next
  <2>3. Went(config, mid, next, at)
    BY <2>1, <2>2, TimeoutWent
  <2>4. Went(config, rt, next, at)
    BY <1>3, <2>2, <2>3 DEF Went, SameSample, Completed, mid
  <2> QED
    BY <2>2, <2>4, NoneAssumption DEF Went, next
<1> QED
  BY <1>1, <1>5, <1>6 DEF DecisionOK, TickDecision

\* record_action_result, for one state.
LEMMA RecordTimes ==
  ASSUME NEW config, NEW rt \in RuntimeState, NEW at, NEW due, NEW result,
         rt.pending_target_state \in BinaryState
  PROVE  Went(config, rt, Recorded(config, rt, due, result, at), at)
BY TimeoutWent, ResultWent DEF Recorded

-----------------------------------------------------------------------------
\* What becomes of a request.

\* A tick leaves a request to its answer, and it is due only once the time of
\* its next attempt has come (due_sequence_step).
LEMMA TickKeepsRequest ==
  ASSUME NEW config \in StateConfigs, validate(config),
         NEW rt, StateOK(config, rt), OnStep(config, rt, "Request"), NEW at \in Int
  PROVE  LET collected == Collected(config, rt, at)
         IN /\ Unmoved(rt, collected.rt)
            /\ collected.rt.next_retry_at = rt.next_retry_at
            /\ collected.rt.retry_attempt = rt.retry_attempt
            /\ collected.due # None => Reached(at, rt.next_retry_at)
<1> DEFINE stale == IF rt.latest_sample_at = None THEN rt.stale
                    ELSE IsStale(config, rt, at)
           aged == [rt EXCEPT !.stale = stale]
           decided == tick(config, rt, at)
<1>1. rt \in RuntimeState /\ Running(config, rt)
  BY DEF StateOK, OnStep, Idle
<1>2. /\ Unmoved(rt, aged) /\ aged.pending_target_state # None
      /\ aged.next_retry_at = rt.next_retry_at
      /\ aged.retry_attempt = rt.retry_attempt
  BY <1>1 DEF Unmoved, RuntimeState, OnStep
<1>3. decided = due_attempt(config, aged, at)
  BY DEF tick, OnStep
<1> HIDE DEF stale
<1>4. ~OnStep(config, aged, "Delay")
  BY <1>2 DEF OnStep, current_action, Unmoved
<1>5. decided = Decided(aged, StepDecision(config, aged, at))
  BY <1>2, <1>3, <1>4 DEF due_attempt, due_sequence_step
<1> HIDE DEF aged, decided
<1>6. decided.rt = aged /\ decided.decision = StepDecision(config, aged, at)
  BY <1>5 DEF Decided
<1>7. ~OnStep(config, aged, "WaitForJson")
  BY <1>2 DEF OnStep, current_action, Unmoved
<1>8. StepDecision(config, aged, at) \in {"None", "Attempt"}
  BY <1>7 DEF StepDecision, WaitExpired
<1>9. StepDecision(config, aged, at) = "Attempt" => Reached(at, aged.next_retry_at)
  BY DEF StepDecision
<1>10. /\ Collected(config, rt, at).rt = decided.rt
       /\ Collected(config, rt, at).due # None => decided.decision = "Attempt"
  BY <1>6, <1>8 DEF Collected, decided
<1> QED
  BY <1>2, <1>6, <1>9, <1>10

\* The answer to a request moves its state exactly if it is a success
\* (record_action_result).
LEMMA RecordRequest ==
  ASSUME NEW config \in StateConfigs, validate(config),
         NEW rt, StateOK(config, rt), OnStep(config, rt, "Request"), NEW at \in Int,
         NEW due, Concerns(rt, due.target, due.step_index), NEW result
  PROVE  Unmoved(rt, Recorded(config, rt, due, result, at)) <=> result # "Success"
<1> DEFINE next == Recorded(config, rt, due, result, at)
<1>1. rt \in RuntimeState /\ Running(config, rt)
  BY DEF StateOK, OnStep, Idle
<1>2. /\ ~OnStep(config, rt, "WaitForJson")
      /\ due.target = rt.pending_target_state
  BY DEF OnStep, Concerns
<1>3. next = record_action_result(config, rt, due.target, due.step_index, result, at)
  BY <1>2 DEF Recorded, wait_timed_out, WaitExpired
<1>4. CASE result = "Success"
  <2>1. next = advance_step(config, rt, rt.pending_target_state, at)
    BY <1>2, <1>3, <1>4 DEF record_action_result
  <2> HIDE DEF next
  <2>2. Advanced(config, rt, next) \/ Finished(config, rt, next)
    BY <1>1, <2>1, AdvanceStep
  <2>3. rt.action_step_index \in Nat
    BY <1>1 DEF RuntimeState
  <2>4. ~Unmoved(rt, next)
    BY <2>2, <2>3, NoneAssumption DEF Advanced, Finished, Unmoved
  <2> QED
    BY <1>4, <2>4 DEF next
<1>5. CASE result # "Success"
  <2>1. next = AfterFailure(rt, at) \/ next = AfterPoll(config, rt, at)
    BY <1>3, <1>5 DEF record_action_result
  <2>2. Unmoved(rt, AfterFailure(rt, at)) /\ Unmoved(rt, AfterPoll(config, rt, at))
    BY <1>1 DEF AfterFailure, AfterPoll, Unmoved, RuntimeState
  <2> HIDE DEF next
  <2> QED
    BY <1>5, <2>1, <2>2 DEF next
<1> QED
  BY <1>4, <1>5

-----------------------------------------------------------------------------
\* The engine.

\* What the place the tick task has reached says about what it holds.
Control ==
  /\ pc \in {"waiting", "collecting", "stopped"} => actions = NoActions
  /\ pc \in {"collecting", "recording"} => now \in Int
  /\ pc = "sent" =>
       /\ limit \in Int
       /\ limit >= 0
       /\ \A i \in States :
            IsNext(i) /\ actions[i].deadline # None => actions[i].deadline >= limit

StatesOK == \A i \in States : StateOK(Config[i], states[i])

\* The inductive invariant.
IInv ==
  /\ TypeOK
  /\ StatesOK
  /\ DueActionsAreCurrent
  /\ Control

LEMMA ConfigOK ==
  ASSUME NEW i \in States
  PROVE  Config[i] \in StateConfigs /\ validate(Config[i])
BY ConfigAssumption DEF States

-----------------------------------------------------------------------------
\* The steps of the engine, state by state.

\* A sample disturbs no sequence (observe_sample).
LEMMA ObserveOne ==
  ASSUME NEW config \in StateConfigs, NEW rt, StateOK(config, rt),
         NEW sample \in Samples
  PROVE  LET next == observe_sample(config, rt, sample, 0)
         IN /\ StateOK(config, next)
            /\ Unmoved(rt, next)
            /\ next.ambiguous = rt.ambiguous
<1>1. rt \in RuntimeState
  BY DEF StateOK
<1>2. CASE sample.serial # config.serial
  BY <1>2 DEF observe_sample, Unmoved
<1>3. CASE sample.serial = config.serial
  <2> DEFINE value == sample.value[config.field]
             valued == [rt EXCEPT !.latest_value = value]
             next == [valued EXCEPT !.latest_sample_at = 0]
  <2>1. observe_sample(config, rt, sample, 0) = next
    BY <1>3 DEF observe_sample
  <2>2. value \in Option(Float)
    <3>1. sample.value \in [MeasurementField -> Float]
      BY SamplesAssumption
    <3>2. config.field \in MeasurementField
      BY DEF StateConfigs
    <3> QED
      BY <3>1, <3>2 DEF Option
  <2> HIDE DEF value
  <2>3. valued \in RuntimeState
    BY <1>1, <2>2, SetField
  <2>4. next \in RuntimeState
    <3>1. 0 \in Option(Int)
      BY DEF Option
    <3> HIDE DEF valued
    <3> QED
      BY <2>3, <3>1, SetField
  <2>5. /\ next.desired_state = rt.desired_state
        /\ next.applied_state = rt.applied_state
        /\ next.pending_target_state = rt.pending_target_state
        /\ next.action_step_index = rt.action_step_index
        /\ next.step_started_at = rt.step_started_at
        /\ next.retry_attempt = rt.retry_attempt
        /\ next.next_retry_at = rt.next_retry_at
        /\ next.hold_until = rt.hold_until
        /\ next.ambiguous = rt.ambiguous
    BY <1>1 DEF RuntimeState
  <2> HIDE DEF next
  <2> QED
    BY <2>1, <2>4, <2>5 DEF StateOK, Idle, Running, Unmoved
<1> QED
  BY <1>2, <1>3

\* Ageing keeps an instant an instant and None None.
LEMMA OlderInstant ==
  ASSUME NEW at \in Option(Int)
  PROVE  Older(at) \in Option(Int) /\ (Older(at) = None <=> at = None)
BY BoundsAssumption, NoneAssumption DEF Older, Option

\* Time disturbs no sequence (Elapse).
LEMMA OlderOne ==
  ASSUME NEW config, NEW rt, StateOK(config, rt)
  PROVE  /\ StateOK(config, OlderState(rt))
         /\ Unmoved(rt, OlderState(rt))
         /\ OlderState(rt).ambiguous = rt.ambiguous
<1>1. rt \in RuntimeState
  BY DEF StateOK
<1>2. /\ rt.latest_sample_at \in Option(Int)
      /\ rt.step_started_at \in Option(Int)
      /\ rt.next_retry_at \in Option(Int)
      /\ rt.hold_until \in Option(Int)
      /\ \A target \in BinaryState : rt.condition_started_at[target] \in Option(Int)
  BY <1>1 DEF RuntimeState
<1> DEFINE timers == [target \in BinaryState |-> Older(rt.condition_started_at[target])]
           r1 == [rt EXCEPT !.latest_sample_at = Older(rt.latest_sample_at)]
           r2 == [r1 EXCEPT !.condition_started_at = timers]
           r3 == [r2 EXCEPT !.step_started_at = Older(rt.step_started_at)]
           r4 == [r3 EXCEPT !.next_retry_at = Older(rt.next_retry_at)]
           r5 == [r4 EXCEPT !.hold_until = Older(rt.hold_until)]
<1>3. OlderState(rt) = r5
  BY <1>1 DEF OlderState, RuntimeState
<1>4. timers \in [BinaryState -> Option(Int)]
  BY <1>2, OlderInstant
<1> HIDE DEF timers
<1>5. r5 \in RuntimeState
  <2>1. r1 \in RuntimeState
    BY <1>1, <1>2, OlderInstant, SetField
  <2>2. r2 \in RuntimeState
    BY <1>4, <2>1, SetField
  <2>3. r3 \in RuntimeState
    BY <1>2, <2>2, OlderInstant, SetField
  <2>4. r4 \in RuntimeState
    BY <1>2, <2>3, OlderInstant, SetField
  <2> QED
    BY <1>2, <2>4, OlderInstant, SetField
<1>6. /\ r5.desired_state = rt.desired_state
      /\ r5.applied_state = rt.applied_state
      /\ r5.pending_target_state = rt.pending_target_state
      /\ r5.action_step_index = rt.action_step_index
      /\ r5.step_started_at = Older(rt.step_started_at)
      /\ r5.retry_attempt = rt.retry_attempt
      /\ r5.next_retry_at = Older(rt.next_retry_at)
      /\ r5.hold_until = Older(rt.hold_until)
      /\ r5.ambiguous = rt.ambiguous
  BY <1>1 DEF RuntimeState
<1> HIDE DEF r5
<1>7. Idle(rt) => Idle(r5)
  BY <1>2, <1>6, OlderInstant DEF Idle
<1>8. Running(config, rt) => Running(config, r5)
  BY <1>2, <1>6, OlderInstant DEF Running
<1> QED
  BY <1>3, <1>5, <1>6, <1>7, <1>8 DEF StateOK, Unmoved

\* A reading keeps its instant while it ages, and a new one has one.
LEMMA OlderReading ==
  ASSUME NEW rt \in RuntimeState, SampleOK(rt)
  PROVE  SampleOK(OlderState(rt)) /\ OlderState(rt).latest_value = rt.latest_value
<1>1. rt.latest_sample_at \in Option(Int)
  BY DEF RuntimeState
<1>2. /\ OlderState(rt).latest_value = rt.latest_value
      /\ OlderState(rt).latest_sample_at = Older(rt.latest_sample_at)
  BY DEF OlderState, RuntimeState
<1> QED
  BY <1>1, <1>2, OlderInstant DEF SampleOK

LEMMA ObservedReading ==
  ASSUME NEW config \in StateConfigs, NEW rt \in RuntimeState, NEW sample \in Samples,
         SampleOK(rt)
  PROVE  LET next == observe_sample(config, rt, sample, 0)
         IN /\ SampleOK(next)
            /\ next.applied_state = rt.applied_state
            /\ next.pending_target_state = rt.pending_target_state
            /\ next.next_retry_at = rt.next_retry_at
            /\ next.hold_until = rt.hold_until
BY NoneAssumption DEF observe_sample, RuntimeState, SampleOK

\* A due action names the step its state is on.
LEMMA DueActionOne ==
  ASSUME NEW config \in StateConfigs, validate(config),
         NEW rt \in RuntimeState, Running(config, rt)
  PROVE  /\ DueActionOf(config, rt) \in DueAction
         /\ Concerns(rt, DueActionOf(config, rt).target, DueActionOf(config, rt).step_index)
<1>1. /\ rt.pending_target_state \in BinaryState
      /\ rt.action_step_index \in Nat
      /\ rt.step_started_at \in Option(Int)
  BY DEF Running, RuntimeState
<1> DEFINE deadline == IF OnStep(config, rt, "WaitForJson") /\ rt.step_started_at # None
                       THEN rt.step_started_at + current_action(config, rt).timeout
                       ELSE None
<1>2. deadline \in Option(Int)
  <2>1. CASE OnStep(config, rt, "WaitForJson") /\ rt.step_started_at # None
    <3>1. current_action(config, rt).timeout \in Nat
      BY <2>1, CurrentStep DEF OnStep, ActionStepConfig
    <3>2. rt.step_started_at \in Int
      BY <1>1, <2>1 DEF Option
    <3> QED
      BY <2>1, <3>1, <3>2 DEF Option
  <2>2. CASE ~(OnStep(config, rt, "WaitForJson") /\ rt.step_started_at # None)
    BY <2>2 DEF Option
  <2> QED
    BY <2>1, <2>2
<1>3. DueActionOf(config, rt) = [target |-> rt.pending_target_state,
                                 step_index |-> rt.action_step_index,
                                 deadline |-> deadline]
  BY DEF DueActionOf
<1> HIDE DEF deadline
<1> QED
  BY <1>1, <1>2, <1>3 DEF DueAction, Concerns

\* What a tick does with one state (collect_due_actions).
LEMMA CollectOne ==
  ASSUME NEW config \in StateConfigs, validate(config),
         NEW rt, StateOK(config, rt), NEW at \in Int
  PROVE  LET collected == Collected(config, rt, at)
         IN /\ StateOK(config, collected.rt)
            /\ Moved(config, rt, collected.rt)
            /\ collected.due \in Option(DueAction)
            /\ collected.due # None =>
                 Concerns(collected.rt, collected.due.target, collected.due.step_index)
            /\ Separable(config) /\ ~rt.ambiguous => ~collected.rt.ambiguous
<1> DEFINE decided == tick(config, rt, at)
           collected == Collected(config, rt, at)
<1>1. /\ DecisionOK(config, rt, decided)
      /\ Separable(config) /\ ~rt.ambiguous => ~decided.rt.ambiguous
  BY Tick
<1>2. collected =
        CASE decided.decision = "None" -> [rt |-> decided.rt, due |-> None]
          [] decided.decision = "WaitTimedOut" -> TimedOut(config, decided.rt, at)
          [] decided.decision = "Attempt" ->
               [rt |-> decided.rt, due |-> DueActionOf(config, decided.rt)]
  BY DEF Collected
<1> HIDE DEF decided, collected
<1>3. CASE decided.decision = "None"
  <2>1. collected.rt = decided.rt /\ collected.due = None
    BY <1>2, <1>3
  <2> QED
    BY <1>1, <2>1 DEF DecisionOK, Option, collected
<1>4. CASE decided.decision = "WaitTimedOut"
  <2>1. collected = TimedOut(config, decided.rt, at)
    BY <1>2, <1>4
  <2> DEFINE next == record_wait_timeout(config, decided.rt,
                       decided.rt.pending_target_state, decided.rt.action_step_index, at)
  <2>2. collected.rt = next /\ collected.due = None
    BY <2>1 DEF TimedOut
  <2>3. /\ StateOK(config, decided.rt)
        /\ decided.rt.pending_target_state \in BinaryState
        /\ decided.rt.action_step_index \in Nat
        /\ Unmoved(rt, decided.rt)
    BY <1>1, <1>4 DEF DecisionOK, StateOK, Running, RuntimeState
  <2>4. /\ StateOK(config, next)
        /\ Moved(config, decided.rt, next)
        /\ next.ambiguous = decided.rt.ambiguous
    BY <2>3, RecordWaitTimeout
  <2> HIDE DEF next
  <2>5. Moved(config, rt, next)
    BY <2>3, <2>4 DEF Moved, Unmoved, Advanced, Finished, Begun
  <2> QED
    BY <1>1, <2>2, <2>4, <2>5 DEF Option, collected
<1>5. CASE decided.decision = "Attempt"
  <2>1. collected.rt = decided.rt /\ collected.due = DueActionOf(config, decided.rt)
    BY <1>2, <1>5
  <2>2. decided.rt \in RuntimeState /\ Running(config, decided.rt)
    BY <1>1, <1>5 DEF DecisionOK, StateOK
  <2>3. /\ collected.due \in DueAction
        /\ Concerns(collected.rt, collected.due.target, collected.due.step_index)
    BY <2>1, <2>2, DueActionOne
  <2> QED
    BY <1>1, <2>1, <2>3 DEF DecisionOK, Option, collected
<1> QED
  BY <1>1, <1>3, <1>4, <1>5 DEF DecisionOK, TickDecision

\* What the outcome of an action does with its state (record_action_result).
LEMMA RecordOne ==
  ASSUME NEW config \in StateConfigs, validate(config),
         NEW rt, StateOK(config, rt), NEW at \in Int,
         NEW due \in DueAction, NEW result
  PROVE  LET next == Recorded(config, rt, due, result, at)
         IN /\ StateOK(config, next)
            /\ Moved(config, rt, next)
            /\ next.ambiguous = rt.ambiguous
<1>1. due.target \in BinaryState /\ due.step_index \in Nat
  BY DEF DueAction
<1> QED
  BY <1>1, RecordWaitTimeout, RecordActionResult DEF Recorded

-----------------------------------------------------------------------------
\* The invariant is inductive.

\* A state that satisfies StateOK is a runtime state.
LEMMA StatesTyped ==
  ASSUME states \in [States -> RuntimeState], StatesOK, NEW i \in States
  PROVE  states[i] \in RuntimeState /\ StateOK(Config[i], states[i])
BY DEF StatesOK

LEMMA InitIInv == Init => IInv
<1> SUFFICES ASSUME Init PROVE IInv
  OBVIOUS
<1>1. NewRuntimeState \in RuntimeState
  <2>1. None \in Option(Float)
    BY DEF Option
  <2>2. 0 \in Nat /\ FALSE \in BOOLEAN
    OBVIOUS
  <2> QED
    BY <2>1, <2>2, FieldValues DEF NewRuntimeState, RuntimeState
<1>2. Idle(NewRuntimeState) /\ NewRuntimeState.desired_state = NewRuntimeState.applied_state
  BY DEF NewRuntimeState, Idle
<1>3. states \in [States -> RuntimeState] /\ StatesOK
  BY <1>1, <1>2 DEF Init, StatesOK, StateOK
<1>4. TypeOK
  <2>1. next_tick \in -MaxOverdue .. Second
    BY BoundsAssumption, SecondAssumption DEF Init
  <2>2. dry_run \in BOOLEAN /\ shutdown \in BOOLEAN
    BY BoundsAssumption DEF Init
  <2>3. actions \in [States -> Option(DueAction)]
    BY DEF Init, NoActions, Option
  <2>4. now \in Option(Int) /\ limit \in Option(Int) /\ outcome \in Option(ActionOutcome)
    BY DEF Init, Option
  <2>5. pc \in Pc
    BY DEF Init, Pc
  <2> QED
    BY <1>3, <2>1, <2>2, <2>3, <2>4, <2>5 DEF TypeOK
<1>5. DueActionsAreCurrent
  BY DEF Init, NoActions, DueActionsAreCurrent
<1>6. Control
  BY DEF Init, Control
<1> QED
  BY <1>3, <1>4, <1>5, <1>6 DEF IInv

\* The next of the due actions is the only one.
LEMMA OneIsNext ==
  ASSUME NEW i \in States, NEW j \in States, IsNext(i), IsNext(j)
  PROVE  i = j
BY ConfigAssumption DEF IsNext, States

\* A due action a little later.
LEMMA OlderDue ==
  ASSUME NEW due \in Option(DueAction)
  PROVE  /\ OlderAction(due) \in Option(DueAction)
         /\ OlderAction(due) = None <=> due = None
         /\ due # None =>
              /\ OlderAction(due).target = due.target
              /\ OlderAction(due).step_index = due.step_index
              /\ OlderAction(due).deadline = Older(due.deadline)
<1>1. CASE due = None
  BY <1>1 DEF OlderAction, Option
<1>2. CASE due # None
  <2>1. due \in DueAction
    BY <1>2 DEF Option
  <2>2. due.deadline \in Option(Int)
    BY <2>1 DEF DueAction
  <2>3. Older(due.deadline) \in Option(Int)
    BY <2>2, OlderInstant
  <2> DEFINE older == [due EXCEPT !.deadline = Older(due.deadline)]
  <2>4. OlderAction(due) = older
    BY <1>2 DEF OlderAction
  <2>5. /\ older \in DueAction
        /\ older.target = due.target
        /\ older.step_index = due.step_index
        /\ older.deadline = Older(due.deadline)
    BY <2>1, <2>3 DEF DueAction
  <2> HIDE DEF older
  <2> QED
    BY <1>2, <2>4, <2>5, NoActionAssumption DEF Option
<1> QED
  BY <1>1, <1>2

\* Time passes.
LEMMA ElapseIInv == IInv /\ Elapse => IInv'
<1> SUFFICES ASSUME IInv, Elapse PROVE IInv'
  OBVIOUS
<1>1. \A i \in States :
        /\ states'[i] = OlderState(states[i])
        /\ StateOK(Config[i], states'[i])
        /\ Unmoved(states[i], states'[i])
  BY StatesTyped, OlderOne DEF IInv, TypeOK, Elapse
<1>2. states' \in [States -> RuntimeState] /\ StatesOK'
  BY <1>1 DEF Elapse, StatesOK, StateOK
<1>3. \A i \in States :
        /\ actions'[i] \in Option(DueAction)
        /\ actions'[i] = None <=> actions[i] = None
        /\ actions[i] # None =>
             /\ actions'[i].target = actions[i].target
             /\ actions'[i].step_index = actions[i].step_index
             /\ actions'[i].deadline = Older(actions[i].deadline)
  BY OlderDue DEF IInv, TypeOK, Elapse
<1>4. actions' \in [States -> Option(DueAction)]
  BY <1>3 DEF Elapse
<1>5. TypeOK'
  <2>1. next_tick' \in -MaxOverdue .. Second
    BY BoundsAssumption, SecondAssumption DEF IInv, TypeOK, Elapse
  <2>2. now' \in Option(Int) /\ limit' \in Option(Int)
    BY OlderInstant DEF IInv, TypeOK, Elapse
  <2> QED
    BY <1>2, <1>4, <2>1, <2>2 DEF IInv, TypeOK, Elapse
<1>6. DueActionsAreCurrent'
  BY <1>1, <1>3 DEF IInv, DueActionsAreCurrent, Concerns, Unmoved
<1>7. Control'
  <2>1. actions = NoActions => actions' = NoActions
    BY DEF NoActions, Elapse, OlderAction
  <2>2. pc \in {"collecting", "recording"} => now' \in Int
    BY NoneAssumption, BoundsAssumption DEF IInv, Control, Elapse, Older
  <2>3. ASSUME pc = "sent"
        PROVE  /\ limit' \in Int
               /\ limit' >= 0
               /\ \A i \in States :
                    IsNext(i)' /\ actions'[i].deadline # None
                      => actions'[i].deadline >= limit'
    <3>1. limit \in Int /\ limit > 0
      BY <2>3 DEF IInv, Control, Elapse
    <3>2. limit' = limit - 1
      BY <3>1, NoneAssumption, BoundsAssumption DEF Elapse, Older
    <3>3. ASSUME NEW i \in States, IsNext(i)', actions'[i].deadline # None
          PROVE  actions'[i].deadline >= limit'
      <4>1. IsNext(i)
        BY <1>3, <3>3 DEF IsNext
      <4>2. actions[i] \in DueAction /\ actions'[i].deadline = Older(actions[i].deadline)
        BY <1>3, <4>1 DEF IsNext, IInv, TypeOK, Option
      <4>3. actions[i].deadline \in Int
        BY <3>3, <4>2 DEF DueAction, Option, Older
      <4>4. actions[i].deadline >= limit
        BY <2>3, <4>1, <4>3, NoneAssumption DEF IInv, Control
      <4>5. Older(actions[i].deadline) = actions[i].deadline - 1
        BY <3>1, <4>3, <4>4, NoneAssumption, BoundsAssumption DEF Older
      <4> QED
        BY <3>1, <3>2, <4>2, <4>3, <4>4, <4>5
    <3> QED
      BY <3>1, <3>2, <3>3
  <2> QED
    BY <2>1, <2>2, <2>3 DEF IInv, Control, Elapse
<1> QED
  BY <1>2, <1>5, <1>6, <1>7 DEF IInv

\* A sample is observed.
LEMMA ObserveIInv ==
  ASSUME NEW sample \in Samples
  PROVE  IInv /\ ObserveSample(sample) => IInv'
<1> SUFFICES ASSUME IInv, ObserveSample(sample) PROVE IInv'
  OBVIOUS
<1>1. \A i \in States :
        /\ states'[i] = observe_sample(Config[i], states[i], sample, 0)
        /\ StateOK(Config[i], states'[i])
        /\ Unmoved(states[i], states'[i])
  BY StatesTyped, ConfigOK, ObserveOne DEF IInv, TypeOK, ObserveSample
<1>2. states' \in [States -> RuntimeState] /\ StatesOK'
  BY <1>1 DEF ObserveSample, StatesOK, StateOK
<1>3. DueActionsAreCurrent'
  BY <1>1 DEF IInv, ObserveSample, task, DueActionsAreCurrent, Concerns, Unmoved
<1>4. TypeOK'
  BY <1>2 DEF IInv, TypeOK, ObserveSample, task
<1>5. Control'
  BY DEF IInv, Control, IsNext, ObserveSample, task
<1> QED
  BY <1>2, <1>3, <1>4, <1>5 DEF IInv

\* A tick is decided for every state.
LEMMA CollectIInv == IInv /\ Collect => IInv'
<1> SUFFICES ASSUME IInv, Collect PROVE IInv'
  OBVIOUS
<1>1. now \in Int
  BY DEF IInv, Control, Collect
<1>2. \A i \in States :
        /\ states'[i] = Collected(Config[i], states[i], now).rt
        /\ actions'[i] = Collected(Config[i], states[i], now).due
  BY DEF Collect
<1>3. \A i \in States :
        /\ StateOK(Config[i], states'[i])
        /\ actions'[i] \in Option(DueAction)
        /\ actions'[i] # None =>
             Concerns(states'[i], actions'[i].target, actions'[i].step_index)
  BY <1>1, <1>2, StatesTyped, ConfigOK, CollectOne DEF IInv, TypeOK
<1>4. states' \in [States -> RuntimeState] /\ StatesOK'
  BY <1>3 DEF Collect, StatesOK, StateOK
<1>5. actions' \in [States -> Option(DueAction)] /\ DueActionsAreCurrent'
  BY <1>3 DEF Collect, DueActionsAreCurrent
<1>6. now' \in Option(Int)
  BY DEF Collect, Option
<1>7. pc' \in {"waiting", "sending"} /\ (pc' = "waiting" => actions' = NoActions)
  BY DEF Collect, AfterRecording
<1>8. TypeOK'
  BY <1>4, <1>5, <1>6, <1>7 DEF IInv, TypeOK, Collect, Pc
<1>9. Control'
  BY <1>7 DEF Control, NoActions
<1> QED
  BY <1>4, <1>5, <1>8, <1>9 DEF IInv

\* A request is sent.
LEMMA SendIInv == IInv /\ Send => IInv'
<1> SUFFICES ASSUME IInv, Send PROVE IInv'
  OBVIOUS
<1>1. PICK i \in States :
        /\ IsNext(i)
        /\ ~DeadlinePassed(actions[i])
        /\ limit' = IF actions[i].deadline # None /\ actions[i].deadline < RequestTimeout
                    THEN actions[i].deadline ELSE RequestTimeout
  BY DEF Send
<1>2. actions[i].deadline \in Option(Int)
  BY <1>1 DEF IInv, TypeOK, IsNext, Option, DueAction
<1>3. limit' \in Int /\ limit' >= 0
  BY <1>1, <1>2, BoundsAssumption DEF DeadlinePassed, Option
<1>4. actions[i].deadline # None => actions[i].deadline >= limit'
  BY <1>1, <1>2, BoundsAssumption DEF Option
<1>5. \A j \in States : IsNext(j) /\ actions[j].deadline # None
                          => actions[j].deadline >= limit'
  BY <1>1, <1>4, OneIsNext
<1>6. TypeOK'
  BY <1>3 DEF IInv, TypeOK, Send, Pc, Option
<1>7. StatesOK' /\ DueActionsAreCurrent'
  BY DEF IInv, StatesOK, DueActionsAreCurrent, Send
<1>8. Control'
  BY <1>3, <1>5 DEF Control, Send, IsNext
<1> QED
  BY <1>6, <1>7, <1>8 DEF IInv

\* An outcome is recorded.
LEMMA RecordIInv == IInv /\ Record => IInv'
<1> SUFFICES ASSUME IInv, Record PROVE IInv'
  OBVIOUS
<1>1. PICK i \in States :
        /\ IsNext(i)
        /\ states' = [states EXCEPT ![i] =
                        Recorded(Config[i], states[i], actions[i], outcome, now)]
        /\ actions' = [actions EXCEPT ![i] = None]
  BY DEF Record
<1>2. now \in Int /\ actions[i] \in DueAction
  BY <1>1 DEF IInv, TypeOK, Control, Record, IsNext, Option
<1>3. StateOK(Config[i], Recorded(Config[i], states[i], actions[i], outcome, now))
  BY <1>2, StatesTyped, ConfigOK, RecordOne DEF IInv, TypeOK
<1>4. \A j \in States :
        /\ StateOK(Config[j], states'[j])
        /\ j # i => states'[j] = states[j]
  BY <1>1, <1>3, StatesTyped DEF IInv, TypeOK
<1>5. states' \in [States -> RuntimeState] /\ StatesOK'
  <2>1. states' = [j \in States |-> states'[j]]
    BY <1>1 DEF IInv, TypeOK
  <2> QED
    BY <1>4, <2>1 DEF StatesOK, StateOK
<1>6. \A j \in States : /\ actions'[i] = None
                        /\ j # i => actions'[j] = actions[j]
  BY <1>1 DEF IInv, TypeOK
<1>7. actions' \in [States -> Option(DueAction)]
  BY <1>1 DEF IInv, TypeOK, Option
<1>8. DueActionsAreCurrent'
  BY <1>4, <1>6 DEF IInv, DueActionsAreCurrent
<1>9. pc' \in {"waiting", "sending"} /\ (pc' = "waiting" => actions' = NoActions)
  BY DEF Record, AfterRecording
<1>10. TypeOK'
  BY <1>5, <1>7, <1>9 DEF IInv, TypeOK, Record, Pc, Option
<1>11. Control'
  BY <1>9 DEF Control, NoActions
<1> QED
  BY <1>5, <1>8, <1>10, <1>11 DEF IInv

\* Steps that touch neither the states nor the due actions.
LEMMA OtherIInv ==
  IInv /\ (TakeTick \/ SkipSend \/ (\E result \in ActionOutcome : Answer(result))
             \/ Cancel \/ Stop \/ UNCHANGED vars) => IInv'
<1> SUFFICES ASSUME IInv,
                    \/ TakeTick \/ SkipSend \/ (\E result \in ActionOutcome : Answer(result))
                    \/ Cancel \/ Stop \/ UNCHANGED vars
             PROVE  IInv'
  OBVIOUS
<1>1. states' = states /\ actions' = actions
  BY DEF TakeTick, SkipSend, Answer, Cancel, task, Stop, vars
<1>2. StatesOK' /\ DueActionsAreCurrent'
  BY <1>1 DEF IInv, StatesOK, DueActionsAreCurrent
<1>3. CASE TakeTick
  <2>1. next_tick' \in -MaxOverdue .. Second
    BY <1>3, BoundsAssumption, SecondAssumption DEF IInv, TypeOK, TakeTick
  <2>2. TypeOK'
    BY <1>3, <2>1 DEF IInv, TypeOK, TakeTick, Pc, Option
  <2>3. Control'
    BY <1>3 DEF IInv, Control, TakeTick, NoActions
  <2> QED
    BY <1>2, <2>2, <2>3 DEF IInv
<1>4. CASE SkipSend
  <2>1. outcome' \in ActionOutcome /\ now' = 0 /\ pc' = "recording"
    BY <1>4 DEF SkipSend, ActionOutcome
  <2>2. TypeOK'
    BY <1>1, <1>4, <2>1 DEF IInv, TypeOK, SkipSend, Pc, Option
  <2>3. Control'
    BY <2>1 DEF Control
  <2> QED
    BY <1>2, <2>2, <2>3 DEF IInv
<1>5. CASE \E result \in ActionOutcome : Answer(result)
  <2>1. /\ outcome' \in ActionOutcome /\ now' = 0 /\ limit' = None
        /\ pc' = "recording" /\ UNCHANGED <<shutdown, dry_run, next_tick>>
    BY <1>5 DEF Answer
  <2>2. TypeOK'
    BY <1>1, <2>1 DEF IInv, TypeOK, Pc, Option
  <2>3. Control'
    BY <2>1 DEF Control
  <2> QED
    BY <1>2, <2>2, <2>3 DEF IInv
<1>6. CASE Cancel
  <2>1. TypeOK'
    BY <1>6 DEF IInv, TypeOK, Cancel, task
  <2>2. Control'
    BY <1>6 DEF IInv, Control, Cancel, task, IsNext
  <2> QED
    BY <1>2, <2>1, <2>2 DEF IInv
<1>7. CASE Stop
  <2>1. TypeOK'
    BY <1>7 DEF IInv, TypeOK, Stop, Pc
  <2>2. Control'
    BY <1>7 DEF IInv, Control, Stop, NoActions
  <2> QED
    BY <1>2, <2>1, <2>2 DEF IInv
<1>8. CASE UNCHANGED vars
  <2>1. TypeOK'
    BY <1>8 DEF IInv, TypeOK, vars
  <2>2. Control'
    BY <1>8 DEF IInv, Control, vars, IsNext, NoActions
  <2> QED
    BY <1>2, <2>1, <2>2 DEF IInv
<1> QED
  BY <1>3, <1>4, <1>5, <1>6, <1>7, <1>8

LEMMA NextIInv == IInv /\ [Next]_vars => IInv'
BY ElapseIInv, ObserveIInv, CollectIInv, SendIInv, RecordIInv, OtherIInv
   DEF Next, TickTask

LEMMA Inductive == Spec => []IInv
BY InitIInv, NextIInv, PTL DEF Spec
-----------------------------------------------------------------------------
\* What the engine is proved to do.

\* All variables keep their types, the retry counter, which saturates, and the
\* due time of the next tick included.
THEOREM TypeCorrect == Spec => []TypeOK
BY Inductive, PTL DEF IInv

\* No method of RuntimeState leaves a field of an ended sequence behind or
\* begins a sequence that is over (tick, advance_step, record_action_result and
\* record_wait_timeout in machine.rs).
THEOREM SequencesConsistent == Spec => []IdleOrInSequence
<1>1. IInv => IdleOrInSequence
  <2> SUFFICES ASSUME IInv, NEW i \in States
               PROVE  IF states[i].pending_target_state = None
                      THEN /\ states[i].desired_state = states[i].applied_state
                           /\ states[i].action_step_index = 0
                           /\ states[i].step_started_at = None
                           /\ states[i].retry_attempt = 0
                           /\ states[i].next_retry_at = None
                      ELSE /\ states[i].desired_state = states[i].pending_target_state
                           /\ states[i].applied_state # states[i].pending_target_state
                           /\ states[i].action_step_index
                                < action_count(Config[i].to[states[i].pending_target_state])
                           /\ states[i].step_started_at # None
                           /\ states[i].hold_until = None
    BY DEF IdleOrInSequence
  <2>1. StateOK(Config[i], states[i])
    BY DEF IInv, StatesOK
  <2> QED
    BY <2>1, NoneAssumption DEF StateOK, Idle, Running
<1> QED
  BY <1>1, Inductive, PTL

\* An action decided by a tick is still the one its state waits for when its
\* turn comes (collect_due_actions, record_action_result in engine.rs).
THEOREM ResultsAreNeverStale == Spec => []DueActionsAreCurrent
BY Inductive, PTL DEF IInv

\* The client's timeout never lets a poll outlive its wait (ActionClient::send).
THEOREM PollsEndInTime == Spec => []PollEndsByDeadline
<1>1. IInv => PollEndsByDeadline
  <2> SUFFICES ASSUME IInv, pc = "sent", NEW i \in States, IsNext(i),
                      actions[i].deadline # None
               PROVE  actions[i].deadline >= 0
    BY DEF PollEndsByDeadline
  <2>1. limit \in Int /\ limit >= 0 /\ actions[i].deadline >= limit
    BY DEF IInv, Control
  <2>2. actions[i].deadline \in Int
    BY DEF IInv, TypeOK, IsNext, Option, DueAction
  <2> QED
    BY <2>1, <2>2
<1> QED
  BY <1>1, Inductive, PTL

\* A step of the engine moves no output by more than one move of its sequence,
\* and makes no separable output ambiguous.
LEMMA EachMoves ==
  ASSUME IInv, [Next]_vars
  PROVE  \A i \in States :
           /\ Moved(Config[i], states[i], states'[i])
           /\ Separable(Config[i]) /\ ~states[i].ambiguous => ~states'[i].ambiguous
<1>1. CASE Elapse
  BY <1>1, StatesTyped, OlderOne DEF IInv, TypeOK, Elapse, Moved
<1>2. ASSUME NEW sample \in Samples, ObserveSample(sample), NEW i \in States
      PROVE  /\ Moved(Config[i], states[i], states'[i])
             /\ states'[i].ambiguous = states[i].ambiguous
  BY <1>2, StatesTyped, ConfigOK, ObserveOne DEF IInv, TypeOK, ObserveSample, Moved
<1>3. CASE Collect
  <2>1. now \in Int
    BY <1>3 DEF IInv, Control, Collect
  <2> QED
    BY <1>3, <2>1, StatesTyped, ConfigOK, CollectOne DEF IInv, TypeOK, Collect
<1>4. CASE Record
  <2>1. PICK i \in States :
          /\ IsNext(i)
          /\ states' = [states EXCEPT ![i] =
                          Recorded(Config[i], states[i], actions[i], outcome, now)]
    BY <1>4 DEF Record
  <2> DEFINE next == Recorded(Config[i], states[i], actions[i], outcome, now)
  <2>2. now \in Int /\ actions[i] \in DueAction
    BY <1>4, <2>1 DEF IInv, TypeOK, Control, Record, IsNext, Option
  <2>3. Moved(Config[i], states[i], next) /\ next.ambiguous = states[i].ambiguous
    BY <2>2, StatesTyped, ConfigOK, RecordOne DEF IInv, TypeOK
  <2>4. \A j \in States : states'[j] = IF j = i THEN next ELSE states[j]
    BY <2>1 DEF IInv, TypeOK
  <2> QED
    BY <2>3, <2>4 DEF Moved, Unmoved
<1>5. CASE UNCHANGED states
  BY <1>5 DEF Moved, Unmoved
<1>6. \/ Elapse \/ (\E sample \in Samples : ObserveSample(sample))
      \/ Collect \/ Record \/ UNCHANGED states
  BY DEF Next, TickTask, TakeTick, Send, SkipSend, Answer, Cancel, task, Stop, vars
<1> QED
  BY <1>1, <1>2, <1>3, <1>4, <1>5, <1>6

\* When no state's thresholds are -0.0 and 0.0, no reading, a NaN or an
\* infinity included, ever makes a state ambiguous (tick, validate_thresholds).
THEOREM AmbiguityUnreachable ==
  ASSUME \A i \in States : Separable(Config[i])
  PROVE  Spec => []NeverAmbiguous
<1>1. Init => NeverAmbiguous
  BY DEF Init, NeverAmbiguous, NewRuntimeState
<1>2. IInv /\ NeverAmbiguous /\ [Next]_vars => NeverAmbiguous'
  BY EachMoves DEF NeverAmbiguous
<1> QED
  BY <1>1, <1>2, Inductive, PTL DEF Spec

\* The moves of one state are the steps of ActionSequence.
LEMMA MovedIsSequenceStep ==
  ASSUME NEW i \in States, Moved(Config[i], states[i], states'[i])
  PROVE  [Sequence(i)!SeqNext]_(Sequence(i)!seqVars)
<1>1. CASE Unmoved(states[i], states'[i])
  BY <1>1 DEF Unmoved, Sequence!seqVars
<1>2. CASE Advanced(Config[i], states[i], states'[i])
  <2>1. Sequence(i)!Advance
    BY <1>2, NoneAssumption DEF Advanced, Sequence!Advance
  <2> QED
    BY <2>1 DEF Sequence!SeqNext
<1>3. CASE Finished(Config[i], states[i], states'[i])
  <2>1. Sequence(i)!Finish
    BY <1>3, NoneAssumption DEF Finished, Sequence!Finish
  <2> QED
    BY <2>1 DEF Sequence!SeqNext
<1>4. CASE Begun(states[i], states'[i])
  <2>1. Sequence(i)!Begin(states'[i].pending_target_state)
    BY <1>4 DEF Begun, Sequence!Begin
  <2> QED
    BY <1>4, <2>1 DEF Begun, Sequence!SeqNext
<1> QED
  BY <1>1, <1>2, <1>3, <1>4 DEF Moved

\* The engine implements ActionSequence for each of its outputs, at once:
\* whatever is observed, answered, late or retried, every sequence goes through
\* its steps in order and only its end changes the applied state (due_attempt,
\* due_sequence_step and advance_step in machine.rs).
THEOREM EngineImplementsSequences == Spec => SequencesAreAtomic
<1> DEFINE Steps == \A i \in States : [Sequence(i)!SeqNext]_(Sequence(i)!seqVars)
<1>1. Init => \A i \in States : Sequence(i)!SeqInit
  BY DEF Init, NewRuntimeState, Sequence!SeqInit
<1>2. IInv /\ [Next]_vars => Steps
  BY EachMoves, MovedIsSequenceStep
<1>3. IInv /\ [Next]_vars => [Steps]_vars
  BY <1>2
<1> HIDE DEF Steps
<1>4. Spec => (\A i \in States : Sequence(i)!SeqInit) /\ [][Steps]_vars
  BY <1>1, <1>3, Inductive, PTL DEF Spec
<1> QED
  BY <1>4 DEF Steps, SequencesAreAtomic
=============================================================================

---------------------------- MODULE RuntimeState ----------------------------
(***************************************************************************)
(* The runtime state machine of one configured output                       *)
(* (src/state/machine.rs): the record RuntimeState and each of its methods,  *)
(* as operators from the record before the call to the record after it.     *)
(*                                                                          *)
(* Instants are integers; the module only compares and subtracts them, so    *)
(* any origin will do.  on_condition_started_at and off_condition_started_at *)
(* are the two values of condition_started_at.  The last_* diagnostics are   *)
(* left out: nothing in the program reads them back.                        *)
(***************************************************************************)
EXTENDS StateConfig

CONSTANTS
  None,        \* Option::None
  MaxAttempt   \* where the saturating retry counter stops (u32::MAX)

ASSUME NoneAssumption == None \notin Int /\ None \notin BinaryState
ASSUME MaxAttemptAssumption == MaxAttempt \in Nat \ {0}

Option(S) == S \cup {None}

RuntimeState ==
  [latest_value : Option(Float),
   latest_sample_at : Option(Int),
   desired_state : Option(BinaryState),
   applied_state : Option(BinaryState),
   pending_target_state : Option(BinaryState),
   condition_started_at : [BinaryState -> Option(Int)],
   retry_attempt : 0 .. MaxAttempt,
   action_step_index : Nat,
   step_started_at : Option(Int),
   next_retry_at : Option(Int),
   hold_until : Option(Int),
   stale : BOOLEAN,
   ambiguous : BOOLEAN]

NewRuntimeState ==
  [latest_value |-> None,
   latest_sample_at |-> None,
   desired_state |-> None,
   applied_state |-> None,
   pending_target_state |-> None,
   condition_started_at |-> [target \in BinaryState |-> None],
   retry_attempt |-> 0,
   action_step_index |-> 0,
   step_started_at |-> None,
   next_retry_at |-> None,
   hold_until |-> None,
   stale |-> FALSE,
   ambiguous |-> FALSE]

\* saturating_duration_since: an instant still to come is no time ago.
DurationSince(now, at) == IF now > at THEN now - at ELSE 0

DurationSinceOr(now, at) == IF at = None THEN 0 ELSE DurationSince(now, at)

Reached(now, at) == at = None \/ now >= at

Doublings == <<1, 2, 4, 8, 16, 32, 64, 128, 256, 512, 1024>>

\* Mutants of backoff: no upper limit; one doubling behind.
backoff_unlimited(attempt) ==
  RetryInitial * Doublings[(IF attempt < 10 THEN attempt ELSE 10) + 1]

backoff_behind(attempt) ==
  LET delay == RetryInitial * Doublings[IF attempt = 0 THEN 1
                                        ELSE IF attempt < 10 THEN attempt ELSE 10]
  IN IF delay < RetryMax THEN delay ELSE RetryMax

\* backoff: the initial delay doubled once per earlier failure, ten times
\* at most, and no longer than RetryMax.
backoff(attempt) ==
  LET delay == RetryInitial * Doublings[(IF attempt < 10 THEN attempt ELSE 10) + 1]
  IN IF delay < RetryMax THEN delay ELSE RetryMax

\* Mutant of SaturatingIncrement: it does not saturate.
PlainIncrement(attempt) == attempt + 1

SaturatingIncrement(attempt) ==
  IF attempt < MaxAttempt THEN attempt + 1 ELSE attempt

\* current_action, for a state with a pending target.
current_action(config, rt) ==
  action(config.to[rt.pending_target_state], rt.action_step_index)

\* A state with a pending target and a current step of the given type.
OnStep(config, rt, type) ==
  rt.pending_target_state # None /\ current_action(config, rt).type = type

-----------------------------------------------------------------------------
\* RuntimeState::observe_sample.
observe_sample(config, rt, sample, now) ==
  IF sample.serial = config.serial
  THEN [rt EXCEPT !.latest_value = sample.value[config.field],
                  !.latest_sample_at = now]
  ELSE rt

OnNextStep(rt, now) ==
  [rt EXCEPT !.action_step_index = @ + 1,
             !.retry_attempt = 0,
             !.next_retry_at = None,
             !.step_started_at = now]

\* Mutant of Applied: it keeps the start of the last step.
Applied_forgetful(config, rt, target, now) ==
  [rt EXCEPT !.applied_state = target, !.desired_state = target,
             !.pending_target_state = None, !.action_step_index = 0,
             !.retry_attempt = 0, !.next_retry_at = None,
             !.hold_until = now + config.to[target].hold_for,
             !.condition_started_at = [t \in BinaryState |-> None]]

Applied(config, rt, target, now) ==
  [rt EXCEPT !.applied_state = target,
             !.desired_state = target,
             !.pending_target_state = None,
             !.action_step_index = 0,
             !.retry_attempt = 0,
             !.next_retry_at = None,
             !.step_started_at = None,
             !.hold_until = now + config.to[target].hold_for,
             !.condition_started_at = [t \in BinaryState |-> None]]

\* Mutant of advance_step: it takes the last step but one for the last.
advance_step_early(config, rt, target, now) ==
  IF rt.action_step_index + 2 < action_count(config.to[target])
  THEN OnNextStep(rt, now)
  ELSE Applied(config, rt, target, now)

\* advance_step: on to the next step, or, after the last one, applied.
advance_step(config, rt, target, now) ==
  IF rt.action_step_index + 1 < action_count(config.to[target])
  THEN OnNextStep(rt, now)
  ELSE Applied(config, rt, target, now)

\* TickDecision; the target and step of an attempt or a timeout are always
\* the pending target and step of the state that made the decision.
TickDecision == {"None", "Attempt", "WaitTimedOut"}

Decided(rt, decision) == [rt |-> rt, decision |-> decision]

WaitExpired(config, rt, now) ==
  /\ OnStep(config, rt, "WaitForJson")
  /\ DurationSinceOr(now, rt.step_started_at) >= current_action(config, rt).timeout

\* What due_sequence_step returns for the step the state is on.
StepDecision(config, rt, now) ==
  IF rt.pending_target_state = None \/ OnStep(config, rt, "Delay") THEN "None"
  ELSE IF WaitExpired(config, rt, now) THEN "WaitTimedOut"
  ELSE IF Reached(now, rt.next_retry_at) THEN "Attempt"
  ELSE "None"

\* due_sequence_step.  It calls itself once after an elapsed delay; the call
\* cannot find a second elapsed delay, since the step it finds has just begun
\* and a valid delay is not empty, so there StepDecision says it all.
due_sequence_step(config, rt, now) ==
  LET started == IF OnStep(config, rt, "Delay") /\ rt.step_started_at = None
                 THEN [rt EXCEPT !.step_started_at = now]
                 ELSE rt
      elapsed == /\ OnStep(config, rt, "Delay")
                 /\ DurationSince(now, started.step_started_at)
                      >= current_action(config, rt).duration
      next == IF elapsed
              THEN advance_step(config, started, rt.pending_target_state, now)
              ELSE started
  IN Decided(next, StepDecision(config, next, now))

\* due_attempt: go on with the pending sequence, or begin the desired one.
due_attempt(config, rt, now) ==
  IF rt.pending_target_state # None THEN due_sequence_step(config, rt, now)
  ELSE IF rt.desired_state \in {None, rt.applied_state} THEN Decided(rt, "None")
  ELSE due_sequence_step(config,
         [rt EXCEPT !.pending_target_state = rt.desired_state,
                    !.action_step_index = 0,
                    !.step_started_at = now,
                    !.retry_attempt = 0,
                    !.next_retry_at = None], now)
-----------------------------------------------------------------------------
\* The threshold part of tick, for fresh data, no sequence and no dwell.
Matching(config, rt) ==
  {target \in BinaryState :
     matches(config.to[target].op, rt.latest_value, config.to[target].value)}

\* Mutant of update_timer: a reading that breaks the condition stops the
\* timer without resetting it.
update_timer_sticky(config, rt, now) ==
  [rt EXCEPT !.condition_started_at =
     [target \in BinaryState |->
        IF target \in Matching(config, rt) /\ @[target] = None THEN now
        ELSE @[target]]]

update_timer(config, rt, now) ==
  [rt EXCEPT !.condition_started_at =
     [target \in BinaryState |->
        IF target \notin Matching(config, rt) THEN None
        ELSE IF @[target] = None THEN now
        ELSE @[target]]]

\* timer_satisfied, for a state whose timers are up to date.
Satisfied(config, rt, now) ==
  {target \in Matching(config, rt) :
     DurationSince(now, rt.condition_started_at[target])
       >= config.to[target].duration}

\* Mutant of NewDesired: default_state counts after startup too.
NewDesired_default_always(config, rt, satisfied) ==
  IF "On" \in satisfied THEN "On"
  ELSE IF "Off" \in satisfied THEN "Off"
  ELSE IF Matching(config, rt) = {} THEN config.default_state
  ELSE rt.desired_state

NewDesired(config, rt, satisfied) ==
  IF "On" \in satisfied THEN "On"
  ELSE IF "Off" \in satisfied THEN "Off"
  ELSE IF /\ Matching(config, rt) = {}
          /\ rt.applied_state = None
          /\ rt.desired_state = None
       THEN config.default_state
  ELSE rt.desired_state

qualify(config, rt, now) ==
  LET timed == update_timer(config, [rt EXCEPT !.hold_until = None], now)
      satisfied == Satisfied(config, timed, now)
      both == satisfied = BinaryState
  IN IF both
     THEN Decided([timed EXCEPT !.ambiguous = TRUE], "None")
     ELSE due_attempt(config,
            [timed EXCEPT !.ambiguous = FALSE,
                          !.desired_state = NewDesired(config, timed, satisfied)],
            now)

IsStale(config, rt, now) ==
  DurationSince(now, rt.latest_sample_at) > config.stale_after

\* Mutant of Held: a dwell never ends.
Held_for_ever(rt, now) == rt.hold_until # None

\* Mutant of Held: a dwell ends a unit of time early.
Held_too_short(rt, now) == rt.hold_until # None /\ now + 1 < rt.hold_until

Held(rt, now) == rt.hold_until # None /\ now < rt.hold_until

\* Mutant of InDwell: the timers run during a dwell.
InDwell_timing(config, rt, now) == update_timer(config, rt, now)

InDwell(config, rt, now) ==
  [rt EXCEPT !.condition_started_at = [target \in BinaryState |-> None]]

\* RuntimeState::tick: the state after it and the decision it returns.
tick(config, rt, now) ==
  LET aged == [rt EXCEPT !.stale = IF rt.latest_sample_at = None THEN @
                                   ELSE IsStale(config, rt, now)]
  IN IF rt.latest_value = None \/ rt.pending_target_state # None
     THEN due_attempt(config, aged, now)
     ELSE IF aged.stale THEN Decided(aged, "None")
     ELSE IF Held(aged, now) THEN Decided(InDwell(config, aged, now), "None")
     ELSE qualify(config, aged, now)

-----------------------------------------------------------------------------
\* What a result or a timeout is about: the pending target and its step.
Concerns(rt, target, step_index) ==
  rt.pending_target_state = target /\ rt.action_step_index = step_index

ActionOutcome == {"Success", "Failure", "Pending"}

poll_every(config, rt) ==
  IF OnStep(config, rt, "WaitForJson") THEN current_action(config, rt).poll_every
  ELSE 0

\* Mutant of AfterFailure: the sequence starts anew.
AfterFailure_anew(rt, now) ==
  [rt EXCEPT !.next_retry_at = now + backoff(rt.retry_attempt),
             !.action_step_index = 0]

AfterFailure(rt, now) ==
  [rt EXCEPT !.next_retry_at = now + backoff(rt.retry_attempt),
             !.retry_attempt = SaturatingIncrement(@)]

\* Mutant of AfterPoll: an unsuccessful poll begins a new window.
AfterPoll_new_window(config, rt, now) ==
  [rt EXCEPT !.next_retry_at = now + poll_every(config, rt), !.step_started_at = now]

AfterPoll(config, rt, now) ==
  [rt EXCEPT !.next_retry_at = now + poll_every(config, rt)]

\* RuntimeState::record_action_result.
record_action_result(config, rt, target, step_index, outcome, now) ==
  IF ~Concerns(rt, target, step_index) THEN rt
  ELSE IF outcome = "Success" THEN advance_step(config, rt, target, now)
  ELSE IF outcome = "Failure" /\ ~OnStep(config, rt, "WaitForJson")
  THEN AfterFailure(rt, now)
  ELSE AfterPoll(config, rt, now)

\* RuntimeState::wait_timed_out.
wait_timed_out(config, rt, target, step_index, now) ==
  Concerns(rt, target, step_index) /\ WaitExpired(config, rt, now)

\* Mutant of NewWindow: the retry is due later but the window is still over.
NewWindow_closed(rt, retry_at) ==
  [rt EXCEPT !.retry_attempt = SaturatingIncrement(@), !.next_retry_at = retry_at]

NewWindow(rt, retry_at) ==
  [rt EXCEPT !.retry_attempt = SaturatingIncrement(@),
             !.step_started_at = retry_at,
             !.next_retry_at = retry_at]

\* RuntimeState::record_wait_timeout.
record_wait_timeout(config, rt, target, step_index, now) ==
  IF ~(Concerns(rt, target, step_index) /\ OnStep(config, rt, "WaitForJson")) THEN rt
  ELSE IF current_action(config, rt).on_timeout = "Continue"
  THEN advance_step(config, rt, target, now)
  ELSE NewWindow(rt, now + backoff(rt.retry_attempt))
=============================================================================

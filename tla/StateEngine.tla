---------------------------- MODULE StateEngine -----------------------------
(***************************************************************************)
(* The state engine at work: StateEngine (src/state/engine.rs) behind its    *)
(* mutex, the tick task that drives it (run_state_tick in src/main.rs), the  *)
(* requests the task sends (ActionClient in src/action/http.rs), the samples *)
(* the processor feeds it, and time.                                        *)
(*                                                                          *)
(* Every instant is relative to the present, which is 0: Elapse makes all of *)
(* them one unit older.   Past Horizon an instant grows no older, since no  *)
(* comparison of the code can tell it apart any more; so the states are      *)
(* finitely many although time never ends.                                  *)
(***************************************************************************)
EXTENDS RuntimeState

CONSTANTS
  Config,           \* the [[states]] tables, a sequence of StateConfigs
  Samples,          \* the samples that may be observed
  RequestTimeout,   \* [http].timeout
  DryRuns,          \* whether --dry-run is given: the cases to consider
  MaxOverdue,       \* bound: how long a tick of the interval may be overdue
  MaxLag,           \* bound: time from reading the clock to locking the engine
  Horizon           \* bound: time after which an instant is just "long ago"

ASSUME ConfigAssumption ==
  /\ Config \in Seq(StateConfigs)
  /\ \A i \in DOMAIN Config : validate(Config[i])

ASSUME SamplesAssumption ==
  Samples \subseteq [serial : Nat, value : [MeasurementField -> Float]]

ASSUME BoundsAssumption ==
  /\ RequestTimeout \in Nat \ {0}
  /\ DryRuns \subseteq BOOLEAN
  /\ MaxOverdue \in Nat
  /\ MaxLag \in Nat
  /\ Horizon \in Nat

\* Horizon is beyond stale_after and reaches every other duration an instant is
\* compared with.
ASSUME HorizonAssumption ==
  \A i \in DOMAIN Config :
    /\ Config[i].stale_after + MaxLag < Horizon
    /\ \A target \in BinaryState :
         LET transition == Config[i].to[target]
             Lengths(step) == CASE step.type = "Request" -> 0
                                [] step.type = "Delay" -> step.duration
                                [] step.type = "WaitForJson" -> step.timeout
         IN /\ transition.duration + MaxLag <= Horizon
            /\ \A k \in DOMAIN transition.actions :
                 Lengths(transition.actions[k]) + MaxLag <= Horizon

VARIABLES
  states,     \* the runtime states, shared under the engine's mutex
  shutdown,   \* the cancellation token
  dry_run,    \* the client only pretends to send
  next_tick,  \* when the next tick of the interval is, or was, due
  pc,         \* what the tick task is about to do
  now,        \* the instant it has read and not yet used: now, completed_at
  actions,    \* the due actions it has not recorded yet, by state
  limit,      \* when the request in flight times out
  outcome     \* the outcome of the action executed last, not yet recorded

vars == <<states, shutdown, dry_run, next_tick, pc, now, actions, limit, outcome>>
task == <<pc, now, actions, limit, outcome>>

States == DOMAIN Config

DueAction == [target : BinaryState, step_index : Nat, deadline : Option(Int)]

ASSUME NoActionAssumption == None \notin DueAction

Pc == {"waiting", "collecting", "sending", "sent", "recording", "stopped"}

\* Types of all the variables.
TypeOK ==
  /\ states \in [States -> RuntimeState]
  /\ shutdown \in BOOLEAN
  /\ dry_run \in BOOLEAN
  /\ next_tick \in -MaxOverdue .. Second
  /\ pc \in Pc
  /\ now \in Option(Int)
  /\ actions \in [States -> Option(DueAction)]
  /\ limit \in Option(Int)
  /\ outcome \in Option(ActionOutcome)

NoActions == [i \in States |-> None]

\* Execution order: the vector of due actions is in the order of the states.
IsNext(i) == actions[i] # None /\ \A j \in States : j < i => actions[j] = None

AfterRecording == IF actions' = NoActions THEN "waiting" ELSE "sending"

Init ==
  /\ states = [i \in States |-> NewRuntimeState]
  /\ shutdown = FALSE
  /\ dry_run \in DryRuns
  /\ next_tick = 0    \* the first tick of an interval is due at once
  /\ pc = "waiting"
  /\ now = None
  /\ actions = NoActions
  /\ limit = None
  /\ outcome = None

-----------------------------------------------------------------------------
\* Time passes.

Older(at) == IF at = None THEN None
             ELSE IF at > -Horizon THEN at - 1
             ELSE at

OlderState(rt) ==
  [rt EXCEPT !.latest_sample_at = Older(@),
             !.condition_started_at = [target \in BinaryState |-> Older(@[target])],
             !.step_started_at = Older(@),
             !.next_retry_at = Older(@),
             !.hold_until = Older(@)]

OlderAction(due) ==
  IF due = None THEN None ELSE [due EXCEPT !.deadline = Older(@)]

\* The client gives up a request when its timeout expires, and the task gets
\* the engine's lock, which is never held across I/O, within MaxLag.
Elapse ==
  /\ pc = "sent" => limit > 0
  /\ pc \in {"collecting", "recording"} => now > -MaxLag
  /\ states' = [i \in States |-> OlderState(states[i])]
  /\ next_tick' = IF next_tick > -MaxOverdue THEN next_tick - 1 ELSE next_tick - 1 + Second
  /\ now' = Older(now)
  /\ actions' = [i \in States |-> OlderAction(actions[i])]
  /\ limit' = Older(limit)
  /\ UNCHANGED <<shutdown, dry_run, pc, outcome>>

-----------------------------------------------------------------------------
\* The sample processor: StateEngine::observe_sample, with the clock read
\* under the lock.
ObserveSample(sample) ==
  /\ states' = [i \in States |-> observe_sample(Config[i], states[i], sample, 0)]
  /\ UNCHANGED <<shutdown, dry_run, next_tick, task>>

-----------------------------------------------------------------------------
\* The tick task.

\* interval.tick() returns and the task reads the clock, before it asks for
\* the lock.
TakeTick ==
  /\ pc = "waiting"
  /\ next_tick <= 0
  /\ next_tick' = next_tick + Second
  /\ pc' = "collecting"
  /\ now' = 0
  /\ UNCHANGED <<states, shutdown, dry_run, actions, limit, outcome>>

\* What collect_due_actions does for one state: the state after it and the
\* action due, if any.
DueActionOf(config, rt) ==
  [target |-> rt.pending_target_state,
   step_index |-> rt.action_step_index,
   deadline |-> IF OnStep(config, rt, "WaitForJson") /\ rt.step_started_at # None
                THEN rt.step_started_at + current_action(config, rt).timeout
                ELSE None]

\* Mutant of TimedOut: the poll that timed out is due as well.
TimedOut_and_due(config, rt, at) ==
  [rt |-> record_wait_timeout(config, rt, rt.pending_target_state,
                              rt.action_step_index, at),
   due |-> DueActionOf(config, rt)]

TimedOut(config, rt, at) ==
  [rt |-> record_wait_timeout(config, rt, rt.pending_target_state,
                              rt.action_step_index, at),
   due |-> None]

Collected(config, rt, at) ==
  LET decided == tick(config, rt, at)
  IN CASE decided.decision = "None" -> [rt |-> decided.rt, due |-> None]
       [] decided.decision = "WaitTimedOut" -> TimedOut(config, decided.rt, at)
       [] decided.decision = "Attempt" ->
            [rt |-> decided.rt, due |-> DueActionOf(config, decided.rt)]

\* collect_due_actions, under the lock, with the instant read before it.
Collect ==
  /\ pc = "collecting"
  /\ states' = [i \in States |-> Collected(Config[i], states[i], now).rt]
  /\ actions' = [i \in States |-> Collected(Config[i], states[i], now).due]
  /\ pc' = AfterRecording
  /\ now' = None
  /\ UNCHANGED <<shutdown, dry_run, next_tick, limit, outcome>>

DeadlinePassed(due) == due.deadline # None /\ due.deadline <= 0

\* Mutant of Send: the deadline of a poll does not shorten its timeout.
Send_without_deadline ==
  /\ pc = "sending"
  /\ ~dry_run
  /\ \E i \in States : IsNext(i) /\ ~DeadlinePassed(actions[i])
  /\ limit' = RequestTimeout
  /\ pc' = "sent"
  /\ UNCHANGED <<states, shutdown, dry_run, next_tick, now, actions, outcome>>

\* ActionClient::execute up to the request: a poll gets what is left until
\* its deadline, and no more than the client's timeout.
Send ==
  /\ pc = "sending"
  /\ ~dry_run
  /\ \E i \in States :
       /\ IsNext(i)
       /\ ~DeadlinePassed(actions[i])
       /\ limit' = IF /\ actions[i].deadline # None
                      /\ actions[i].deadline < RequestTimeout
                   THEN actions[i].deadline
                   ELSE RequestTimeout
  /\ pc' = "sent"
  /\ UNCHANGED <<states, shutdown, dry_run, next_tick, now, actions, outcome>>

\* execute returns without sending: a dry run reports success, an expired
\* deadline a failure.
SkipSend ==
  /\ pc = "sending"
  /\ \E i \in States :
       /\ IsNext(i)
       /\ \/ dry_run /\ outcome' = "Success"
          \/ ~dry_run /\ DeadlinePassed(actions[i]) /\ outcome' = "Failure"
  /\ pc' = "recording"
  /\ now' = 0
  /\ UNCHANGED <<states, shutdown, dry_run, next_tick, actions, limit>>

\* execute returns an outcome: a response, an error or a timeout.  Only the
\* response to a poll can be that its condition is still pending.
Answer(result) ==
  /\ pc = "sent"
  /\ \E i \in States :
       /\ IsNext(i)
       /\ result = "Pending" =>
            action(Config[i].to[actions[i].target], actions[i].step_index).type
              = "WaitForJson"
  /\ limit' = None
  /\ outcome' = result
  /\ pc' = "recording"
  /\ now' = 0
  /\ UNCHANGED <<states, shutdown, dry_run, next_tick, actions>>

\* StateEngine::record_action_result for one state.
Recorded(config, rt, due, result, at) ==
  IF wait_timed_out(config, rt, due.target, due.step_index, at)
  THEN record_wait_timeout(config, rt, due.target, due.step_index, at)
  ELSE record_action_result(config, rt, due.target, due.step_index, result, at)

\* The task records the outcome, under the lock, with the instant read when
\* the request ended, and goes on to the next action or the next tick.
Record ==
  /\ pc = "recording"
  /\ \E i \in States :
       /\ IsNext(i)
       /\ states' = [states EXCEPT ![i] =
                       Recorded(Config[i], @, actions[i], outcome, now)]
       /\ actions' = [actions EXCEPT ![i] = None]
  /\ pc' = AfterRecording
  /\ now' = None
  /\ outcome' = None
  /\ UNCHANGED <<shutdown, dry_run, next_tick, limit>>

\* The token is cancelled; the task sees it only between two ticks, where
\* select! may still prefer a tick that is due.
Cancel ==
  /\ ~shutdown
  /\ shutdown' = TRUE
  /\ UNCHANGED <<states, dry_run, next_tick, task>>

\* Mutant of Stop: the task prefers a tick that is due.
Stop_when_idle ==
  /\ pc = "waiting"
  /\ shutdown
  /\ next_tick > 0
  /\ pc' = "stopped"
  /\ UNCHANGED <<states, shutdown, dry_run, next_tick, now, actions, limit, outcome>>

Stop ==
  /\ pc = "waiting"
  /\ shutdown
  /\ pc' = "stopped"
  /\ UNCHANGED <<states, shutdown, dry_run, next_tick, now, actions, limit, outcome>>

TickTask ==
  \/ TakeTick
  \/ Collect
  \/ Send
  \/ SkipSend
  \/ \E result \in ActionOutcome : Answer(result)
  \/ Record
  \/ Stop

Next ==
  \/ Elapse
  \/ \E sample \in Samples : ObserveSample(sample)
  \/ TickTask
  \/ Cancel

Spec == Init /\ [][Next]_vars
-----------------------------------------------------------------------------
\* Safety.

\* Between two calls a state is either idle or in the middle of one sequence,
\* and its fields agree on which: an idle state keeps no step, start, retry or
\* unmet desire behind, and a sequence drives to the desired state, which is
\* not the applied one, is on one of its own steps, knows when that step began
\* and runs in no dwell.  Any method of RuntimeState that forgot one of the
\* fields it resets would leave the next sequence with the last one's.
IdleOrInSequence ==
  \A i \in States :
    LET rt == states[i]
    IN IF rt.pending_target_state = None
       THEN /\ rt.desired_state = rt.applied_state
            /\ rt.action_step_index = 0
            /\ rt.step_started_at = None
            /\ rt.retry_attempt = 0
            /\ rt.next_retry_at = None
       ELSE /\ rt.desired_state = rt.pending_target_state
            /\ rt.applied_state # rt.pending_target_state
            /\ rt.action_step_index
                 < action_count(Config[i].to[rt.pending_target_state])
            /\ rt.step_started_at # None
            /\ rt.hold_until = None

\* An action collected by a tick still names its state's pending target and
\* step when its turn comes, however long the requests before it took and
\* whatever was observed meanwhile: the tick task never sends a request for a
\* step that is over, and record_action_result never discards a result.
DueActionsAreCurrent ==
  \A i \in States :
    actions[i] # None =>
      Concerns(states[i], actions[i].target, actions[i].step_index)

\* No poll is in flight past the deadline of its wait step, whatever
\* [http].timeout allows: a wait that has timed out is not held up by it.
PollEndsByDeadline ==
  pc = "sent" =>
    \A i \in States :
      IsNext(i) /\ actions[i].deadline # None => actions[i].deadline >= 0

\* The two conditions are never satisfied together: the validator rejects
\* overlapping thresholds (the "Ambiguity guard" of the thresholds page).
NeverAmbiguous == \A i \in States : ~states[i].ambiguous
-----------------------------------------------------------------------------
\* What the engine implements, for each of its states.

Sequence(i) == INSTANCE ActionSequence WITH
  Targets <- BinaryState,
  Steps <- [target \in BinaryState |-> action_count(Config[i].to[target])],
  Nothing <- None,
  applied <- states[i].applied_state,
  target <- states[i].pending_target_state,
  step <- states[i].action_step_index

\* Every output goes through its sequences as ActionSequence promises,
\* whatever the readings, the answers, the deadlines and the other outputs do
\* meanwhile ("Sequences are atomic" on the thresholds page).
SequencesAreAtomic ==
  /\ \A i \in States : Sequence(i)!SeqInit
  /\ [][\A i \in States : [Sequence(i)!SeqNext]_(Sequence(i)!seqVars)]_vars
=============================================================================

--------------------------- MODULE EngineActuator ---------------------------
(***************************************************************************)
(* StateEngine with the switches behind its endpoints.  "Delivery is at      *)
(* least once" (docs/src/routes/docs/concepts/thresholds/+page.md): a request *)
(* whose answer is lost, late or an error may have been handled, or may      *)
(* still be, once or several times, however long after the client has given  *)
(* it up.  Endpoints set a state, as the page demands, and a poll sets none.  *)
(***************************************************************************)
EXTENDS StateEngine

VARIABLES
  output,     \* where each switch is; None before a request has reached it
  given_up,   \* the targets of which copies of requests may still be under way
  late,       \* for how long a copy that arrives is one of the last sequence, by target
  stray       \* the last thing to reach the switch was a copy later than that

actuatorVars == <<vars, output, given_up, late, stray>>

\* The retry of a request and the dwell after its sequence take this long at
\* least.
RetryAndDwell(i, target) == RetryInitial + Config[i].to[target].hold_for

ActuatorInit ==
  /\ Init
  /\ output = [i \in States |-> None]
  /\ given_up = [i \in States |-> {}]
  /\ late = [i \in States |-> [target \in BinaryState |-> 0]]
  /\ stray = [i \in States |-> FALSE]

DueStep(i) == action(Config[i].to[actions[i].target], actions[i].step_index)

\* State i's request, or a copy of it, sets the switch.
Reach(i, target, is_stray) ==
  /\ output' = [output EXCEPT ![i] = target]
  /\ stray' = [stray EXCEPT ![i] = is_stray]

\* An answer of success comes from a switch that is set; any other outcome
\* leaves it open whether it was, or will be.
AnswerToRequest(result) ==
  /\ Answer(result)
  /\ \E i \in States :
       LET target == actions[i].target
       IN /\ IsNext(i)
          /\ DueStep(i).type = "Request"
          /\ \/ /\ result = "Success"
                /\ Reach(i, target, FALSE)
                /\ UNCHANGED <<given_up, late>>
             \/ /\ result # "Success"
                /\ Reach(i, target, FALSE) \/ UNCHANGED <<output, stray>>
                /\ given_up' = [given_up EXCEPT ![i] = @ \cup {target}]
                /\ late' = [late EXCEPT ![i][target] = RetryAndDwell(i, target)]

AnswerToPoll(result) ==
  /\ Answer(result)
  /\ \E i \in States : IsNext(i) /\ DueStep(i).type = "WaitForJson"
  /\ UNCHANGED <<output, given_up, late, stray>>

\* A request that was given up reaches its switch, not for the last time.
ReachLate(i, target) ==
  /\ target \in given_up[i]
  /\ Reach(i, target, late[i][target] = 0)
  /\ UNCHANGED <<vars, given_up, late>>

ElapseAtActuator ==
  /\ Elapse
  /\ late' = [i \in States |->
                [target \in BinaryState |->
                   IF late[i][target] > 0 THEN late[i][target] - 1 ELSE 0]]
  /\ UNCHANGED <<output, given_up, stray>>

AwayFromActuator ==
  /\ \/ \E sample \in Samples : ObserveSample(sample)
     \/ TakeTick \/ Collect \/ Send \/ SkipSend \/ Record \/ Stop \/ Cancel
  /\ UNCHANGED <<output, given_up, late, stray>>

ActuatorNext ==
  \/ ElapseAtActuator
  \/ \E result \in ActionOutcome : AnswerToRequest(result) \/ AnswerToPoll(result)
  \/ \E i \in States, target \in BinaryState : ReachLate(i, target)
  \/ AwayFromActuator

ActuatorSpec == ActuatorInit /\ [][ActuatorNext]_actuatorVars

-----------------------------------------------------------------------------
HasRequest(transition) ==
  \E k \in 0 .. action_count(transition) - 1 : action(transition, k).type = "Request"

\* A switch is where the engine believes it to be whenever its state is idle,
\* unless the last thing to reach it was a copy of a request the client had
\* given up retry_initial and hold_for, or longer, before.  So no earlier copy,
\* and nothing the engine itself does, ever undoes a transition behind its back:
\* requests that were lost, answered too late, repeated or overtaken by their own
\* copies leave the switch as applied.  (A dry run only pretends to move it.)
SwitchIsAsApplied ==
  \A i \in States :
    LET applied == states[i].applied_state
    IN /\ ~dry_run
       /\ states[i].pending_target_state = None
       /\ applied # None /\ HasRequest(Config[i].to[applied])
       /\ ~stray[i]
       => output[i] = applied
=============================================================================

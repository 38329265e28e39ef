--------------------------- MODULE EngineDelivery ---------------------------
(***************************************************************************)
(* StateEngine with a memory of what the endpoints answered, for the rules   *)
(* of the thresholds page about delivery and retries.  The added variables   *)
(* record only what passed between the client and the endpoints.             *)
(***************************************************************************)
EXTENDS StateEngine

VARIABLES
  succeeded,   \* the steps of each state's sequence that were answered with success
  failures,    \* failures of its current step since the step began
  failed_at    \* when the last of them was

\* Horizon reaches the delay between a failure and its retry too.
ASSUME RetryHorizonAssumption == RetryMax <= Horizon

deliveryVars == <<succeeded, failures, failed_at>>

DeliveryInit ==
  /\ Init
  /\ succeeded = [i \in States |-> {}]
  /\ failures = [i \in States |-> 0]
  /\ failed_at = [i \in States |-> None]

Moves(i) ==
  \/ states[i].pending_target_state # states'[i].pending_target_state
  \/ states[i].action_step_index # states'[i].action_step_index

ElapseDelivery ==
  /\ Elapse
  /\ failed_at' = [i \in States |-> Older(failed_at[i])]
  /\ UNCHANGED <<succeeded, failures>>

\* A tick may begin a sequence, which starts the record anew, or move on.
CollectDelivery ==
  /\ Collect
  /\ succeeded' = [i \in States |->
                     IF states[i].pending_target_state = None THEN {} ELSE succeeded[i]]
  /\ failures' = [i \in States |-> IF Moves(i) THEN 0 ELSE failures[i]]
  /\ failed_at' = [i \in States |-> IF Moves(i) THEN None ELSE failed_at[i]]

RecordDelivery ==
  /\ Record
  /\ \E i \in States :
       /\ IsNext(i)
       /\ succeeded' = [succeeded EXCEPT ![i] =
                          IF outcome = "Success" THEN @ \cup {actions[i].step_index}
                          ELSE @]
       /\ failures' = [failures EXCEPT ![i] =
                         IF Moves(i) THEN 0
                         ELSE IF outcome = "Failure" THEN SaturatingIncrement(@)
                         ELSE @]
       /\ failed_at' = [failed_at EXCEPT ![i] =
                          IF Moves(i) THEN None
                          ELSE IF outcome = "Failure" THEN now
                          ELSE @]

OtherDelivery ==
  /\ \/ \E sample \in Samples : ObserveSample(sample)
     \/ TakeTick
     \/ Send
     \/ SkipSend
     \/ \E result \in ActionOutcome : Answer(result)
     \/ Stop
     \/ Cancel
  /\ UNCHANGED deliveryVars

DeliveryNext ==
  \/ ElapseDelivery
  \/ CollectDelivery
  \/ RecordDelivery
  \/ OtherDelivery

DeliverySpec == DeliveryInit /\ [][DeliveryNext]_<<vars, deliveryVars>>

-----------------------------------------------------------------------------
StepOf(i, target, k) == action(Config[i].to[target], k)

Requests(i, target) ==
  {k \in 0 .. action_count(Config[i].to[target]) - 1 :
     StepOf(i, target, k).type = "Request"}

\* "The applied state changes only after the last step succeeds": when a state
\* becomes applied, each of its requests has been answered with success since
\* its sequence began; delays, timeouts that are continued, failures and
\* retries stand in for none of them.
AppliedMeansDelivered ==
  [][\A i \in States :
       /\ states[i].pending_target_state # None
       /\ states'[i].pending_target_state = None
       => Requests(i, states[i].pending_target_state) \subseteq succeeded'[i]
    ]_<<vars, deliveryVars>>

Sends(i) == pc = "sending" /\ pc' = "sent" /\ IsNext(i)

\* "A failed request retries in place, and earlier steps aren't repeated": a
\* request goes out after all the requests before it have succeeded, and never
\* again once it has.
RequestInOrder(i) ==
  LET due == actions[i]
  IN Sends(i) /\ due.step_index \in Requests(i, due.target) =>
       succeeded[i] \cap Requests(i, due.target)
         = {k \in Requests(i, due.target) : k < due.step_index}

\* So it is with every request of every state, in every step.
SentInOrderAndOnce == [][\A i \in States : RequestInOrder(i)]_<<vars, deliveryVars>>

\* The n-th delay of the "Retry backoff" section: retry_initial, doubled for
\* every failure after the first, up to retry_max.
DocumentedDelay(n) ==
  LET doubled == RetryInitial * 2^(n - 1)
  IN IF doubled < RetryMax THEN doubled ELSE RetryMax

\* The delay that can be relied on: from the eleventh failure on, the eleventh.
RetryDelay(n) == DocumentedDelay(IF n < 11 THEN n ELSE 11)

\* Between the failure of one of its requests and the next attempt, state i
\* has waited for delay.
HasWaited(i, delay) ==
  LET due == actions[i]
  IN Sends(i) /\ failures[i] > 0 /\ due.step_index \in Requests(i, due.target) =>
       0 - failed_at[i] >= delay

\* "A failed request waits before retrying": a request that has failed n times
\* is sent again no sooner than the n-th delay of the table after the failure,
\* although the tick that finds it due may have read its clock earlier and the
\* requests of other states may have come in between; and never sooner than the
\* eleventh delay once it has failed more often than that.
RetriesAreSpaced ==
  [][\A i \in States : HasWaited(i, RetryDelay(failures[i]))]_<<vars, deliveryVars>>

\* What the page says, "doubling up to retry_max", without that restriction.
\* backoff stops doubling after the tenth time, so a retry_max of more than 1024
\* times retry_initial is never reached.
RetriesKeepDoubling ==
  [][\A i \in States : HasWaited(i, DocumentedDelay(failures[i]))]_<<vars, deliveryVars>>

\* No retry is put off further than retry_max, or a poll than its poll_every.
RetryIsNear ==
  \A i \in States :
    LET rt == states[i]
        next == poll_every(Config[i], rt)
    IN rt.next_retry_at # None =>
         rt.next_retry_at <= IF next > RetryMax THEN next ELSE RetryMax
=============================================================================

-------------------------- MODULE MCEngineDelivery --------------------------
(* Instances of EngineDelivery for TLC. *)
EXTENDS EngineDelivery, MCConfigs

\* One output with every kind of step, in half seconds.  To switch off: poll until
\* the machine is down, cut its power, give the meter a moment to agree, open the
\* breaker.
Machine ==
  <<State(1, "On", 1,
             Listed(">=", 3, 1, 0, <<Request, Delay(2), Request>>),
             Listed("<=", 1, 0, 1,
                       <<WaitForJson(2, 4, "Retry"), Request,
                         WaitForJson(2, 2, "Continue"), Request>>))>>

\* Low, neutral and high.
OneMeter == {Reading(1, 1), Reading(1, 2), Reading(1, 3)}

\* One output whose meter is in range just once, as a tick is due, with a reading
\* above the on threshold, and whose endpoint answers as soon as it is asked.
Breaker == <<State(1, "On", 1, Legacy(">=", 3, 0, 0), Legacy("<=", 1, 0, 0))>>

OneReading == {Reading(1, 3)}

HeardOnceAnsweredAtOnce ==
  /\ \A i \in States :
       states'[i].latest_sample_at = 0 =>
         states[i].latest_sample_at = 0 \/ (next_tick = 0 /\ states[i] = NewRuntimeState)
  /\ pc \notin {"waiting", "stopped"} => pc' # pc

HeardOnceSpec ==
  DeliveryInit /\ [][DeliveryNext /\ HeardOnceAnsweredAtOnce]_<<vars, deliveryVars>>
=============================================================================

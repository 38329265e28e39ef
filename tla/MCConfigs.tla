----------------------------- MODULE MCConfigs ------------------------------
(***************************************************************************)
(* Samples and configurations for TLC.  Floats 1, 2 and 3 are three         *)
(* voltages: low, between the thresholds (neutral) and high.                *)
(***************************************************************************)
EXTENDS StateConfig

Reading(number, value) ==
  [serial |-> number, value |-> [field \in MeasurementField |-> value]]

Request == [type |-> "Request"]
Delay(duration) == [type |-> "Delay", duration |-> duration]
WaitForJson(poll, timeout, on_timeout) ==
  [type |-> "WaitForJson", poll_every |-> poll, timeout |-> timeout,
   on_timeout |-> on_timeout]

\* A transition with a list of actions, and one with the legacy url.
Listed(op, value, duration, hold_for, steps) ==
  [op |-> op, value |-> value, duration |-> duration, hold_for |-> hold_for,
   url |-> FALSE, actions |-> steps]
Legacy(op, value, duration, hold_for) ==
  [op |-> op, value |-> value, duration |-> duration, hold_for |-> hold_for,
   url |-> TRUE, actions |-> << >>]

State(number, default, stale_after, on, off) ==
  [serial |-> number, field |-> "voltage1_volts", default_state |-> default,
   stale_after |-> stale_after,
   to |-> [target \in BinaryState |-> IF target = "On" THEN on ELSE off]]
=============================================================================

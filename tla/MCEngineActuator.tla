-------------------------- MODULE MCEngineActuator --------------------------
(* An instance of EngineActuator for TLC. *)
EXTENDS EngineActuator, MCConfigs

\* A breaker that is opened by one request and closed by two with a poll between
\* them, and dwells for a while.
Breaker ==
  <<State(1, "Off", 1,
             Listed(">=", 3, 0, 1, <<Request, WaitForJson(1, 1, "Continue"), Request>>),
             Legacy("<=", 1, 0, 1))>>

LowAndHigh == {Reading(1, 1), Reading(1, 3)}
=============================================================================

-------------------------- MODULE MCEngineMetrics ---------------------------
(* An instance of EngineMetrics and EngineLiveness for TLC. *)
EXTENDS EngineMetrics, EngineLiveness, MCConfigs

\* Nothing is assumed of the endpoints.
LiveMetricsSpec == MetricsSpec /\ TaskFairness

\* Two outputs on one meter; the requests of the one delay the polls of the
\* other, whose wait goes on without an answer when its time is up.
TwoOutputs ==
  <<State(1, "Off", 1,
          Legacy(">=", 3, 0, 0),
          Legacy("<=", 1, 0, 0)),
    State(1, "On", 1,
          Legacy(">=", 3, 0, 0),
          Listed("<=", 1, 0, 1, <<WaitForJson(1, 2, "Continue"), Request>>))>>

\* The second meter is not one of the configuration.
TwoMeters == {Reading(1, 1), Reading(1, 3), Reading(2, 3)}
=============================================================================

--------------------------- MODULE MCEngineTiming ---------------------------
(* Instances of EngineTiming and EngineLiveness for TLC. *)
EXTENDS EngineTiming, EngineLiveness, MCConfigs

\* With endpoints that answer at last, on a host that is punctual at last.
LiveTimingSpec == TimingSpec /\ TaskFairness /\ EndpointFairness /\ AtLastPunctual

\* One output with a duration on both sides, a dwell on one, and there a wait it
\* insists on.
Dwelling ==
  <<State(1, "On", 1,
             Legacy(">=", 3, 1, 0),
             Listed("<=", 1, 2, 1, <<WaitForJson(1, 1, "Retry"), Request>>))>>

OneMeter == {Reading(1, 1), Reading(1, 2), Reading(1, 3)}
=============================================================================

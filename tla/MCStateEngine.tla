--------------------------- MODULE MCStateEngine ----------------------------
(* An instance of StateEngine for TLC. *)
EXTENDS StateEngine, MCConfigs

\* Off from -0.0 down, on from +0.0 up: the validator sees no overlap.
SplitAtZero ==
  <<State(1, "On", 1,
          Legacy(">=", PositiveZero, 0, 0), Legacy("<=", NegativeZero, 0, 0))>>

AroundZero == {Reading(1, v) : v \in {NegativeZero - 1, NegativeZero, PositiveZero, 1}}
=============================================================================

----------------------------- MODULE Thresholds -----------------------------
(***************************************************************************)
(* Threshold comparison (src/state/condition.rs) and the validator that     *)
(* rejects overlapping thresholds (validate_thresholds in src/config.rs).    *)
(*                                                                          *)
(* A 64-bit float is its position in the total order of f64::total_cmp:     *)
(*                                                                          *)
(*   -(M+2)    -(M+1) ... -2    -1     0     1 ... M       M+1               *)
(*    -NaN      -inf           -0.0  +0.0         +inf     +NaN              *)
(*                                                                          *)
(* so total_cmp is the order of the integers, while the comparison          *)
(* operators of Rust see the two zeros as one number and a NaN as           *)
(* comparable with nothing.                                                 *)
(***************************************************************************)
EXTENDS Integers

CONSTANT M    \* position of +infinity: how many positive floats there are

ASSUME MAssumption == M \in Nat \ {0}

Float == -(M + 2) .. M + 1

NegativeZero == -1
PositiveZero == 0

IsNaN(x) == x < -(M + 1) \/ x > M

\* The number a float stands for; -0.0 and +0.0 stand for the same one.
Numeric(x) == IF x < 0 THEN x + 1 ELSE x

ComparisonOp == {"<", "<=", ">", ">="}

\* Mutant of matches: Ge compares the wrong way round.
matches_ge_reversed(op, actual, threshold) ==
  /\ ~IsNaN(actual)
  /\ ~IsNaN(threshold)
  /\ \/ op = "<"  /\ Numeric(actual) < Numeric(threshold)
     \/ op = ">"  /\ Numeric(actual) > Numeric(threshold)
     \/ op \in {"<=", ">="} /\ Numeric(actual) <= Numeric(threshold)

\* condition::matches, with the operators of f64.
matches(op, actual, threshold) ==
  /\ ~IsNaN(actual)
  /\ ~IsNaN(threshold)
  /\ \/ op = "<"  /\ Numeric(actual) < Numeric(threshold)
     \/ op = "<=" /\ Numeric(actual) <= Numeric(threshold)
     \/ op = ">"  /\ Numeric(actual) > Numeric(threshold)
     \/ op = ">=" /\ Numeric(actual) >= Numeric(threshold)

upper_bound(op) == op \in {"<", "<="}

inclusive(op) == op \in {"<=", ">="}

\* The two conditions, each a record with fields op and value, are accepted
\* when they point in opposite directions and total_cmp finds no overlap.
validate_thresholds(on, off) ==
  /\ upper_bound(on.op) # upper_bound(off.op)
  /\ LET upper == IF upper_bound(on.op) THEN on ELSE off
         lower == IF upper_bound(on.op) THEN off ELSE on
     IN /\ ~(upper.value > lower.value)
        /\ ~(upper.value = lower.value /\ inclusive(upper.op) /\ inclusive(lower.op))

\* The one pair of accepted conditions that a reading can satisfy together:
\* at most -0.0 and at least +0.0, which total_cmp orders and <= does not.
SplitZero(on, off) ==
  LET upper == IF upper_bound(on.op) THEN on ELSE off
      lower == IF upper_bound(on.op) THEN off ELSE on
  IN /\ upper.value = NegativeZero /\ inclusive(upper.op)
     /\ lower.value = PositiveZero /\ inclusive(lower.op)
=============================================================================

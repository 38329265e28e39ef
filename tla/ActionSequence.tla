--------------------------- MODULE ActionSequence ---------------------------
(***************************************************************************)
(* What one configured output promises ("Sequences are atomic",             *)
(* docs/src/routes/docs/concepts/thresholds/+page.md): a sequence that has   *)
(* begun goes through its steps in order, none of them twice and none left   *)
(* out; nothing but its end changes the applied state; and no other sequence *)
(* begins before it has ended.  Readings, timers, retries, deadlines and      *)
(* requests are the business of StateEngine, which implements this.          *)
(***************************************************************************)
EXTENDS Naturals

CONSTANTS
  Targets,   \* the states an output may be driven to
  Steps,     \* how many steps the sequence to each of them has: one or more
  Nothing    \* none of the targets: not known yet, or no sequence

VARIABLES applied, target, step

seqVars == <<applied, target, step>>

SeqTypeOK ==
  /\ applied \in Targets \cup {Nothing}
  /\ target \in Targets \cup {Nothing}
  /\ step \in Nat

SeqInit ==
  /\ applied = Nothing
  /\ target = Nothing
  /\ step = 0

Begin(t) ==
  /\ target = Nothing
  /\ t # applied
  /\ target' = t
  /\ step' = 0
  /\ UNCHANGED applied

Advance ==
  /\ target # Nothing
  /\ step + 1 < Steps[target]
  /\ step' = step + 1
  /\ UNCHANGED <<applied, target>>

Finish ==
  /\ target # Nothing
  /\ step + 1 = Steps[target]
  /\ applied' = target
  /\ target' = Nothing
  /\ step' = 0

SeqNext ==
  \/ \E t \in Targets : Begin(t)
  \/ Advance
  \/ Finish

SeqSpec == SeqInit /\ [][SeqNext]_seqVars
=============================================================================

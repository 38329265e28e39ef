------------------------- MODULE EngineTiming_proofs -------------------------
(***************************************************************************)
(* When sequences begin, for every configuration that Config::validate       *)
(* accepts, any number of states, any samples and every bound: the rules of  *)
(* EngineTiming that the code keeps.                                        *)
(***************************************************************************)
EXTENDS EngineTiming, StateEngine_proofs

-----------------------------------------------------------------------------
\* The invariant.

\* A state that has dwelt until an instant, and runs no timer from before.
Dwelt(rt, free, clock) ==
  /\ rt.hold_until # None => free <= rt.hold_until
  /\ rt.hold_until = None => free <= clock
  /\ \A t \in BinaryState :
       rt.condition_started_at[t] # None => free <= rt.condition_started_at[t]

\* What the timers of a state say of the past: seen and applied are the
\* observer's memory of it, clock is the instant of the next decision, if its
\* tick has read the clock, or the present.  Only an idle state runs timers and
\* dwells, and what is Horizon old is beyond every dwell.
Timed(config, rt, seen, applied, clock) ==
  /\ rt.latest_value # None => rt.latest_sample_at # None
  /\ \A t \in BinaryState : seen[t] \in Int /\ seen[t] <= clock
  /\ applied \in Option(Int)
  /\ rt.applied_state = None => applied = None
  /\ rt.pending_target_state = None =>
       \A t \in BinaryState :
         rt.condition_started_at[t] # None => seen[t] <= rt.condition_started_at[t]
  /\ rt.pending_target_state = None /\ applied # None /\ applied > -Horizon =>
       Dwelt(rt, applied + config.to[rt.applied_state].hold_for, clock)

Clock == IF pc = "collecting" THEN now ELSE 0

\* What is added to IInv.
TimingInv ==
  /\ Clock \in Int /\ -MaxLag <= Clock /\ Clock <= 0
  /\ \A i \in States : Timed(Config[i], states[i], seen_at[i], applied_at[i], Clock)

\* The dwell of the applied state.
LEMMA HoldFor ==
  ASSUME NEW config \in StateConfigs, NEW rt \in RuntimeState, rt.applied_state # None
  PROVE  /\ rt.applied_state \in BinaryState
         /\ config.to[rt.applied_state].hold_for \in Nat
<1>1. rt.applied_state \in BinaryState
  BY DEF RuntimeState, Option
<1> QED
  BY <1>1 DEF StateConfigs, TransitionConfig

\* Instants keep their order as they age, and their distance while they are
\* not Horizon old.
LEMMA OlderInOrder ==
  ASSUME NEW a \in Int, NEW b \in Int, a <= b
  PROVE  /\ Older(a) \in Int
         /\ Older(a) <= a
         /\ Older(a) <= Older(b)
         /\ Older(a) > -Horizon => Older(a) = a - 1 /\ Older(b) = b - 1
         /\ a > -Horizon => Older(a) = a - 1 /\ Older(b) = b - 1
<1>1. a # None /\ b # None
  BY NoneAssumption
<1> QED
  BY <1>1, BoundsAssumption DEF Older

\* Time passes, for the clock too if its tick has read it.
LEMMA OlderTimed ==
  ASSUME NEW config \in StateConfigs, NEW rt \in RuntimeState,
         NEW seen, NEW seen_after, NEW applied,
         NEW clock \in Int, NEW later \in {clock, Older(clock)},
         Timed(config, rt, seen, applied, clock),
         \A t \in BinaryState : seen_after[t] = Older(seen[t])
  PROVE  Timed(config, OlderState(rt), seen_after, Older(applied), later)
<1> DEFINE next == OlderState(rt)
           hold_for == config.to[rt.applied_state].hold_for
<1>1. /\ next.latest_value = rt.latest_value
      /\ next.latest_sample_at = Older(rt.latest_sample_at)
      /\ next.applied_state = rt.applied_state
      /\ next.pending_target_state = rt.pending_target_state
      /\ next.hold_until = Older(rt.hold_until)
      /\ \A t \in BinaryState :
           next.condition_started_at[t] = Older(rt.condition_started_at[t])
  BY DEF OlderState, RuntimeState
<1>2. /\ rt.latest_sample_at \in Option(Int)
      /\ rt.hold_until \in Option(Int)
      /\ applied \in Option(Int)
      /\ \A t \in BinaryState : rt.condition_started_at[t] \in Option(Int)
  BY DEF RuntimeState, Timed
<1> HIDE DEF next
<1>3. /\ next.latest_value # None => next.latest_sample_at # None
      /\ Older(applied) \in Option(Int)
      /\ next.applied_state = None => Older(applied) = None
  BY <1>1, <1>2, OlderInstant DEF Timed
<1>4. later \in Int /\ (later = clock \/ later = Older(clock)) /\ Older(clock) <= clock
  BY OlderInOrder
<1>5. ASSUME NEW t \in BinaryState
      PROVE  Older(seen[t]) \in Int /\ Older(seen[t]) <= later
  <2>1. seen[t] \in Int /\ seen[t] <= clock
    BY DEF Timed
  <2>2. /\ Older(seen[t]) \in Int
        /\ Older(seen[t]) <= seen[t]
        /\ Older(seen[t]) <= Older(clock)
    BY <2>1, OlderInOrder
  <2> QED
    BY <1>4, <2>1, <2>2
<1>6. ASSUME next.pending_target_state = None, NEW t \in BinaryState,
             next.condition_started_at[t] # None
      PROVE  Older(seen[t]) <= next.condition_started_at[t]
  <2>1. rt.condition_started_at[t] \in Int
    BY <1>1, <1>2, <1>6, OlderInstant DEF Option
  <2>2. seen[t] \in Int /\ seen[t] <= rt.condition_started_at[t]
    BY <1>1, <1>6, <2>1, NoneAssumption DEF Timed
  <2> QED
    BY <1>1, <2>1, <2>2, OlderInOrder
<1>7. ASSUME next.pending_target_state = None, Older(applied) # None,
             Older(applied) > -Horizon
      PROVE  Dwelt(next, Older(applied) + config.to[next.applied_state].hold_for, later)
  <2> DEFINE free == applied + hold_for
  <2>1. applied # None /\ applied \in Int
    BY <1>2, <1>7, OlderInstant DEF Option
  <2>2. hold_for \in Nat
    BY <2>1, HoldFor DEF Timed
  <2>3. Older(applied) = applied - 1 /\ applied > -Horizon
    BY <1>7, <2>1, OlderInOrder, BoundsAssumption
  <2>4. Dwelt(rt, free, clock)
    BY <1>1, <1>7, <2>1, <2>3 DEF Timed
  <2> HIDE DEF hold_for
  <2>5. free \in Int /\ free > -Horizon /\ Older(applied) + hold_for = free - 1
    BY <2>1, <2>2, <2>3, BoundsAssumption
  <2> HIDE DEF free
  <2>6. ASSUME NEW x \in Int, free <= x
        PROVE  free - 1 <= Older(x) /\ free - 1 <= x
    BY <2>5, <2>6, OlderInOrder
  <2>7. Dwelt(next, free - 1, later)
    <3>1. next.hold_until # None => free - 1 <= next.hold_until
      BY <1>1, <1>2, <2>4, <2>6, OlderInstant DEF Dwelt, Option
    <3>2. next.hold_until = None => free - 1 <= later
      BY <1>1, <1>2, <1>4, <2>4, <2>6, OlderInstant DEF Dwelt
    <3>3. \A t \in BinaryState :
            next.condition_started_at[t] # None => free - 1 <= next.condition_started_at[t]
      BY <1>1, <1>2, <2>4, <2>6, OlderInstant DEF Dwelt, Option
    <3> QED
      BY <3>1, <3>2, <3>3 DEF Dwelt
  <2> QED
    BY <1>1, <2>5, <2>7 DEF hold_for
<1> QED
  BY <1>3, <1>5, <1>6, <1>7 DEF Timed, next

\* A sample is observed.
LEMMA ObserveTimed ==
  ASSUME NEW config, NEW rt \in RuntimeState, NEW sample,
         NEW seen, NEW applied, NEW clock,
         Timed(config, rt, seen, applied, clock)
  PROVE  Timed(config, observe_sample(config, rt, sample, 0), seen, applied, clock)
<1> DEFINE next == observe_sample(config, rt, sample, 0)
<1>1. /\ next.applied_state = rt.applied_state
      /\ next.pending_target_state = rt.pending_target_state
      /\ next.hold_until = rt.hold_until
      /\ next.condition_started_at = rt.condition_started_at
      /\ next.latest_value # None => next.latest_sample_at # None
  BY NoneAssumption DEF observe_sample, RuntimeState, Timed
<1> HIDE DEF next
<1> QED
  BY <1>1 DEF Timed, Dwelt, next

\* What a tick sees, as the observer stamps it.
SeenAfter(config, rt, seen, at, t) ==
  IF Fresh(config, rt, at) /\ t \notin Matching(config, rt) THEN at ELSE seen[t]

\* When a state was last applied, after a step of its sequence at an instant.
AppliedAfter(rt, next, applied, at) ==
  IF rt.pending_target_state # None /\ next.pending_target_state = None THEN at
  ELSE applied

\* A sequence goes on or ends.
LEMMA WentTimed ==
  ASSUME NEW config \in StateConfigs, NEW rt, NEW next, NEW seen, NEW seen_after,
         NEW applied, NEW clock, NEW at \in Int,
         Timed(config, rt, seen, applied, clock),
         rt.pending_target_state # None,
         Went(config, rt, next, at),
         \A t \in BinaryState : seen_after[t] \in Int /\ seen_after[t] <= 0
  PROVE  Timed(config, next, seen_after, AppliedAfter(rt, next, applied, at), 0)
<1>1. next.latest_value # None => next.latest_sample_at # None
  BY DEF Timed, Went, SameSample
<1>2. applied \in Option(Int) /\ (rt.applied_state = None => applied = None)
  BY DEF Timed
<1>3. CASE next.pending_target_state # None /\ next.applied_state = rt.applied_state
  BY <1>1, <1>2, <1>3 DEF Timed, AppliedAfter
<1>4. CASE Completed(config, rt, next, at)
  <2>1. AppliedAfter(rt, next, applied, at) = at
    BY <1>4 DEF AppliedAfter, Completed
  <2>2. next.applied_state # None
    BY <1>4, NoneAssumption DEF Completed
  <2>3. \A t \in BinaryState : next.condition_started_at[t] = None
    BY <1>4 DEF Completed
  <2>4. /\ next.hold_until = at + config.to[next.applied_state].hold_for
        /\ config.to[next.applied_state].hold_for \in Nat
    BY <1>4 DEF Completed, StateConfigs, TransitionConfig
  <2>5. Dwelt(next, at + config.to[next.applied_state].hold_for, 0)
    BY <2>3, <2>4, NoneAssumption DEF Dwelt
  <2> QED
    BY <1>1, <2>1, <2>2, <2>3, <2>5, NoneAssumption DEF Timed, Option
<1> QED
  BY <1>3, <1>4 DEF Went

\* An idle state rests.
LEMMA RestedTimed ==
  ASSUME NEW config \in StateConfigs, NEW rt \in RuntimeState, NEW next,
         NEW seen, NEW seen_after, NEW applied, NEW at \in Int, at <= 0,
         Timed(config, rt, seen, applied, at),
         rt.pending_target_state = None,
         SameSample(rt, next),
         Rested(config, rt, next, at),
         \A t \in BinaryState : seen_after[t] = SeenAfter(config, rt, seen, at, t)
  PROVE  Timed(config, next, seen_after, AppliedAfter(rt, next, applied, at), 0)
<1>1. AppliedAfter(rt, next, applied, at) = applied
  BY DEF AppliedAfter
<1>2. /\ next.latest_value # None => next.latest_sample_at # None
      /\ applied \in Option(Int)
      /\ next.applied_state = rt.applied_state
      /\ next.applied_state = None => applied = None
  BY DEF Timed, SameSample, Rested
<1>3. \A t \in BinaryState : seen[t] \in Int /\ seen[t] <= at
  BY DEF Timed
<1>4. \A t \in BinaryState : seen_after[t] \in Int /\ seen_after[t] <= 0
  BY <1>3 DEF SeenAfter
<1>5. /\ rt.hold_until \in Option(Int)
      /\ \A t \in BinaryState : rt.condition_started_at[t] \in Option(Int)
  BY DEF RuntimeState
<1>6. ASSUME NEW t \in BinaryState, next.condition_started_at[t] # None
      PROVE  seen_after[t] <= next.condition_started_at[t]
  <2>1. CASE /\ next.condition_started_at[t] = rt.condition_started_at[t]
             /\ Fresh(config, rt, at) => t \in Matching(config, rt)
    <3>1. seen_after[t] = seen[t]
      BY <2>1 DEF SeenAfter
    <3>2. seen[t] <= rt.condition_started_at[t]
      BY <1>6, <2>1 DEF Timed
    <3> QED
      BY <2>1, <3>1, <3>2
  <2>2. CASE next.condition_started_at[t] = at /\ t \in Matching(config, rt)
    BY <1>3, <2>2 DEF SeenAfter
  <2> QED
    BY <1>6, <2>1, <2>2 DEF Rested
<1>7. ASSUME applied # None, applied > -Horizon
      PROVE  Dwelt(next, applied + config.to[rt.applied_state].hold_for, 0)
  <2> DEFINE free == applied + config.to[rt.applied_state].hold_for
  <2>1. config.to[rt.applied_state].hold_for \in Nat
    BY <1>7, HoldFor DEF Timed
  <2>2. free \in Int
    BY <1>2, <1>7, <2>1 DEF Option
  <2>3. Dwelt(rt, free, at)
    BY <1>7 DEF Timed
  <2> HIDE DEF free
  <2>4. Passed(rt, at) => free <= at
    BY <1>5, <2>2, <2>3 DEF Passed, Dwelt, Option
  <2>5. next.hold_until # None => free <= next.hold_until
    BY <2>3 DEF Dwelt, Rested
  <2>6. next.hold_until = None => free <= 0
    <3>1. next.hold_until = None => Passed(rt, at)
      BY DEF Rested, Passed
    <3> QED
      BY <2>2, <2>4, <3>1
  <2>7. \A t \in BinaryState :
          next.condition_started_at[t] # None => free <= next.condition_started_at[t]
    BY <2>3, <2>4 DEF Dwelt, Rested
  <2> QED
    BY <2>5, <2>6, <2>7 DEF Dwelt, free
<1> QED
  BY <1>1, <1>2, <1>4, <1>6, <1>7 DEF Timed

\* A tick, for one state (collect_due_actions).
LEMMA CollectOneTimed ==
  ASSUME NEW config \in StateConfigs, validate(config),
         NEW rt, StateOK(config, rt),
         NEW seen, NEW seen_after, NEW applied, NEW at \in Int, at <= 0,
         Timed(config, rt, seen, applied, at),
         \A t \in BinaryState : seen_after[t] = SeenAfter(config, rt, seen, at, t)
  PROVE  LET next == Collected(config, rt, at).rt
         IN /\ Timed(config, next, seen_after, AppliedAfter(rt, next, applied, at), 0)
            /\ rt.pending_target_state = None /\ next.pending_target_state # None =>
                 Started(config, rt, next, at)
<1> DEFINE next == Collected(config, rt, at).rt
<1>1. rt \in RuntimeState
  BY DEF StateOK
<1>2. /\ SameSample(rt, next)
      /\ IF rt.pending_target_state = None
         THEN Rested(config, rt, next, at) \/ Started(config, rt, next, at)
         ELSE Went(config, rt, next, at)
  BY CollectTimes DEF Timed
<1> HIDE DEF next
<1>3. \A t \in BinaryState : seen_after[t] \in Int /\ seen_after[t] <= 0
  <2>1. \A t \in BinaryState : seen[t] \in Int /\ seen[t] <= at
    BY DEF Timed
  <2> QED
    BY <2>1 DEF SeenAfter
<1>4. CASE rt.pending_target_state # None
  BY <1>2, <1>3, <1>4, WentTimed DEF next
<1>5. CASE rt.pending_target_state = None /\ Rested(config, rt, next, at)
  BY <1>1, <1>2, <1>5, RestedTimed DEF next, Rested
<1>6. CASE rt.pending_target_state = None /\ Started(config, rt, next, at)
  <2>1. next.pending_target_state # None /\ next.applied_state = rt.applied_state
    BY <1>6, NoneAssumption DEF Started
  <2>2. AppliedAfter(rt, next, applied, at) = applied
    BY <1>6 DEF AppliedAfter
  <2>3. Timed(config, next, seen_after, applied, 0)
    BY <1>2, <1>3, <2>1 DEF Timed, SameSample
  <2> QED
    BY <1>6, <2>2, <2>3 DEF next
<1> QED
  BY <1>2, <1>4, <1>5, <1>6

-----------------------------------------------------------------------------
\* The engine.

LEMMA InitTimed == TimingInit => IInv /\ TimingInv
<1> SUFFICES ASSUME TimingInit PROVE IInv /\ TimingInv
  OBVIOUS
<1>1. IInv
  BY InitIInv DEF TimingInit
<1>2. Clock = 0
  BY DEF TimingInit, Init, Clock
<1>3. \A i \in States : Timed(Config[i], states[i], seen_at[i], applied_at[i], 0)
  BY DEF TimingInit, Init, NewRuntimeState, Timed, Option
<1> QED
  BY <1>1, <1>2, <1>3, BoundsAssumption DEF TimingInv

\* The observer constrains nothing.
LEMMA TimingStep == [TimingNext]_<<vars, timingVars>> => [Next]_vars
BY DEF TimingNext, ElapseTiming, ObserveTiming, CollectTiming, RecordTiming, OtherTiming,
       Next, TickTask

\* A tick is decided for every state.
LEMMA CollectTimed ==
  ASSUME IInv, TimingInv, CollectTiming, NEW i \in States
  PROVE  /\ Clock = now
         /\ Timed(Config[i], states'[i], seen_at'[i], applied_at'[i], 0)
         /\ Begins(i) => Started(Config[i], states[i], states'[i], now)
<1>1. pc = "collecting" /\ states'[i] = Collected(Config[i], states[i], now).rt
  BY DEF CollectTiming, Collect
<1>2. Clock = now /\ now \in Int /\ now <= 0
  BY <1>1 DEF Clock, TimingInv
<1>3. /\ StateOK(Config[i], states[i])
      /\ Config[i] \in StateConfigs /\ validate(Config[i])
      /\ Timed(Config[i], states[i], seen_at[i], applied_at[i], now)
  BY <1>2, StatesTyped, ConfigOK DEF IInv, TypeOK, TimingInv
<1>4. ASSUME NEW t \in BinaryState
      PROVE  seen_at'[i][t] = SeenAfter(Config[i], states[i], seen_at[i], now, t)
  BY DEF CollectTiming, Stamp, Breaks, SeenAfter, Fresh, Matching
<1>5. applied_at'[i] = AppliedAfter(states[i], states'[i], applied_at[i], now)
  BY DEF CollectTiming, CompletionTimes, Completes, AppliedAfter
<1> QED
  BY <1>1, <1>2, <1>3, <1>4, <1>5, CollectOneTimed DEF Begins

\* An outcome is recorded.
LEMMA RecordTimed ==
  ASSUME IInv, TimingInv, RecordTiming, NEW j \in States
  PROVE  Timed(Config[j], states'[j], seen_at'[j], applied_at'[j], 0)
<1>1. PICK i \in States :
        /\ IsNext(i)
        /\ states' = [states EXCEPT ![i] =
                        Recorded(Config[i], states[i], actions[i], outcome, now)]
  BY DEF RecordTiming, Record
<1> DEFINE next == Recorded(Config[i], states[i], actions[i], outcome, now)
<1>2. \A k \in States : states'[k] = IF k = i THEN next ELSE states[k]
  BY <1>1 DEF IInv, TypeOK
<1>3. pc = "recording" /\ Clock = 0 /\ now \in Int
  BY DEF RecordTiming, Record, Clock, IInv, Control
<1>4. \A k \in States : Timed(Config[k], states[k], seen_at[k], applied_at[k], 0)
  BY <1>3 DEF TimingInv
<1>5. /\ seen_at'[j] = seen_at[j]
      /\ applied_at'[j] = AppliedAfter(states[j], states'[j], applied_at[j], now)
  BY DEF RecordTiming, CompletionTimes, Completes, AppliedAfter
<1>6. CASE j = i
  <2>1. actions[i] \in DueAction
    BY <1>1 DEF IInv, TypeOK, IsNext, Option
  <2>2. Concerns(states[i], actions[i].target, actions[i].step_index)
    BY <1>1 DEF IInv, DueActionsAreCurrent, IsNext
  <2>3. states[i].pending_target_state \in BinaryState
    BY <2>1, <2>2 DEF Concerns, DueAction
  <2>4. Went(Config[i], states[i], next, now)
    BY <2>3, RecordTimes, StatesTyped DEF IInv, TypeOK
  <2> HIDE DEF next
  <2>5. \A t \in BinaryState : seen_at[i][t] \in Int /\ seen_at[i][t] <= 0
    BY <1>4 DEF Timed
  <2>6. Timed(Config[i], next, seen_at[i],
              AppliedAfter(states[i], next, applied_at[i], now), 0)
    BY <1>3, <1>4, <2>3, <2>4, <2>5, WentTimed, ConfigOK, NoneAssumption
  <2> QED
    BY <1>2, <1>5, <1>6, <2>6
<1>7. CASE j # i
  <2>1. states'[j] = states[j]
    BY <1>2, <1>7
  <2>2. applied_at'[j] = applied_at[j]
    BY <1>5, <2>1 DEF AppliedAfter
  <2> QED
    BY <1>4, <1>5, <2>1, <2>2
<1> QED
  BY <1>6, <1>7

\* TimingInv is inductive, beside IInv.
LEMMA NextTimed ==
  ASSUME IInv, TimingInv, [TimingNext]_<<vars, timingVars>>
  PROVE  TimingInv'
<1>1. Clock \in Int /\ -MaxLag <= Clock /\ Clock <= 0
  BY DEF TimingInv
<1>2. \A i \in States : /\ states[i] \in RuntimeState
                        /\ Config[i] \in StateConfigs
                        /\ Timed(Config[i], states[i], seen_at[i], applied_at[i], Clock)
  BY StatesTyped, ConfigOK DEF IInv, TypeOK, TimingInv
<1>3. CASE ElapseTiming
  <2>1. pc' = pc /\ now' = Older(now) /\ (pc = "collecting" => now > -MaxLag)
    BY <1>3 DEF ElapseTiming, Elapse
  <2>2. /\ Clock' \in {Clock, Older(Clock)}
        /\ Clock' \in Int /\ -MaxLag <= Clock' /\ Clock' <= 0
    <3>1. CASE pc = "collecting"
      <4>1. Clock = now /\ Clock' = Older(now) /\ now > -MaxLag
        BY <2>1, <3>1 DEF Clock
      <4>2. now \in Int
        BY <1>1, <4>1
      <4>3. Older(now) \in Int /\ Older(now) <= now /\ Older(now) >= now - 1
        BY <4>2, NoneAssumption, BoundsAssumption DEF Older
      <4> QED
        BY <1>1, <4>1, <4>2, <4>3, BoundsAssumption
    <3>2. CASE pc # "collecting"
      BY <1>1, <2>1, <3>2 DEF Clock
    <3> QED
      BY <3>1, <3>2
  <2>3. \A i \in States :
          /\ states'[i] = OlderState(states[i])
          /\ \A t \in BinaryState : seen_at'[i][t] = Older(seen_at[i][t])
          /\ applied_at'[i] = Older(applied_at[i])
    BY <1>3 DEF ElapseTiming, Elapse, OlderInstants
  <2>4. ASSUME NEW i \in States
        PROVE  Timed(Config[i], states'[i], seen_at'[i], applied_at'[i], Clock')
    <3>1. \A t \in BinaryState : seen_at'[i][t] = Older(seen_at[i][t])
      BY <2>3
    <3>2. Timed(Config[i], states[i], seen_at[i], applied_at[i], Clock)
      BY <1>2
    <3>3. states[i] \in RuntimeState /\ Config[i] \in StateConfigs
      BY <1>2
    <3>4. Clock \in Int /\ Clock' \in {Clock, Older(Clock)}
      BY <1>1, <2>2
    <3>5. Timed(Config[i], OlderState(states[i]), seen_at'[i], Older(applied_at[i]), Clock')
      BY <3>1, <3>2, <3>3, <3>4, OlderTimed
    <3> QED
      BY <2>3, <3>5
  <2> QED
    BY <2>2, <2>4 DEF TimingInv
<1>4. ASSUME NEW sample \in Samples, ObserveTiming(sample)
      PROVE  TimingInv'
  <2>1. Clock' = Clock
    BY <1>4 DEF ObserveTiming, ObserveSample, task, Clock
  <2>2. \A i \in States :
          /\ states'[i] = observe_sample(Config[i], states[i], sample, 0)
          /\ seen_at'[i] = seen_at[i]
          /\ applied_at'[i] = applied_at[i]
    BY <1>4 DEF ObserveTiming, ObserveSample
  <2>3. \A i \in States : Timed(Config[i], states'[i], seen_at'[i], applied_at'[i], Clock')
    BY <1>2, <2>1, <2>2, ObserveTimed
  <2> QED
    BY <1>1, <2>1, <2>3 DEF TimingInv
<1>5. CASE CollectTiming
  <2>1. Clock' = 0
    BY <1>5 DEF CollectTiming, Collect, AfterRecording, Clock
  <2> QED
    BY <1>5, <2>1, CollectTimed, BoundsAssumption DEF TimingInv
<1>6. CASE RecordTiming
  <2>1. Clock' = 0
    BY <1>6 DEF RecordTiming, Record, AfterRecording, Clock
  <2> QED
    BY <1>6, <2>1, RecordTimed, BoundsAssumption DEF TimingInv
<1>7. CASE OtherTiming \/ UNCHANGED <<vars, timingVars>>
  <2>1. UNCHANGED <<states, seen_at, applied_at>>
    BY <1>7 DEF OtherTiming, TakeTick, Send, SkipSend, Answer, Stop, Cancel, task, vars,
                timingVars
  <2>2. Clock' = Clock
    BY <1>7 DEF OtherTiming, TakeTick, Send, SkipSend, Answer, Stop, Cancel, task, vars, Clock
  <2> QED
    BY <2>1, <2>2 DEF TimingInv
<1> QED
  BY <1>3, <1>4, <1>5, <1>6, <1>7 DEF TimingNext

LEMMA TimingInvariant == TimingSpec => [](IInv /\ TimingInv)
<1>1. IInv /\ TimingInv /\ [TimingNext]_<<vars, timingVars>> => IInv' /\ TimingInv'
  BY TimingStep, NextIInv, NextTimed
<1> QED
  BY <1>1, InitTimed, PTL DEF TimingSpec

\* A sequence begins in a tick of the engine, after which its state has moved.
LEMMA BeginsInTick ==
  ASSUME IInv, TimingInv, [TimingNext]_<<vars, timingVars>>, NEW i \in States, Begins(i)
  PROVE  /\ now \in Int /\ -MaxLag <= now
         /\ Started(Config[i], states[i], states'[i], now)
         /\ states'[i].pending_target_state # states[i].applied_state
         /\ Timed(Config[i], states[i], seen_at[i], applied_at[i], now)
<1>1. Moved(Config[i], states[i], states'[i])
  BY TimingStep, EachMoves
<1>2. states'[i].pending_target_state # states[i].applied_state
  BY <1>1, NoneAssumption DEF Begins, Moved, Unmoved, Advanced, Finished, Begun
<1>3. CollectTiming
  <2>1. CASE ElapseTiming
    <3>1. Unmoved(states[i], states'[i])
      BY <2>1, StatesTyped, OlderOne DEF ElapseTiming, Elapse, IInv, TypeOK
    <3> QED
      BY <3>1 DEF Begins, Unmoved
  <2>2. CASE \E sample \in Samples : ObserveTiming(sample)
    <3>1. \E sample \in Samples : ObserveSample(sample)
      BY <2>2 DEF ObserveTiming
    <3>2. Unmoved(states[i], states'[i])
      BY <3>1, StatesTyped, ConfigOK, ObserveOne DEF ObserveSample, IInv, TypeOK
    <3> QED
      BY <3>2 DEF Begins, Unmoved
  <2>3. CASE RecordTiming
    <3>1. PICK j \in States :
            /\ IsNext(j)
            /\ states' = [states EXCEPT ![j] =
                            Recorded(Config[j], states[j], actions[j], outcome, now)]
      BY <2>3 DEF RecordTiming, Record
    <3>2. i # j => states'[i] = states[i]
      BY <3>1 DEF IInv, TypeOK
    <3>3. actions[j] \in DueAction
      BY <3>1 DEF IInv, TypeOK, IsNext, Option
    <3>4. Concerns(states[j], actions[j].target, actions[j].step_index)
      BY <3>1 DEF IInv, DueActionsAreCurrent, IsNext
    <3>5. states[j].pending_target_state # None
      BY <3>3, <3>4, NoneAssumption DEF Concerns, DueAction
    <3> QED
      BY <3>2, <3>5 DEF Begins
  <2>4. CASE OtherTiming \/ UNCHANGED <<vars, timingVars>>
    <3>1. states' = states
      BY <2>4 DEF OtherTiming, TakeTick, Send, SkipSend, Answer, Stop, Cancel, vars
    <3> QED
      BY <3>1 DEF Begins
  <2> QED
    BY <2>1, <2>2, <2>3, <2>4 DEF TimingNext
<1>4. Clock = now /\ Started(Config[i], states[i], states'[i], now)
  BY <1>3, CollectTimed
<1> QED
  BY <1>2, <1>4 DEF TimingInv

\* The duration and the dwell of a transition are numbers.
LEMMA DurationTyped ==
  ASSUME NEW i \in States, NEW target \in BinaryState
  PROVE  Config[i].to[target].duration \in Nat /\ Config[i].to[target].hold_for \in Nat
BY ConfigOK DEF StateConfigs, TransitionConfig

-----------------------------------------------------------------------------
\* What is proved.

\* A sequence begins on its threshold only when, at every tick with a fresh
\* reading for at least its duration, the condition held: no sequence, dwell,
\* silence or failure in between leaves a timer that has not been running
\* (update_timer, the dwell and the stale branch of tick, advance_step).
THEOREM ConditionsAreHeld == TimingSpec => HeldAtEveryTick
<1> DEFINE Held_for(i) ==
      BeginsOnThreshold(i) =>
        now - seen_at[i][states'[i].pending_target_state] >= NewTarget(i).duration
<1>1. ASSUME IInv, TimingInv, [TimingNext]_<<vars, timingVars>>, NEW i \in States
      PROVE  Held_for(i)
  <2> SUFFICES ASSUME BeginsOnThreshold(i)
               PROVE  now - seen_at[i][states'[i].pending_target_state]
                        >= NewTarget(i).duration
    OBVIOUS
  <2> DEFINE target == states'[i].pending_target_state
             began == states[i].condition_started_at[target]
  <2>1. /\ now \in Int
        /\ Started(Config[i], states[i], states'[i], now)
        /\ Timed(Config[i], states[i], seen_at[i], applied_at[i], now)
    BY <1>1, BeginsInTick DEF BeginsOnThreshold
  <2>2. target \in BinaryState /\ target \in Matching(Config[i], states[i])
    BY <2>1 DEF Started, BeginsOnThreshold, Breaks, Matching
  <2>3. Lasted(Config[i], states[i], target, now)
    BY <2>1, <2>2 DEF Started
  <2>4. Config[i].to[target].duration \in Nat
    BY <2>2, DurationTyped
  <2>5. seen_at[i][target] \in Int /\ seen_at[i][target] <= now
    BY <2>1, <2>2 DEF Timed
  <2>6. began # None => began \in Int /\ seen_at[i][target] <= began
    <3>1. began \in Option(Int)
      BY <1>1, <2>2 DEF IInv, TypeOK, RuntimeState
    <3>2. states[i].pending_target_state = None
      BY DEF BeginsOnThreshold, Begins
    <3> QED
      BY <2>1, <2>2, <3>1, <3>2 DEF Timed, Option
  <2> HIDE DEF target, began
  <2>7. now - seen_at[i][target] >= Config[i].to[target].duration
    BY <2>1, <2>3, <2>4, <2>5, <2>6 DEF Lasted, began
  <2> QED
    BY <2>7 DEF target, NewTarget
<1>2. IInv /\ TimingInv /\ [TimingNext]_<<vars, timingVars>>
        => [\A i \in States : Held_for(i)]_<<vars, timingVars>>
  BY <1>1
<1> HIDE DEF Held_for
<1>3. TimingSpec => [][\A i \in States : Held_for(i)]_<<vars, timingVars>>
  BY <1>2, TimingInvariant, PTL DEF TimingSpec
<1> QED
  BY <1>3 DEF Held_for, HeldAtEveryTick

\* An output stays as it is for the dwell of its last sequence and then the
\* duration of the next one's condition, however that is interrupted: the dwell
\* is counted from the end of the sequence and the timers from the end of the
\* dwell (advance_step, the dwell branch of tick, update_timer).
THEOREM DwellsAreKept == TimingSpec => DwellThenDuration
<1> DEFINE Kept(i) ==
      Begins(i) /\ applied_at[i] # None =>
        /\ states'[i].pending_target_state # states[i].applied_state
        /\ now - applied_at[i]
             >= Config[i].to[states[i].applied_state].hold_for + NewTarget(i).duration
<1>1. ASSUME IInv, TimingInv, [TimingNext]_<<vars, timingVars>>, NEW i \in States
      PROVE  Kept(i)
  <2> SUFFICES ASSUME Begins(i), applied_at[i] # None
               PROVE  /\ states'[i].pending_target_state # states[i].applied_state
                      /\ now - applied_at[i]
                           >= Config[i].to[states[i].applied_state].hold_for
                                + NewTarget(i).duration
    OBVIOUS
  <2> DEFINE target == states'[i].pending_target_state
             before == states[i].applied_state
             began == states[i].condition_started_at[target]
             hold_for == Config[i].to[before].hold_for
             duration == Config[i].to[target].duration
             free == applied_at[i] + hold_for
  <2>1. /\ now \in Int /\ -MaxLag <= now
        /\ Started(Config[i], states[i], states'[i], now)
        /\ target # before
        /\ Timed(Config[i], states[i], seen_at[i], applied_at[i], now)
    BY <1>1, BeginsInTick
  <2>2. states[i] \in RuntimeState /\ states[i].pending_target_state = None
    BY <1>1 DEF IInv, TypeOK, Begins
  <2>3. target \in BinaryState /\ before \in BinaryState /\ before # None
    <3>1. before # None
      BY <2>1 DEF Timed
    <3> QED
      BY <2>1, <2>2, <3>1 DEF Started, RuntimeState, Option
  <2>4. hold_for \in Nat /\ duration \in Nat /\ hold_for + duration + MaxLag <= Horizon
    <3>1. i \in DOMAIN Config
      BY DEF States
    <3> QED
      BY <2>1, <2>3, <3>1, DurationTyped, TimingHorizonAssumption
  <2>5. applied_at[i] \in Int
    BY <2>1 DEF Timed, Option
  <2>6. Lasted(Config[i], states[i], target, now)
    BY <2>1, <2>3 DEF Started
  <2>7. CASE applied_at[i] <= -Horizon
    <3> HIDE DEF hold_for, duration, target, before
    <3>1. now - applied_at[i] >= hold_for + duration
      BY <2>1, <2>4, <2>5, <2>7, BoundsAssumption
    <3> QED
      BY <2>1, <3>1 DEF hold_for, duration, target, before, NewTarget
  <2>8. CASE applied_at[i] > -Horizon
    <3>1. Dwelt(states[i], free, now)
      BY <2>1, <2>2, <2>8 DEF Timed
    <3>2. /\ states[i].hold_until \in Option(Int)
          /\ began \in Option(Int)
          /\ began # None => free <= began
      BY <2>2, <2>3, <3>1 DEF RuntimeState, Dwelt
    <3>3. duration = 0 \/ (began # None /\ now - began >= duration)
      BY <2>6 DEF Lasted
    <3>4. free \in Int
      BY <2>4, <2>5
    <3>5. free <= now
      <4>1. states[i].hold_until = None \/ states[i].hold_until <= now
        BY <2>1 DEF Started, Passed
      <4> HIDE DEF free
      <4> QED
        BY <2>1, <3>1, <3>2, <3>4, <4>1 DEF Dwelt, Option
    <3> HIDE DEF free, began, hold_for, duration, target, before
    <3>6. now - free >= duration
      BY <2>1, <2>4, <3>2, <3>3, <3>4, <3>5 DEF Option
    <3>7. now - applied_at[i] >= hold_for + duration
      BY <2>1, <2>4, <2>5, <3>6 DEF free
    <3> QED
      BY <2>1, <3>7 DEF hold_for, duration, target, before, NewTarget
  <2> QED
    BY <2>5, <2>7, <2>8, BoundsAssumption
<1>2. IInv /\ TimingInv /\ [TimingNext]_<<vars, timingVars>>
        => [\A i \in States : Kept(i)]_<<vars, timingVars>>
  BY <1>1
<1> HIDE DEF Kept
<1>3. TimingSpec => [][\A i \in States : Kept(i)]_<<vars, timingVars>>
  BY <1>2, TimingInvariant, PTL DEF TimingSpec
<1> QED
  BY <1>3 DEF Kept, DwellThenDuration

\* default_state drives an output only while nothing has been applied yet, on a
\* fresh reading that satisfies neither condition (NewDesired in qualify: tick
\* in machine.rs).
THEOREM DefaultEndsWithStartup == TimingSpec => DefaultOnlyAtStartup
<1> DEFINE Default(i) ==
      Begins(i) /\ ~BeginsOnThreshold(i) =>
        /\ applied_at[i] = None
        /\ states'[i].pending_target_state = Config[i].default_state
        /\ ~IsStale(Config[i], states[i], now)
        /\ \A target \in BinaryState : Breaks(i, target, states[i].latest_value)
<1>1. ASSUME IInv, TimingInv, [TimingNext]_<<vars, timingVars>>, NEW i \in States
      PROVE  Default(i)
  <2> SUFFICES ASSUME Begins(i), ~BeginsOnThreshold(i)
               PROVE  /\ applied_at[i] = None
                      /\ states'[i].pending_target_state = Config[i].default_state
                      /\ ~IsStale(Config[i], states[i], now)
                      /\ \A target \in BinaryState :
                           Breaks(i, target, states[i].latest_value)
    OBVIOUS
  <2>1. /\ Started(Config[i], states[i], states'[i], now)
        /\ Timed(Config[i], states[i], seen_at[i], applied_at[i], now)
    BY <1>1, BeginsInTick
  <2>2. ~Lasted(Config[i], states[i], states'[i].pending_target_state, now)
    BY DEF BeginsOnThreshold, Breaks, Lasted, Matching
  <2>3. /\ Matching(Config[i], states[i]) = {}
        /\ states[i].applied_state = None
        /\ states'[i].pending_target_state = Config[i].default_state
        /\ ~IsStale(Config[i], states[i], now)
    BY <2>1, <2>2 DEF Started, Fresh
  <2>4. \A target \in BinaryState : Breaks(i, target, states[i].latest_value)
    BY <2>3 DEF Matching, Breaks
  <2> QED
    BY <2>1, <2>3, <2>4 DEF Timed
<1>2. IInv /\ TimingInv /\ [TimingNext]_<<vars, timingVars>>
        => [\A i \in States : Default(i)]_<<vars, timingVars>>
  BY <1>1
<1> HIDE DEF Default
<1>3. TimingSpec => [][\A i \in States : Default(i)]_<<vars, timingVars>>
  BY <1>2, TimingInvariant, PTL DEF TimingSpec
<1> QED
  BY <1>3 DEF Default, DefaultOnlyAtStartup
=============================================================================

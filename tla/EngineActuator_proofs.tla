------------------------ MODULE EngineActuator_proofs ------------------------
(***************************************************************************)
(* Where the switches are, for every configuration that Config::validate     *)
(* accepts, any number of outputs, any samples and every bound: only a copy   *)
(* of a request that arrives a retry and a dwell, or longer, after it was     *)
(* given up can move a switch behind the engine's back.                      *)
(***************************************************************************)
EXTENDS EngineActuator, StateEngine_proofs

\* The instant the task goes by.
Clock == IF now = None THEN 0 ELSE now

\* The outcome that waits to be recorded for a state, if there is one: an
\* outcome of "Pending" says nothing.
Answered(i) == pc = "recording" /\ IsNext(i)

News(i) == IF Answered(i) THEN outcome ELSE "Pending"

\* The sequence has had a request answered with success.
HasSet(config, rt) ==
  \E k \in 0 .. rt.action_step_index - 1 :
    action(config.to[rt.pending_target_state], k).type = "Request"

\* An idle state is set, and only copies of the requests that set it are in
\* time, until its dwell ends.
Settled(config, rt, out, st, lt) ==
  /\ \A t \in BinaryState : t # rt.applied_state => lt[t] = 0
  /\ rt.applied_state # None =>
       /\ lt[rt.applied_state] > 0 =>
            rt.hold_until # None /\ lt[rt.applied_state] <= rt.hold_until
       /\ HasRequest(config.to[rt.applied_state]) => st \/ out = rt.applied_state

\* In a sequence only copies of its own requests are in time: for no longer than
\* the dwell that will follow, and one delay more after a failure.  Once one has
\* succeeded the switch is set.
Driving(config, rt, due, clock, result, out, st, lt) ==
  LET target == rt.pending_target_state
      hold_for == config.to[target].hold_for
  IN /\ \A t \in BinaryState : t # target => lt[t] = 0
     /\ lt[target] > 0 =>
          \/ lt[target] <= clock + hold_for
          \/ /\ OnStep(config, rt, "Request")
             /\ due = None
             /\ rt.next_retry_at # None
             /\ lt[target] <= rt.next_retry_at + hold_for
          \/ /\ OnStep(config, rt, "Request")
             /\ result = "Failure"
             /\ lt[target] <= clock + RetryInitial + hold_for
     /\ HasSet(config, rt) => st \/ out = target
     /\ OnStep(config, rt, "Request") /\ result = "Success" => st \/ out = target

\* What holds of a state, its switch and its copies at an instant.
Kept(config, rt, due, clock, result, out, st, lt) ==
  IF rt.pending_target_state = None
  THEN Settled(config, rt, out, st, lt)
  ELSE Driving(config, rt, due, clock, result, out, st, lt)

SwitchOK(i) ==
  Kept(Config[i], states[i], actions[i], Clock, News(i), output[i], stray[i], late[i])

ClockOK == now # None => now <= 0

ActuatorTypeOK ==
  /\ output \in [States -> Option(BinaryState)]
  /\ stray \in [States -> BOOLEAN]
  /\ late \in [States -> [BinaryState -> Nat]]

\* A request has no third kind of answer and no deadline.
AnswersOK ==
  pc = "recording" =>
    /\ outcome \in ActionOutcome
    /\ ~dry_run =>
         \A i \in States :
           IsNext(i) /\ OnStep(Config[i], states[i], "Request") => outcome # "Pending"

OutputOK(i) ==
  /\ SampleOK(states[i])
  /\ actions[i] # None /\ OnStep(Config[i], states[i], "Request") =>
       actions[i].deadline = None
  /\ ~dry_run => SwitchOK(i)

ActuatorInv ==
  /\ ActuatorTypeOK
  /\ ClockOK
  /\ AnswersOK
  /\ \A i \in States : OutputOK(i)

-----------------------------------------------------------------------------
\* Constants.

LEMMA HoldFor ==
  ASSUME NEW config \in StateConfigs, NEW target \in BinaryState
  PROVE  config.to[target].hold_for \in Nat
BY DEF StateConfigs, TransitionConfig

LEMMA RetryInitialNat == RetryInitial \in Nat
BY RetryAssumption

\* A pending target is a target.
LEMMA PendingTarget ==
  ASSUME NEW config, NEW rt, StateOK(config, rt), rt.pending_target_state # None
  PROVE  /\ rt \in RuntimeState
         /\ Running(config, rt)
         /\ rt.pending_target_state \in BinaryState
BY DEF StateOK, Idle, Running

\* A state that has not moved is on the step it was on, after the same requests.
LEMMA SameStep ==
  ASSUME NEW config, NEW rt, NEW next, Unmoved(rt, next)
  PROVE  /\ next.pending_target_state = rt.pending_target_state
         /\ next.applied_state = rt.applied_state
         /\ \A type : OnStep(config, next, type) <=> OnStep(config, rt, type)
         /\ HasSet(config, next) <=> HasSet(config, rt)
BY DEF Unmoved, OnStep, current_action, HasSet

-----------------------------------------------------------------------------
\* Time.

\* How much longer copies are in time a unit of time later (ElapseAtActuator).
AgedLate(lt) == [t \in BinaryState |-> IF lt[t] > 0 THEN lt[t] - 1 ELSE 0]

LEMMA LateAges ==
  ASSUME NEW lt \in [BinaryState -> Nat]
  PROVE  /\ AgedLate(lt) \in [BinaryState -> Nat]
         /\ \A t \in BinaryState : lt[t] = 0 => AgedLate(lt)[t] = 0
         /\ \A t \in BinaryState :
              AgedLate(lt)[t] > 0 => lt[t] > 0 /\ AgedLate(lt)[t] = lt[t] - 1
<1>1. \A t \in BinaryState :
        /\ AgedLate(lt)[t] = IF lt[t] > 0 THEN lt[t] - 1 ELSE 0
        /\ lt[t] \in Nat
  BY DEF AgedLate
<1>2. \A t \in BinaryState : AgedLate(lt)[t] \in Nat
  BY <1>1
<1> QED
  BY <1>1, <1>2 DEF AgedLate

LEMMA InstantAges ==
  ASSUME NEW at \in Int
  PROVE  Older(at) \in Int /\ at - 1 <= Older(at) /\ Older(at) <= at
BY BoundsAssumption, NoneAssumption DEF Older

LEMMA OlderAttempts ==
  ASSUME NEW rt \in RuntimeState
  PROVE  /\ Unmoved(rt, OlderState(rt))
         /\ OlderState(rt).next_retry_at = Older(rt.next_retry_at)
         /\ OlderState(rt).hold_until = Older(rt.hold_until)
BY DEF OlderState, RuntimeState, Unmoved

LEMMA SettledAges ==
  ASSUME NEW config, NEW rt \in RuntimeState, NEW lt \in [BinaryState -> Nat],
         NEW out, NEW st, Settled(config, rt, out, st, lt)
  PROVE  Settled(config, OlderState(rt), out, st, AgedLate(lt))
<1> DEFINE next == OlderState(rt)
           aged == AgedLate(lt)
           target == rt.applied_state
<1>1. /\ next.applied_state = target
      /\ next.hold_until = Older(rt.hold_until)
  BY OlderAttempts DEF Unmoved
<1>2. rt.hold_until \in Option(Int) /\ target \in Option(BinaryState)
  BY DEF RuntimeState
<1>3. \A t \in BinaryState : t # target => aged[t] = 0
  BY LateAges DEF Settled
<1>4. ASSUME target # None, aged[target] > 0
      PROVE  next.hold_until # None /\ aged[target] <= next.hold_until
  <2>1. target \in BinaryState
    BY <1>2, <1>4 DEF Option
  <2>2. lt[target] > 0 /\ aged[target] = lt[target] - 1 /\ lt[target] \in Nat
    BY <1>4, <2>1, LateAges
  <2>3. rt.hold_until # None /\ lt[target] <= rt.hold_until
    BY <1>4, <2>2 DEF Settled
  <2>4. rt.hold_until \in Int
    BY <1>2, <2>3 DEF Option
  <2> HIDE DEF aged, target, next
  <2> QED
    BY <1>1, <2>2, <2>3, <2>4, InstantAges, NoneAssumption
<1> HIDE DEF aged, next
<1> QED
  BY <1>1, <1>3, <1>4 DEF Settled, aged, next

\* The clock may be read again meanwhile.
LEMMA DrivingAges ==
  ASSUME NEW config \in StateConfigs, NEW rt \in RuntimeState,
         rt.pending_target_state \in BinaryState,
         NEW lt \in [BinaryState -> Nat], NEW due, NEW result, NEW out, NEW st,
         NEW clock \in Int, NEW later \in Int, clock - 1 <= later,
         Driving(config, rt, due, clock, result, out, st, lt)
  PROVE  Driving(config, OlderState(rt), OlderAction(due), later, result, out, st,
                 AgedLate(lt))
<1> DEFINE next == OlderState(rt)
           aged == AgedLate(lt)
           target == rt.pending_target_state
           hold_for == config.to[target].hold_for
<1>1. /\ Unmoved(rt, next)
      /\ next.next_retry_at = Older(rt.next_retry_at)
  BY OlderAttempts
<1>2. rt.next_retry_at \in Option(Int) /\ hold_for \in Nat
  BY HoldFor DEF RuntimeState
<1>3. \A t \in BinaryState : t # target => aged[t] = 0
  BY LateAges DEF Driving
<1>4. due = None => OlderAction(due) = None
  BY DEF OlderAction
<1>5. OnStep(config, next, "Request") <=> OnStep(config, rt, "Request")
  BY <1>1, SameStep
<1>6. ASSUME aged[target] > 0
      PROVE  \/ aged[target] <= later + hold_for
             \/ /\ OnStep(config, next, "Request")
                /\ OlderAction(due) = None
                /\ next.next_retry_at # None
                /\ aged[target] <= next.next_retry_at + hold_for
             \/ /\ OnStep(config, next, "Request")
                /\ result = "Failure"
                /\ aged[target] <= later + RetryInitial + hold_for
  <2>1. lt[target] > 0 /\ aged[target] = lt[target] - 1 /\ lt[target] \in Nat
    BY <1>6, LateAges
  <2>2. CASE lt[target] <= clock + hold_for
    <3> HIDE DEF aged, target, hold_for
    <3> QED
      BY <1>2, <2>1, <2>2
  <2>3. CASE /\ OnStep(config, rt, "Request")
             /\ due = None
             /\ rt.next_retry_at # None
             /\ lt[target] <= rt.next_retry_at + hold_for
    <3>1. rt.next_retry_at \in Int
      BY <1>2, <2>3 DEF Option
    <3> HIDE DEF aged, target, next, hold_for
    <3>2. Older(rt.next_retry_at) # None
      BY <3>1, InstantAges, NoneAssumption
    <3>3. aged[target] <= Older(rt.next_retry_at) + hold_for
      BY <1>2, <2>1, <2>3, <3>1, InstantAges
    <3> QED
      BY <1>1, <1>4, <1>5, <2>3, <3>2, <3>3
  <2>4. CASE /\ OnStep(config, rt, "Request")
             /\ result = "Failure"
             /\ lt[target] <= clock + RetryInitial + hold_for
    <3> HIDE DEF aged, target, next, hold_for
    <3>1. aged[target] <= later + RetryInitial + hold_for
      BY <1>2, <2>1, <2>4, RetryInitialNat
    <3> QED
      BY <1>5, <2>4, <3>1
  <2> QED
    BY <2>1, <2>2, <2>3, <2>4 DEF Driving
<1>7. /\ HasSet(config, next) => st \/ out = target
      /\ OnStep(config, next, "Request") /\ result = "Success" => st \/ out = target
  BY <1>1, SameStep DEF Driving
<1>8. next.pending_target_state = target
  BY <1>1 DEF Unmoved
<1> HIDE DEF aged, next
<1> QED
  BY <1>3, <1>6, <1>7, <1>8 DEF Driving, aged, next

\* Reading the clock again changes nothing either.
LEMMA DrivingLater ==
  ASSUME NEW config \in StateConfigs, NEW rt, rt.pending_target_state \in BinaryState,
         NEW lt \in [BinaryState -> Nat], NEW due, NEW result, NEW out, NEW st,
         NEW clock \in Int, NEW later \in Int, clock <= later,
         Driving(config, rt, due, clock, result, out, st, lt)
  PROVE  Driving(config, rt, due, later, result, out, st, lt)
<1> DEFINE target == rt.pending_target_state
           hold_for == config.to[target].hold_for
<1>1. hold_for \in Nat /\ lt[target] \in Nat
  BY HoldFor
<1>2. /\ lt[target] <= clock + hold_for => lt[target] <= later + hold_for
      /\ lt[target] <= clock + RetryInitial + hold_for
           => lt[target] <= later + RetryInitial + hold_for
  <2> HIDE DEF target, hold_for
  <2> QED
    BY <1>1, RetryInitialNat
<1> QED
  BY <1>2 DEF Driving

-----------------------------------------------------------------------------
\* The moves of a sequence.

\* What a sequence keeps while no failure is about: it goes on or ends with its
\* switch set if it had a request, and its dwell outlasts the copies in time
\* (advance_step).
LEMMA SequenceMoves ==
  ASSUME NEW config \in StateConfigs, NEW rt \in RuntimeState,
         rt.pending_target_state \in BinaryState,
         NEW next, NEW at \in Int, at <= 0,
         Moved(config, rt, next), Went(config, rt, next, at),
         NEW lt \in [BinaryState -> Nat], NEW out, NEW st,
         \A t \in BinaryState : t # rt.pending_target_state => lt[t] = 0,
         lt[rt.pending_target_state] > 0 =>
           lt[rt.pending_target_state] <= at + config.to[rt.pending_target_state].hold_for,
         HasSet(config, rt) => st \/ out = rt.pending_target_state,
         OnStep(config, rt, "Request") /\ ~Unmoved(rt, next) =>
           st \/ out = rt.pending_target_state
  PROVE  \A due : Kept(config, next, due, 0, "Pending", out, st, lt)
<1> DEFINE target == rt.pending_target_state
           hold_for == config.to[target].hold_for
           steps == config.to[target]
<1>1. /\ hold_for \in Nat /\ lt[target] \in Nat
      /\ target # None
      /\ rt.action_step_index \in Nat
  BY HoldFor, NoneAssumption DEF RuntimeState
<1>2. lt[target] > 0 => lt[target] <= 0 + hold_for
  <2>1. lt[target] > 0 => lt[target] <= at + hold_for
    OBVIOUS
  <2> HIDE DEF target, hold_for
  <2> QED
    BY <1>1, <2>1
<1>3. CASE Unmoved(rt, next)
  <2>1. next.pending_target_state = target /\ (HasSet(config, next) <=> HasSet(config, rt))
    BY <1>3, SameStep
  <2> QED
    BY <1>1, <1>2, <2>1 DEF Kept, Driving
<1>4. CASE Advanced(config, rt, next)
  <2>1. /\ next.pending_target_state = target
        /\ next.action_step_index = rt.action_step_index + 1
        /\ ~Unmoved(rt, next)
    BY <1>1, <1>4 DEF Advanced, Unmoved
  <2>2. HasSet(config, next) => HasSet(config, rt) \/ OnStep(config, rt, "Request")
    <3> SUFFICES ASSUME NEW k \in 0 .. next.action_step_index - 1,
                        action(steps, k).type = "Request"
                 PROVE  HasSet(config, rt) \/ OnStep(config, rt, "Request")
      BY <2>1 DEF HasSet
    <3>1. k \in 0 .. rt.action_step_index - 1 \/ k = rt.action_step_index
      BY <1>1, <2>1
    <3> QED
      BY <1>1, <3>1 DEF HasSet, OnStep, current_action
  <2> QED
    BY <1>1, <1>2, <2>1, <2>2 DEF Kept, Driving
<1>5. CASE Finished(config, rt, next)
  <2>1. /\ next.pending_target_state = None
        /\ next.applied_state = target
        /\ rt.action_step_index + 1 = action_count(steps)
        /\ ~Unmoved(rt, next)
    BY <1>1, <1>5 DEF Finished, Unmoved
  <2>2. next.hold_until = at + hold_for
    BY <2>1 DEF Went, Completed
  <2>3. next.hold_until \in Int /\ next.hold_until # None
    BY <1>1, <2>2, NoneAssumption
  <2>4. HasRequest(steps) => HasSet(config, rt) \/ OnStep(config, rt, "Request")
    <3> SUFFICES ASSUME NEW k \in 0 .. action_count(steps) - 1,
                        action(steps, k).type = "Request"
                 PROVE  HasSet(config, rt) \/ OnStep(config, rt, "Request")
      BY DEF HasRequest
    <3>1. k \in 0 .. rt.action_step_index - 1 \/ k = rt.action_step_index
      BY <1>1, <2>1
    <3> QED
      BY <1>1, <3>1 DEF HasSet, OnStep, current_action
  <2>5. Settled(config, next, out, st, lt)
    BY <2>1, <2>2, <2>3, <2>4 DEF Settled
  <2> QED
    BY <2>1, <2>5 DEF Kept
<1>6. ~Begun(rt, next)
  BY <1>1 DEF Begun
<1> QED
  BY <1>3, <1>4, <1>5, <1>6 DEF Moved

-----------------------------------------------------------------------------
\* A tick.

\* An instant that has passed leaves no copy of an idle state in time.
LEMMA SettledPast ==
  ASSUME NEW config, NEW rt \in RuntimeState, NEW lt \in [BinaryState -> Nat],
         NEW out, NEW st, Settled(config, rt, out, st, lt),
         NEW at \in Int, at <= 0, Passed(rt, at)
  PROVE  \A t \in BinaryState : lt[t] = 0
<1>1. /\ rt.applied_state \in Option(BinaryState)
      /\ rt.hold_until \in Option(Int)
  BY DEF RuntimeState
<1>2. CASE rt.applied_state = None
  BY <1>2, NoneAssumption DEF Settled
<1>3. CASE rt.applied_state # None
  <2>1. rt.applied_state \in BinaryState
    BY <1>1, <1>3 DEF Option
  <2>2. lt[rt.applied_state] \in Nat
    BY <2>1
  <2>3. ~(lt[rt.applied_state] > 0)
    <3> SUFFICES ASSUME lt[rt.applied_state] > 0 PROVE FALSE
      OBVIOUS
    <3>1. rt.hold_until # None /\ lt[rt.applied_state] <= rt.hold_until
      BY <1>3 DEF Settled
    <3>2. rt.hold_until \in Int /\ rt.hold_until <= at
      BY <1>1, <3>1 DEF Passed, Option
    <3> QED
      BY <2>2, <3>1, <3>2
  <2>4. lt[rt.applied_state] = 0
    BY <2>2, <2>3
  <2> QED
    BY <2>4 DEF Settled
<1> QED
  BY <1>2, <1>3

LEMMA CollectSettled ==
  ASSUME NEW config \in StateConfigs, validate(config),
         NEW rt, StateOK(config, rt), SampleOK(rt), rt.pending_target_state = None,
         NEW lt \in [BinaryState -> Nat], NEW out, NEW st, Settled(config, rt, out, st, lt),
         NEW at \in Int, at <= 0
  PROVE  \A due : Kept(config, Collected(config, rt, at).rt, due, 0, "Pending", out, st, lt)
<1> DEFINE next == Collected(config, rt, at).rt
<1>1. rt \in RuntimeState
  BY DEF StateOK
<1>2. Rested(config, rt, next, at) \/ Started(config, rt, next, at)
  BY CollectTimes DEF SampleOK
<1>3. Moved(config, rt, next)
  BY CollectOne
<1> HIDE DEF next
<1>4. CASE Rested(config, rt, next, at)
  <2>1. next.pending_target_state = None /\ next.applied_state = rt.applied_state
    BY <1>4 DEF Rested
  <2>2. CASE next.hold_until = rt.hold_until
    <3>1. Settled(config, next, out, st, lt)
      BY <2>1, <2>2 DEF Settled
    <3> QED
      BY <2>1, <3>1 DEF next, Kept
  <2>3. CASE Passed(rt, at)
    <3>1. \A t \in BinaryState : lt[t] = 0
      BY <1>1, <2>3, SettledPast
    <3>2. rt.applied_state # None => rt.applied_state \in BinaryState
      BY <1>1 DEF RuntimeState, Option
    <3>3. Settled(config, next, out, st, lt)
      BY <2>1, <3>1, <3>2 DEF Settled
    <3> QED
      BY <2>1, <3>3 DEF next, Kept
  <2> QED
    BY <1>4, <2>2, <2>3 DEF Rested
<1>5. CASE Started(config, rt, next, at)
  <2>1. /\ Passed(rt, at)
        /\ next.pending_target_state \in BinaryState
        /\ next.pending_target_state # None
    BY <1>5, NoneAssumption DEF Started
  <2>2. \A t \in BinaryState : lt[t] = 0
    BY <1>1, <2>1, SettledPast
  <2>3. next.action_step_index = 0
    BY <1>3, <2>1, NoneAssumption DEF Moved, Unmoved, Advanced, Finished, Begun
  <2>4. ~HasSet(config, next)
    BY <2>3 DEF HasSet
  <2>5. \A due : Driving(config, next, due, 0, "Pending", out, st, lt)
    BY <2>1, <2>2, <2>4 DEF Driving
  <2> QED
    BY <2>1, <2>5 DEF next, Kept
<1> QED
  BY <1>2, <1>4, <1>5

LEMMA CollectDriving ==
  ASSUME NEW config \in StateConfigs, validate(config),
         NEW rt, StateOK(config, rt), SampleOK(rt), rt.pending_target_state # None,
         NEW lt \in [BinaryState -> Nat], NEW out, NEW st,
         NEW at \in Int, at <= 0,
         Driving(config, rt, None, at, "Pending", out, st, lt)
  PROVE  LET collected == Collected(config, rt, at)
         IN Kept(config, collected.rt, collected.due, 0, "Pending", out, st, lt)
<1> DEFINE collected == Collected(config, rt, at)
           next == collected.rt
           target == rt.pending_target_state
           hold_for == config.to[target].hold_for
<1>1. rt \in RuntimeState /\ target \in BinaryState /\ target # None
  BY PendingTarget
<1>2. CASE OnStep(config, rt, "Request")
  <2>1. /\ Unmoved(rt, next)
        /\ next.next_retry_at = rt.next_retry_at
        /\ collected.due # None => Reached(at, rt.next_retry_at)
    BY <1>2, TickKeepsRequest
  <2>2. /\ rt.next_retry_at \in Option(Int)
        /\ lt[target] \in Nat
        /\ hold_for \in Nat
    BY <1>1, HoldFor DEF RuntimeState
  <2>3. /\ next.pending_target_state = target
        /\ OnStep(config, next, "Request")
        /\ HasSet(config, next) <=> HasSet(config, rt)
    BY <1>2, <2>1, SameStep
  <2> HIDE DEF collected
  <2>4. ASSUME lt[target] > 0
        PROVE  \/ lt[target] <= 0 + hold_for
               \/ /\ collected.due = None
                  /\ rt.next_retry_at # None
                  /\ lt[target] <= rt.next_retry_at + hold_for
    <3>1. \/ lt[target] <= at + hold_for
          \/ rt.next_retry_at # None /\ lt[target] <= rt.next_retry_at + hold_for
      BY <2>4 DEF Driving
    <3>2. CASE lt[target] <= at + hold_for
      <4> HIDE DEF target, hold_for
      <4> QED
        BY <2>2, <3>2
    <3>3. CASE rt.next_retry_at # None /\ lt[target] <= rt.next_retry_at + hold_for
      <4>1. rt.next_retry_at \in Int
        BY <2>2, <3>3 DEF Option
      <4>2. collected.due # None => rt.next_retry_at <= at
        BY <2>1, <3>3 DEF Reached
      <4> HIDE DEF target, hold_for
      <4> QED
        BY <2>2, <3>3, <4>1, <4>2
    <3> QED
      BY <3>1, <3>2, <3>3
  <2>5. HasSet(config, rt) => st \/ out = target
    BY DEF Driving
  <2>6. \A t \in BinaryState : t # target => lt[t] = 0
    BY DEF Driving
  <2>7. Driving(config, next, collected.due, 0, "Pending", out, st, lt)
    BY <2>1, <2>3, <2>4, <2>5, <2>6 DEF Driving
  <2> QED
    BY <1>1, <2>3, <2>7 DEF Kept, collected
<1>3. CASE ~OnStep(config, rt, "Request")
  <2>1. Moved(config, rt, next) /\ Went(config, rt, next, at)
    BY CollectOne, CollectTimes DEF SampleOK
  <2>2. /\ \A t \in BinaryState : t # target => lt[t] = 0
        /\ lt[target] > 0 => lt[target] <= at + hold_for
        /\ HasSet(config, rt) => st \/ out = target
    BY <1>3 DEF Driving
  <2> HIDE DEF collected
  <2>3. \A due : Kept(config, next, due, 0, "Pending", out, st, lt)
    BY <1>1, <1>3, <2>1, <2>2, SequenceMoves
  <2> QED
    BY <2>3 DEF collected
<1> QED
  BY <1>2, <1>3

\* A request that is due has no deadline (collect_due_actions).
LEMMA CollectedDeadline ==
  ASSUME NEW config \in StateConfigs, validate(config),
         NEW rt, StateOK(config, rt), NEW at \in Int
  PROVE  LET collected == Collected(config, rt, at)
         IN collected.due # None /\ OnStep(config, collected.rt, "Request")
              => collected.due.deadline = None
<1> DEFINE decided == tick(config, rt, at)
<1>1. decided.decision \in TickDecision
  BY Tick DEF DecisionOK
<1>2. Collected(config, rt, at) =
        CASE decided.decision = "None" -> [rt |-> decided.rt, due |-> None]
          [] decided.decision = "WaitTimedOut" -> TimedOut(config, decided.rt, at)
          [] decided.decision = "Attempt" ->
               [rt |-> decided.rt, due |-> DueActionOf(config, decided.rt)]
  BY DEF Collected
<1> HIDE DEF decided
<1>3. CASE decided.decision \in {"None", "WaitTimedOut"}
  BY <1>2, <1>3 DEF TimedOut
<1>4. CASE decided.decision = "Attempt"
  <2>1. OnStep(config, decided.rt, "Request") => ~OnStep(config, decided.rt, "WaitForJson")
    BY DEF OnStep
  <2> QED
    BY <1>2, <1>4, <2>1 DEF DueActionOf
<1> QED
  BY <1>1, <1>3, <1>4 DEF TickDecision

-----------------------------------------------------------------------------
\* An answer.

\* A failed request is put off by one delay (record_action_result).
LEMMA FailurePutsOff ==
  ASSUME NEW config \in StateConfigs, validate(config),
         NEW rt, StateOK(config, rt), OnStep(config, rt, "Request"),
         NEW at \in Int, NEW due, Concerns(rt, due.target, due.step_index)
  PROVE  LET next == Recorded(config, rt, due, "Failure", at)
         IN /\ Unmoved(rt, next)
            /\ next.next_retry_at \in Int
            /\ at + RetryInitial <= next.next_retry_at
<1> DEFINE next == Recorded(config, rt, due, "Failure", at)
           retry_at == at + backoff(rt.retry_attempt)
<1>1. rt \in RuntimeState
  BY DEF StateOK
<1>2. ~OnStep(config, rt, "WaitForJson")
  BY DEF OnStep
<1>3. next = AfterFailure(rt, at)
  BY <1>2 DEF Recorded, wait_timed_out, WaitExpired, record_action_result
<1>4. /\ Unmoved(rt, AfterFailure(rt, at))
      /\ AfterFailure(rt, at).next_retry_at = retry_at
  BY <1>1 DEF AfterFailure, RuntimeState, Unmoved
<1>5. rt.retry_attempt \in Nat
  BY <1>1, FieldValues DEF RuntimeState
<1>6. retry_at \in Int /\ at + RetryInitial <= retry_at
  BY <1>5, BackoffBounds, RetryInitialNat
<1> HIDE DEF next, retry_at
<1> QED
  BY <1>3, <1>4, <1>6 DEF next

LEMMA RecordDriving ==
  ASSUME NEW config \in StateConfigs, validate(config),
         NEW rt, StateOK(config, rt), rt.pending_target_state # None,
         NEW lt \in [BinaryState -> Nat], NEW out, NEW st,
         NEW result \in ActionOutcome, NEW at \in Int, at <= 0,
         OnStep(config, rt, "Request") => result # "Pending",
         NEW due \in DueAction, due # None, Concerns(rt, due.target, due.step_index),
         Driving(config, rt, due, at, result, out, st, lt)
  PROVE  Kept(config, Recorded(config, rt, due, result, at), None, 0, "Pending",
              out, st, lt)
<1> DEFINE next == Recorded(config, rt, due, result, at)
           target == rt.pending_target_state
           hold_for == config.to[target].hold_for
<1>1. rt \in RuntimeState /\ target \in BinaryState /\ target # None
  BY PendingTarget
<1>2. lt[target] \in Nat /\ hold_for \in Nat
  BY <1>1, HoldFor
<1>3. Moved(config, rt, next) /\ Went(config, rt, next, at)
  BY <1>1, RecordOne, RecordTimes
<1>4. /\ \A t \in BinaryState : t # target => lt[t] = 0
      /\ HasSet(config, rt) => st \/ out = target
      /\ OnStep(config, rt, "Request") /\ result = "Success" => st \/ out = target
      /\ lt[target] > 0 =>
           \/ lt[target] <= at + hold_for
           \/ /\ OnStep(config, rt, "Request")
              /\ result = "Failure"
              /\ lt[target] <= at + RetryInitial + hold_for
  BY DEF Driving
<1>5. CASE OnStep(config, rt, "Request") /\ result = "Failure"
  <2>1. /\ Unmoved(rt, next)
        /\ next.next_retry_at \in Int
        /\ at + RetryInitial <= next.next_retry_at
    BY <1>5, FailurePutsOff
  <2>2. /\ next.pending_target_state = target
        /\ OnStep(config, next, "Request")
        /\ HasSet(config, next) <=> HasSet(config, rt)
    BY <1>5, <2>1, SameStep
  <2> HIDE DEF next
  <2>3. lt[target] > 0 => lt[target] <= next.next_retry_at + hold_for
    <3> HIDE DEF target, hold_for
    <3> QED
      BY <1>2, <1>4, <2>1, RetryInitialNat
  <2>4. Driving(config, next, None, 0, "Pending", out, st, lt)
    BY <1>4, <2>1, <2>2, <2>3, NoneAssumption DEF Driving
  <2> QED
    BY <1>1, <2>2, <2>4 DEF Kept, next
<1>6. CASE ~(OnStep(config, rt, "Request") /\ result = "Failure")
  <2>1. OnStep(config, rt, "Request") => result = "Success"
    BY <1>6 DEF ActionOutcome
  <2>2. lt[target] > 0 => lt[target] <= at + hold_for
    BY <1>4, <1>6
  <2> HIDE DEF next
  <2>3. \A any : Kept(config, next, any, 0, "Pending", out, st, lt)
    BY <1>1, <1>3, <1>4, <2>1, <2>2, SequenceMoves
  <2> QED
    BY <2>3 DEF next
<1> QED
  BY <1>5, <1>6

-----------------------------------------------------------------------------
\* The steps of the engine.

LEMMA InitSwitches == ActuatorInit => ActuatorInv
<1> SUFFICES ASSUME ActuatorInit PROVE ActuatorInv
  OBVIOUS
<1>1. ActuatorTypeOK
  BY DEF ActuatorInit, ActuatorTypeOK, Option
<1>2. ClockOK /\ AnswersOK
  BY DEF ActuatorInit, Init, ClockOK, AnswersOK
<1>3. ASSUME NEW i \in States PROVE OutputOK(i)
  <2>1. states[i] = NewRuntimeState /\ actions[i] = None
    BY DEF ActuatorInit, Init, NoActions
  <2>2. \A t \in BinaryState : late[i][t] = 0
    BY DEF ActuatorInit
  <2>3. Settled(Config[i], NewRuntimeState, output[i], stray[i], late[i])
    BY <2>2 DEF Settled, NewRuntimeState
  <2>4. SampleOK(NewRuntimeState) /\ NewRuntimeState.pending_target_state = None
    BY DEF SampleOK, NewRuntimeState
  <2> QED
    BY <2>1, <2>3, <2>4 DEF OutputOK, SwitchOK, Kept
<1> QED
  BY <1>1, <1>2, <1>3 DEF ActuatorInv

\* What the invariants say of one state.
LEMMA OutputFacts ==
  ASSUME IInv, ActuatorInv, NEW i \in States
  PROVE  /\ StateOK(Config[i], states[i])
         /\ states[i] \in RuntimeState
         /\ Config[i] \in StateConfigs /\ validate(Config[i])
         /\ actions[i] \in Option(DueAction)
         /\ actions[i] # None =>
              /\ actions[i] \in DueAction
              /\ Concerns(states[i], actions[i].target, actions[i].step_index)
              /\ actions[i].target \in BinaryState
              /\ states[i].pending_target_state = actions[i].target
              /\ states[i].pending_target_state # None
         /\ late[i] \in [BinaryState -> Nat]
         /\ OutputOK(i)
<1>1. /\ StateOK(Config[i], states[i])
      /\ states[i] \in RuntimeState
      /\ actions[i] \in Option(DueAction)
      /\ late[i] \in [BinaryState -> Nat]
      /\ OutputOK(i)
  BY StatesTyped DEF IInv, TypeOK, ActuatorInv, ActuatorTypeOK
<1>2. actions[i] # None => actions[i] \in DueAction /\ actions[i].target \in BinaryState
  BY <1>1 DEF Option, DueAction
<1>3. actions[i] # None => Concerns(states[i], actions[i].target, actions[i].step_index)
  BY DEF IInv, DueActionsAreCurrent
<1> QED
  BY <1>1, <1>2, <1>3, ConfigOK, NoneAssumption DEF Concerns

\* The clock has been read in the past.
LEMMA ClockFacts ==
  ASSUME IInv, ActuatorInv
  PROVE  /\ Clock \in Int /\ Clock <= 0
         /\ pc \in {"collecting", "recording"} => now \in Int /\ Clock = now
<1>1. now \in Option(Int) /\ (now # None => now <= 0)
  BY DEF IInv, TypeOK, ActuatorInv, ClockOK
<1>2. pc \in {"collecting", "recording"} => now \in Int
  BY DEF IInv, Control
<1> QED
  BY <1>1, <1>2, NoneAssumption DEF Clock, Option

\* A due action that is recorded is of the step its state is on.
LEMMA DueStepType ==
  ASSUME NEW i \in States, IInv, ActuatorInv, actions[i] # None
  PROVE  \A type : DueStep(i).type = type <=> OnStep(Config[i], states[i], type)
BY OutputFacts DEF DueStep, OnStep, current_action, Concerns

\* A state that takes no part keeps what it has, at any later reading of the clock.
LEMMA KeptLater ==
  ASSUME IInv, ActuatorInv, NEW i \in States, NEW later \in Int, Clock <= later,
         SwitchOK(i)
  PROVE  Kept(Config[i], states[i], actions[i], later, News(i), output[i], stray[i], late[i])
<1>1. CASE states[i].pending_target_state = None
  BY <1>1 DEF SwitchOK, Kept
<1>2. CASE states[i].pending_target_state # None
  <2>1. /\ states[i].pending_target_state \in BinaryState
        /\ Config[i] \in StateConfigs
        /\ late[i] \in [BinaryState -> Nat]
    BY <1>2, OutputFacts, PendingTarget
  <2>2. Driving(Config[i], states[i], actions[i], Clock, News(i), output[i], stray[i], late[i])
    BY <1>2 DEF SwitchOK, Kept
  <2>3. Driving(Config[i], states[i], actions[i], later, News(i), output[i], stray[i], late[i])
    BY <2>1, <2>2, ClockFacts, DrivingLater
  <2> QED
    BY <1>2, <2>3 DEF Kept
<1> QED
  BY <1>1, <1>2

LEMMA ElapseSwitches == IInv /\ ActuatorInv /\ ElapseAtActuator => ActuatorInv'
<1> SUFFICES ASSUME IInv, ActuatorInv, ElapseAtActuator PROVE ActuatorInv'
  OBVIOUS
<1>1. /\ Elapse /\ UNCHANGED <<output, stray>>
      /\ \A i \in States : late'[i] = AgedLate(late[i])
  BY DEF ElapseAtActuator, AgedLate
<1>2. /\ states' = [i \in States |-> OlderState(states[i])]
      /\ now' = Older(now)
      /\ actions' = [i \in States |-> OlderAction(actions[i])]
      /\ UNCHANGED <<dry_run, pc, outcome>>
  BY <1>1 DEF Elapse
<1>3. now \in Option(Int) /\ (now # None => now <= 0)
  BY DEF IInv, TypeOK, ActuatorInv, ClockOK
<1>4. ClockOK'
  BY <1>2, <1>3, InstantAges, NoneAssumption DEF ClockOK, Older, Option
<1>5. Clock' \in Int /\ Clock - 1 <= Clock'
  <2>1. CASE now = None
    BY <1>2, <2>1 DEF Clock, Older
  <2>2. CASE now # None
    <3>1. now \in Int
      BY <1>3, <2>2 DEF Option
    <3>2. Older(now) # None
      BY <3>1, InstantAges, NoneAssumption
    <3> QED
      BY <1>2, <2>2, <3>1, <3>2, InstantAges DEF Clock
  <2> QED
    BY <2>1, <2>2
<1>6. \A j \in States : actions'[j] = None <=> actions[j] = None
  BY <1>2, OutputFacts, OlderDue
<1>7. \A j \in States : IsNext(j)' <=> IsNext(j)
  BY <1>6 DEF IsNext
<1>8. ASSUME NEW i \in States
      PROVE  /\ \A type : OnStep(Config[i], states'[i], type)
                            <=> OnStep(Config[i], states[i], type)
             /\ states'[i] = OlderState(states[i])
             /\ Unmoved(states[i], OlderState(states[i]))
  BY <1>2, OutputFacts, OlderAttempts, SameStep
<1>9. AnswersOK'
  BY <1>2, <1>7, <1>8 DEF ActuatorInv, AnswersOK
<1>10. ASSUME NEW i \in States PROVE late'[i] \in [BinaryState -> Nat] /\ OutputOK(i)'
  <2> DEFINE rt == states[i]
             lt == late[i]
  <2>1. /\ rt \in RuntimeState
        /\ StateOK(Config[i], rt)
        /\ Config[i] \in StateConfigs
        /\ actions[i] \in Option(DueAction)
        /\ lt \in [BinaryState -> Nat]
        /\ OutputOK(i)
    BY OutputFacts
  <2>2. /\ states'[i] = OlderState(rt)
        /\ actions'[i] = OlderAction(actions[i])
        /\ output'[i] = output[i] /\ stray'[i] = stray[i]
        /\ late'[i] = AgedLate(lt)
    BY <1>1, <1>2
  <2>3. SampleOK(OlderState(rt))
    BY <2>1, OlderReading DEF OutputOK
  <2>4. actions'[i] # None /\ OnStep(Config[i], states'[i], "Request")
          => actions'[i].deadline = None
    BY <1>6, <1>8, <2>1, <2>2, OlderDue DEF OutputOK, Older
  <2>5. News(i)' = News(i)
    BY <1>2, <1>7 DEF News, Answered
  <2>6. ASSUME ~dry_run PROVE SwitchOK(i)'
    <3>1. Kept(Config[i], rt, actions[i], Clock, News(i), output[i], stray[i], lt)
      BY <2>1, <2>6 DEF OutputOK, SwitchOK
    <3>2. OlderState(rt).pending_target_state = rt.pending_target_state
      BY <1>8 DEF Unmoved
    <3>3. CASE rt.pending_target_state = None
      <4>1. Settled(Config[i], OlderState(rt), output[i], stray[i], AgedLate(lt))
        BY <2>1, <3>1, <3>3, SettledAges DEF Kept
      <4> QED
        BY <2>2, <3>2, <3>3, <4>1 DEF SwitchOK, Kept
    <3>4. CASE rt.pending_target_state # None
      <4>1. rt.pending_target_state \in BinaryState
        BY <2>1, <3>4, PendingTarget
      <4>2. Driving(Config[i], rt, actions[i], Clock, News(i), output[i], stray[i], lt)
        BY <3>1, <3>4 DEF Kept
      <4>3. Driving(Config[i], OlderState(rt), OlderAction(actions[i]), Clock', News(i),
                    output[i], stray[i], AgedLate(lt))
        BY <1>5, <2>1, <4>1, <4>2, ClockFacts, DrivingAges
      <4> QED
        BY <2>2, <2>5, <3>2, <3>4, <4>3 DEF SwitchOK, Kept
    <3> QED
      BY <3>3, <3>4
  <2>7. late'[i] \in [BinaryState -> Nat]
    BY <2>1, <2>2, LateAges
  <2> QED
    BY <1>2, <2>2, <2>3, <2>4, <2>6, <2>7 DEF OutputOK
<1>11. ActuatorTypeOK'
  <2>1. late' = [i \in States |-> late'[i]]
    BY DEF ElapseAtActuator
  <2> QED
    BY <1>1, <1>10, <2>1 DEF ActuatorInv, ActuatorTypeOK
<1> QED
  BY <1>4, <1>9, <1>10, <1>11 DEF ActuatorInv

LEMMA ObserveSwitches ==
  ASSUME IInv, ActuatorInv, NEW sample \in Samples, ObserveSample(sample),
         UNCHANGED <<output, late, stray>>
  PROVE  ActuatorInv'
<1>1. /\ UNCHANGED <<pc, now, actions, limit, outcome, dry_run>>
      /\ \A i \in States : states'[i] = observe_sample(Config[i], states[i], sample, 0)
  BY DEF ObserveSample, task
<1>2. \A i \in States : News(i)' = News(i)
  BY <1>1 DEF News, Answered, IsNext
<1>3. Clock' = Clock
  BY <1>1 DEF Clock
<1>4. ASSUME NEW i \in States
      PROVE  /\ \A type : OnStep(Config[i], states'[i], type)
                            <=> OnStep(Config[i], states[i], type)
             /\ HasSet(Config[i], states'[i]) <=> HasSet(Config[i], states[i])
  <2>1. Unmoved(states[i], states'[i])
    BY <1>1, OutputFacts, ObserveOne
  <2> QED
    BY <2>1, SameStep
<1>5. ASSUME NEW i \in States PROVE OutputOK(i)'
  <2> DEFINE rt == states[i]
             next == states'[i]
  <2>1. rt \in RuntimeState /\ OutputOK(i)
    BY OutputFacts
  <2>2. /\ next.pending_target_state = rt.pending_target_state
        /\ next.applied_state = rt.applied_state
        /\ next.next_retry_at = rt.next_retry_at
        /\ next.hold_until = rt.hold_until
        /\ SampleOK(next)
    <3>1. SampleOK(rt) /\ next = observe_sample(Config[i], rt, sample, 0)
      BY <1>1, <2>1 DEF OutputOK
    <3> QED
      BY <2>1, <3>1, ObservedReading, ConfigOK
  <2>3. ASSUME SwitchOK(i) PROVE SwitchOK(i)'
    <3>1. CASE rt.pending_target_state = None
      BY <2>2, <2>3, <3>1 DEF SwitchOK, Kept, Settled
    <3>2. CASE rt.pending_target_state # None
      BY <1>1, <1>2, <1>3, <1>4, <2>2, <2>3, <3>2 DEF SwitchOK, Kept, Driving
    <3> QED
      BY <3>1, <3>2
  <2> QED
    BY <1>1, <1>4, <2>1, <2>2, <2>3 DEF OutputOK
<1>6. AnswersOK'
  BY <1>1, <1>4 DEF ActuatorInv, AnswersOK, IsNext
<1> QED
  BY <1>1, <1>5, <1>6 DEF ActuatorInv, ActuatorTypeOK, ClockOK

LEMMA CollectSwitches ==
  IInv /\ ActuatorInv /\ Collect /\ UNCHANGED <<output, late, stray>> => ActuatorInv'
<1> SUFFICES ASSUME IInv, ActuatorInv, Collect, UNCHANGED <<output, late, stray>>
             PROVE  ActuatorInv'
  OBVIOUS
<1>1. /\ now \in Int /\ Clock = now /\ Clock <= 0
      /\ actions = NoActions
      /\ pc = "collecting"
      /\ pc' # "recording" /\ now' = None /\ dry_run' = dry_run
  BY ClockFacts DEF IInv, Control, Collect, AfterRecording
<1>2. Clock' = 0
  BY <1>1 DEF Clock
<1>3. ASSUME NEW i \in States PROVE OutputOK(i)'
  <2> DEFINE rt == states[i]
             collected == Collected(Config[i], rt, now)
  <2>1. /\ rt \in RuntimeState
        /\ StateOK(Config[i], rt)
        /\ Config[i] \in StateConfigs /\ validate(Config[i])
        /\ late[i] \in [BinaryState -> Nat]
        /\ OutputOK(i)
    BY OutputFacts
  <2>2. /\ states'[i] = collected.rt /\ actions'[i] = collected.due
        /\ output'[i] = output[i] /\ late'[i] = late[i] /\ stray'[i] = stray[i]
    BY DEF Collect
  <2>3. SampleOK(rt)
    BY <2>1 DEF OutputOK
  <2>4. SampleOK(collected.rt)
    BY <1>1, <2>1, <2>3, CollectTimes DEF SampleOK, SameSample
  <2>5. collected.due # None /\ OnStep(Config[i], collected.rt, "Request")
          => collected.due.deadline = None
    BY <1>1, <2>1, CollectedDeadline
  <2>6. News(i)' = "Pending" /\ News(i) = "Pending" /\ actions[i] = None
    BY <1>1 DEF News, Answered, NoActions
  <2>7. ASSUME ~dry_run PROVE SwitchOK(i)'
    <3>1. Kept(Config[i], rt, None, now, "Pending", output[i], stray[i], late[i])
      BY <1>1, <2>1, <2>6, <2>7 DEF OutputOK, SwitchOK
    <3>2. Kept(Config[i], collected.rt, collected.due, 0, "Pending", output[i], stray[i],
               late[i])
      <4>1. CASE rt.pending_target_state = None
        BY <1>1, <2>1, <2>3, <3>1, <4>1, CollectSettled DEF Kept
      <4>2. CASE rt.pending_target_state # None
        BY <1>1, <2>1, <2>3, <3>1, <4>2, CollectDriving DEF Kept
      <4> QED
        BY <4>1, <4>2
    <3> HIDE DEF collected
    <3> QED
      BY <1>2, <2>2, <2>6, <3>2 DEF SwitchOK
  <2> QED
    BY <1>1, <2>2, <2>4, <2>5, <2>7 DEF OutputOK
<1> QED
  BY <1>1, <1>3 DEF ActuatorInv, ActuatorTypeOK, ClockOK, AnswersOK

LEMMA RecordSwitches ==
  IInv /\ ActuatorInv /\ Record /\ UNCHANGED <<output, late, stray>> => ActuatorInv'
<1> SUFFICES ASSUME IInv, ActuatorInv, Record, UNCHANGED <<output, late, stray>>
             PROVE  ActuatorInv'
  OBVIOUS
<1>1. PICK i \in States :
        /\ IsNext(i)
        /\ states' = [states EXCEPT ![i] =
                        Recorded(Config[i], states[i], actions[i], outcome, now)]
        /\ actions' = [actions EXCEPT ![i] = None]
  BY DEF Record
<1>2. /\ pc = "recording" /\ pc' # "recording"
      /\ now' = None /\ dry_run' = dry_run
      /\ outcome \in ActionOutcome
  BY DEF Record, AfterRecording, ActuatorInv, AnswersOK
<1>3. now \in Int /\ Clock = now /\ now <= 0 /\ Clock' = 0
  BY <1>2, ClockFacts DEF Clock
<1> DEFINE rt == states[i]
           next == Recorded(Config[i], rt, actions[i], outcome, now)
<1>4. /\ rt \in RuntimeState
      /\ StateOK(Config[i], rt)
      /\ Config[i] \in StateConfigs /\ validate(Config[i])
      /\ actions[i] # None /\ actions[i] \in DueAction
      /\ Concerns(rt, actions[i].target, actions[i].step_index)
      /\ rt.pending_target_state \in BinaryState
      /\ rt.pending_target_state # None
      /\ late[i] \in [BinaryState -> Nat]
      /\ OutputOK(i)
  BY <1>1, OutputFacts DEF IsNext
<1>5. states'[i] = next /\ actions'[i] = None
  BY <1>1 DEF IInv, TypeOK
<1>6. \A j \in States : News(j)' = "Pending"
  BY <1>2 DEF News, Answered
<1>7. OutputOK(i)'
  <2>1. SampleOK(next)
    BY <1>4, RecordTimes DEF Went, SameSample, OutputOK, SampleOK
  <2>2. ASSUME ~dry_run PROVE SwitchOK(i)'
    <3>1. News(i) = outcome
      BY <1>1, <1>2 DEF News, Answered
    <3>2. Driving(Config[i], rt, actions[i], now, outcome, output[i], stray[i], late[i])
      BY <1>3, <1>4, <2>2, <3>1 DEF OutputOK, SwitchOK, Kept
    <3>3. OnStep(Config[i], rt, "Request") => outcome # "Pending"
      BY <1>1, <1>2, <2>2 DEF ActuatorInv, AnswersOK
    <3>4. Kept(Config[i], next, None, 0, "Pending", output[i], stray[i], late[i])
      BY <1>2, <1>3, <1>4, <3>2, <3>3, RecordDriving
    <3> HIDE DEF next
    <3> QED
      BY <1>3, <1>5, <1>6, <3>4 DEF SwitchOK
  <2> HIDE DEF next
  <2> QED
    BY <1>2, <1>5, <2>1, <2>2 DEF OutputOK
<1>8. ASSUME NEW j \in States, j # i PROVE OutputOK(j)'
  <2>1. states'[j] = states[j] /\ actions'[j] = actions[j]
    BY <1>1, <1>8 DEF IInv, TypeOK
  <2>2. News(j) = "Pending"
    BY <1>1, <1>8, OneIsNext DEF News, Answered
  <2>3. OutputOK(j)
    BY DEF ActuatorInv
  <2>4. SwitchOK(j) => SwitchOK(j)'
    <3> SUFFICES ASSUME SwitchOK(j) PROVE SwitchOK(j)'
      OBVIOUS
    <3>1. Kept(Config[j], states[j], actions[j], 0, News(j), output[j], stray[j], late[j])
      BY <1>3, KeptLater
    <3> QED
      BY <1>3, <1>6, <2>1, <2>2, <3>1 DEF SwitchOK
  <2> QED
    BY <1>2, <2>1, <2>3, <2>4 DEF OutputOK
<1> QED
  BY <1>2, <1>7, <1>8 DEF ActuatorInv, ActuatorTypeOK, ClockOK, AnswersOK

\* The answer to a poll is news of no switch.
LEMMA PollSwitches ==
  ASSUME IInv, ActuatorInv, NEW result \in ActionOutcome, AnswerToPoll(result)
  PROVE  ActuatorInv'
<1>1. /\ pc = "sent" /\ pc' = "recording" /\ now' = 0 /\ outcome' = result
      /\ UNCHANGED <<states, actions, dry_run, output, late, stray>>
  BY DEF AnswerToPoll, Answer
<1>2. PICK i \in States : IsNext(i) /\ DueStep(i).type = "WaitForJson"
  BY DEF AnswerToPoll
<1>3. ~OnStep(Config[i], states[i], "Request")
  <2>1. OnStep(Config[i], states[i], "WaitForJson")
    BY <1>2, DueStepType DEF IsNext
  <2> QED
    BY <2>1 DEF OnStep
<1>4. Clock <= 0 /\ Clock \in Int /\ Clock' = 0
  BY <1>1, ClockFacts, NoneAssumption DEF Clock
<1>5. \A j \in States : News(j) = "Pending" /\ (IsNext(j) <=> j = i) /\ (IsNext(j)' <=> IsNext(j))
  BY <1>1, <1>2, OneIsNext DEF News, Answered, IsNext
<1>6. AnswersOK'
  BY <1>1, <1>3, <1>5 DEF AnswersOK
<1>7. ASSUME NEW j \in States PROVE OutputOK(j)'
  <2>1. OutputOK(j)
    BY DEF ActuatorInv
  <2>2. SwitchOK(j) => SwitchOK(j)'
    <3> SUFFICES ASSUME SwitchOK(j) PROVE SwitchOK(j)'
      OBVIOUS
    <3>1. Kept(Config[j], states[j], actions[j], 0, "Pending", output[j], stray[j], late[j])
      BY <1>4, <1>5, KeptLater
    <3>2. News(j)' = "Pending" \/ ~OnStep(Config[j], states[j], "Request")
      BY <1>1, <1>3, <1>5 DEF News, Answered
    <3>3. Kept(Config[j], states[j], actions[j], 0, News(j)', output[j], stray[j], late[j])
      BY <3>1, <3>2 DEF Kept, Driving
    <3> QED
      BY <1>1, <1>4, <3>3 DEF SwitchOK
  <2> QED
    BY <1>1, <2>1, <2>2 DEF OutputOK
<1> QED
  BY <1>1, <1>6, <1>7 DEF ActuatorInv, ActuatorTypeOK, ClockOK

\* A request sets its switch, or leaves copies behind that are in time for one
\* delay and the dwell.
LEMMA RequestSwitches ==
  ASSUME IInv, ActuatorInv, NEW result \in ActionOutcome, AnswerToRequest(result)
  PROVE  ActuatorInv'
<1>1. /\ Answer(result)
      /\ pc = "sent" /\ pc' = "recording" /\ now' = 0 /\ outcome' = result
      /\ UNCHANGED <<states, actions, dry_run>>
  BY DEF AnswerToRequest, Answer
<1>2. PICK i \in States :
        /\ IsNext(i)
        /\ DueStep(i).type = "Request"
        /\ \/ /\ result = "Success"
              /\ Reach(i, actions[i].target, FALSE)
              /\ UNCHANGED late
           \/ /\ result # "Success"
              /\ Reach(i, actions[i].target, FALSE) \/ UNCHANGED <<output, stray>>
              /\ late' = [late EXCEPT ![i][actions[i].target]
                                        = RetryAndDwell(i, actions[i].target)]
  BY DEF AnswerToRequest
<1> DEFINE rt == states[i]
           target == actions[i].target
           hold_for == Config[i].to[target].hold_for
<1>3. /\ StateOK(Config[i], rt)
      /\ Config[i] \in StateConfigs
      /\ actions[i] # None
      /\ target \in BinaryState
      /\ rt.pending_target_state = target
      /\ rt.pending_target_state # None
      /\ late[i] \in [BinaryState -> Nat]
      /\ OutputOK(i)
      /\ OnStep(Config[i], rt, "Request")
  BY <1>2, OutputFacts, DueStepType DEF IsNext
<1>4. result \in {"Success", "Failure"}
  <2>1. PICK j \in States :
          /\ IsNext(j)
          /\ result = "Pending" =>
               action(Config[j].to[actions[j].target], actions[j].step_index).type
                 = "WaitForJson"
    BY <1>1 DEF Answer
  <2>2. j = i
    BY <1>2, <2>1, OneIsNext
  <2> QED
    BY <1>2, <2>1, <2>2 DEF ActionOutcome, DueStep
<1>5. /\ output' \in [States -> Option(BinaryState)]
      /\ stray' \in [States -> BOOLEAN]
      /\ \/ output'[i] = target
         \/ result # "Success" /\ output'[i] = output[i] /\ stray'[i] = stray[i]
      /\ \A j \in States : j # i => output'[j] = output[j] /\ stray'[j] = stray[j]
  BY <1>2, <1>3, FieldValues DEF ActuatorInv, ActuatorTypeOK, Reach
<1>6. RetryAndDwell(i, target) \in Nat /\ RetryAndDwell(i, target) = RetryInitial + hold_for
  BY <1>3, HoldFor, RetryInitialNat DEF RetryAndDwell
<1>7. /\ late' \in [States -> [BinaryState -> Nat]]
      /\ \A j \in States : j # i => late'[j] = late[j]
      /\ \A t \in BinaryState : t # target => late'[i][t] = late[i][t]
      /\ IF result = "Success" THEN late'[i] = late[i]
         ELSE late'[i][target] = RetryInitial + hold_for
  <2>1. CASE result = "Success"
    BY <1>2, <2>1 DEF ActuatorInv, ActuatorTypeOK
  <2>2. CASE result # "Success"
    <3> DEFINE span == RetryAndDwell(i, target)
               after == [late[i] EXCEPT ![target] = span]
    <3>1. late' = [late EXCEPT ![i] = after]
      BY <1>2, <2>2
    <3>2. span \in Nat /\ span = RetryInitial + hold_for
      BY <1>6
    <3> HIDE DEF span
    <3>3. /\ after \in [BinaryState -> Nat]
          /\ \A t \in BinaryState : after[t] = IF t = target THEN span ELSE late[i][t]
      BY <1>3, <3>2
    <3> HIDE DEF after
    <3> QED
      BY <1>3, <2>2, <3>1, <3>2, <3>3 DEF ActuatorInv, ActuatorTypeOK
  <2> QED
    BY <2>1, <2>2
<1>8. Clock <= 0 /\ Clock \in Int /\ Clock' = 0
  BY <1>1, ClockFacts, NoneAssumption DEF Clock
<1>9. \A j \in States : News(j) = "Pending" /\ (IsNext(j) <=> j = i) /\ (IsNext(j)' <=> IsNext(j))
  BY <1>1, <1>2, OneIsNext DEF News, Answered, IsNext
<1>10. AnswersOK'
  BY <1>1, <1>4 DEF AnswersOK, ActionOutcome
<1>11. OutputOK(i)'
  <2>1. News(i)' = result
    BY <1>1, <1>9 DEF News, Answered
  <2>2. ASSUME ~dry_run
        PROVE  Driving(Config[i], rt, actions[i], 0, result, output'[i], stray'[i], late'[i])
    <3>1. Kept(Config[i], rt, actions[i], 0, "Pending", output[i], stray[i], late[i])
      BY <1>3, <1>8, <1>9, <2>2, KeptLater DEF OutputOK
    <3>2. /\ \A t \in BinaryState : t # target => late[i][t] = 0
          /\ late[i][target] > 0 => late[i][target] <= 0 + hold_for
          /\ HasSet(Config[i], rt) => stray[i] \/ output[i] = target
      BY <1>3, <3>1 DEF Kept, Driving
    <3>3. /\ HasSet(Config[i], rt) => stray'[i] \/ output'[i] = target
          /\ result = "Success" => output'[i] = target
      BY <1>5, <3>2
    <3>4. \A t \in BinaryState : t # target => late'[i][t] = 0
      BY <1>7, <3>2
    <3>5. late'[i][target] > 0 =>
            \/ late'[i][target] <= 0 + hold_for
            \/ result = "Failure" /\ late'[i][target] <= 0 + RetryInitial + hold_for
      <4>1. CASE result = "Success"
        BY <1>7, <3>2, <4>1
      <4>2. CASE result = "Failure"
        <5>1. late'[i][target] = RetryInitial + hold_for
          BY <1>7, <4>2
        <5>2. hold_for \in Nat
          BY <1>3, HoldFor
        <5> HIDE DEF target, hold_for
        <5> QED
          BY <4>2, <5>1, <5>2, RetryInitialNat
      <4> QED
        BY <1>4, <4>1, <4>2
    <3> QED
      BY <1>3, <3>3, <3>4, <3>5 DEF Driving
  <2> QED
    BY <1>1, <1>3, <1>8, <2>1, <2>2 DEF OutputOK, SwitchOK, Kept
<1>12. ASSUME NEW j \in States, j # i PROVE OutputOK(j)'
  <2>1. OutputOK(j)
    BY DEF ActuatorInv
  <2>2. News(j)' = News(j)
    BY <1>9, <1>12 DEF News, Answered
  <2>3. SwitchOK(j) => SwitchOK(j)'
    <3> SUFFICES ASSUME SwitchOK(j) PROVE SwitchOK(j)'
      OBVIOUS
    <3>1. Kept(Config[j], states[j], actions[j], 0, News(j), output[j], stray[j], late[j])
      BY <1>8, KeptLater
    <3> QED
      BY <1>1, <1>5, <1>7, <1>8, <1>12, <2>2, <3>1 DEF SwitchOK
  <2> QED
    BY <1>1, <2>1, <2>3 DEF OutputOK
<1> QED
  BY <1>1, <1>5, <1>7, <1>10, <1>11, <1>12 DEF ActuatorInv, ActuatorTypeOK, ClockOK

\* A copy in time finds its switch where it moves it to; another is a stray.
LEMMA LateSwitches ==
  ASSUME IInv, ActuatorInv, NEW i \in States, NEW target \in BinaryState,
         ReachLate(i, target)
  PROVE  ActuatorInv'
<1> DEFINE rt == states[i]
           lt == late[i]
<1>1. /\ output' = [output EXCEPT ![i] = target]
      /\ stray' = [stray EXCEPT ![i] = (lt[target] = 0)]
      /\ UNCHANGED <<states, pc, now, actions, outcome, dry_run, late>>
  BY DEF ReachLate, Reach, vars
<1>2. /\ output' \in [States -> Option(BinaryState)]
      /\ stray' \in [States -> BOOLEAN]
      /\ output'[i] = target
      /\ stray'[i] = (lt[target] = 0)
      /\ \A j \in States : j # i => output'[j] = output[j] /\ stray'[j] = stray[j]
  BY <1>1, FieldValues DEF ActuatorInv, ActuatorTypeOK
<1>3. \A j \in States : News(j)' = News(j) /\ (IsNext(j)' <=> IsNext(j))
  BY <1>1 DEF News, Answered, IsNext
<1>4. Clock' = Clock
  BY <1>1 DEF Clock
<1>5. OutputOK(i)'
  <2>1. OutputOK(i)
    BY DEF ActuatorInv
  <2>2. ASSUME SwitchOK(i) PROVE SwitchOK(i)'
    <3>1. CASE rt.pending_target_state = None
      <4>1. stray'[i] \/ target = rt.applied_state
        BY <1>2, <2>2, <3>1 DEF SwitchOK, Kept, Settled
      <4> QED
        BY <1>1, <1>2, <2>2, <3>1, <4>1 DEF SwitchOK, Kept, Settled
    <3>2. CASE rt.pending_target_state # None
      <4>1. stray'[i] \/ target = rt.pending_target_state
        BY <1>2, <2>2, <3>2 DEF SwitchOK, Kept, Driving
      <4> QED
        BY <1>1, <1>2, <1>3, <1>4, <2>2, <3>2, <4>1 DEF SwitchOK, Kept, Driving
    <3> QED
      BY <3>1, <3>2
  <2> QED
    BY <1>1, <2>1, <2>2 DEF OutputOK
<1>6. ASSUME NEW j \in States, j # i PROVE OutputOK(j)'
  BY <1>1, <1>2, <1>3, <1>4, <1>6 DEF ActuatorInv, OutputOK, SwitchOK
<1>7. AnswersOK'
  BY <1>1, <1>3 DEF ActuatorInv, AnswersOK
<1> QED
  BY <1>1, <1>2, <1>5, <1>6, <1>7 DEF ActuatorInv, ActuatorTypeOK, ClockOK

\* A request has no deadline, so only polls and dry runs are skipped.
LEMMA SkipSwitches ==
  IInv /\ ActuatorInv /\ SkipSend /\ UNCHANGED <<output, late, stray>> => ActuatorInv'
<1> SUFFICES ASSUME IInv, ActuatorInv, SkipSend, UNCHANGED <<output, late, stray>>
             PROVE  ActuatorInv'
  OBVIOUS
<1>1. PICK i \in States :
        /\ IsNext(i)
        /\ \/ dry_run /\ outcome' = "Success"
           \/ ~dry_run /\ DeadlinePassed(actions[i]) /\ outcome' = "Failure"
  BY DEF SkipSend
<1>2. ~dry_run => ~OnStep(Config[i], states[i], "Request")
  BY <1>1 DEF ActuatorInv, OutputOK, IsNext, DeadlinePassed
<1>3. /\ pc = "sending" /\ pc' = "recording" /\ now' = 0
      /\ UNCHANGED <<states, actions, dry_run>>
  BY DEF SkipSend
<1>4. Clock <= 0 /\ Clock \in Int /\ Clock' = 0
  BY <1>3, ClockFacts, NoneAssumption DEF Clock
<1>5. \A j \in States : News(j) = "Pending" /\ (IsNext(j) <=> j = i) /\ (IsNext(j)' <=> IsNext(j))
  BY <1>1, <1>3, OneIsNext DEF News, Answered, IsNext
<1>6. AnswersOK'
  BY <1>1, <1>2, <1>3, <1>5 DEF AnswersOK, ActionOutcome
<1>7. ASSUME NEW j \in States PROVE OutputOK(j)'
  <2>1. OutputOK(j)
    BY DEF ActuatorInv
  <2>2. ASSUME ~dry_run, SwitchOK(j) PROVE SwitchOK(j)'
    <3>1. Kept(Config[j], states[j], actions[j], 0, "Pending", output[j], stray[j], late[j])
      BY <1>4, <1>5, <2>2, KeptLater
    <3>2. News(j)' = "Pending" \/ ~OnStep(Config[j], states[j], "Request")
      BY <1>2, <1>5, <2>2 DEF News, Answered
    <3>3. Kept(Config[j], states[j], actions[j], 0, News(j)', output[j], stray[j], late[j])
      BY <3>1, <3>2 DEF Kept, Driving
    <3> QED
      BY <1>3, <1>4, <3>3 DEF SwitchOK
  <2> QED
    BY <1>3, <2>1, <2>2 DEF OutputOK
<1> QED
  BY <1>3, <1>6, <1>7 DEF ActuatorInv, ActuatorTypeOK, ClockOK

\* Steps that change nothing the invariant is about but the clock.
LEMMA OtherSwitches ==
  /\ IInv /\ ActuatorInv
  /\ TakeTick \/ Send \/ Stop \/ Cancel \/ UNCHANGED vars
  /\ UNCHANGED <<output, late, stray>>
  => ActuatorInv'
<1> SUFFICES ASSUME IInv, ActuatorInv,
                    TakeTick \/ Send \/ Stop \/ Cancel \/ UNCHANGED vars,
                    UNCHANGED <<output, late, stray>>
             PROVE  ActuatorInv'
  OBVIOUS
<1>1. /\ UNCHANGED <<states, actions, outcome, dry_run>>
      /\ now' \in {0, now}
      /\ pc = "recording" \/ pc' = "recording" => pc' = pc /\ now' = now
  BY DEF TakeTick, Send, Stop, Cancel, task, vars
<1>2. \A j \in States : News(j)' = News(j) /\ (IsNext(j)' <=> IsNext(j))
  BY <1>1 DEF News, Answered, IsNext
<1>3. Clock' \in Int /\ Clock <= Clock'
  <2>1. Clock \in Int /\ Clock <= 0
    BY ClockFacts
  <2>2. CASE now' = now
    <3>1. Clock' = Clock
      BY <2>2 DEF Clock
    <3> QED
      BY <2>1, <3>1
  <2>3. CASE now' = 0
    <3>1. Clock' = 0
      BY <2>3 DEF Clock
    <3> QED
      BY <2>1, <3>1
  <2> QED
    BY <1>1, <2>2, <2>3
<1>4. ASSUME NEW j \in States PROVE OutputOK(j)'
  <2>1. OutputOK(j)
    BY DEF ActuatorInv
  <2>2. ASSUME SwitchOK(j) PROVE SwitchOK(j)'
    <3>1. Kept(Config[j], states[j], actions[j], Clock', News(j), output[j], stray[j],
               late[j])
      BY <1>3, <2>2, KeptLater
    <3> QED
      BY <1>1, <1>2, <3>1 DEF SwitchOK
  <2> QED
    BY <1>1, <2>1, <2>2 DEF OutputOK
<1>5. AnswersOK'
  BY <1>1, <1>2 DEF ActuatorInv, AnswersOK
<1> QED
  BY <1>1, <1>4, <1>5 DEF ActuatorInv, ActuatorTypeOK, ClockOK

-----------------------------------------------------------------------------
\* The theorem.

\* The switches constrain nothing.
LEMMA ActuatorStep == [ActuatorNext]_actuatorVars => [Next]_vars
BY DEF ActuatorNext, actuatorVars, ElapseAtActuator, AnswerToRequest, AnswerToPoll,
       ReachLate, AwayFromActuator, Next, TickTask

LEMMA NextSwitches ==
  IInv /\ ActuatorInv /\ [ActuatorNext]_actuatorVars => ActuatorInv'
<1> SUFFICES ASSUME IInv, ActuatorInv, [ActuatorNext]_actuatorVars
             PROVE  ActuatorInv'
  OBVIOUS
<1>1. CASE ElapseAtActuator
  BY <1>1, ElapseSwitches
<1>2. CASE \E result \in ActionOutcome : AnswerToRequest(result) \/ AnswerToPoll(result)
  BY <1>2, RequestSwitches, PollSwitches
<1>3. CASE \E i \in States, target \in BinaryState : ReachLate(i, target)
  BY <1>3, LateSwitches
<1>4. CASE AwayFromActuator
  BY <1>4, ObserveSwitches, CollectSwitches, RecordSwitches, SkipSwitches, OtherSwitches
     DEF AwayFromActuator
<1>5. CASE UNCHANGED actuatorVars
  BY <1>5, OtherSwitches DEF actuatorVars
<1> QED
  BY <1>1, <1>2, <1>3, <1>4, <1>5 DEF ActuatorNext

LEMMA ActuatorInductive == ActuatorSpec => [](IInv /\ ActuatorInv)
<1>1. ActuatorInit => IInv /\ ActuatorInv
  BY InitIInv, InitSwitches DEF ActuatorInit
<1>2. IInv /\ ActuatorInv /\ [ActuatorNext]_actuatorVars => (IInv /\ ActuatorInv)'
  BY ActuatorStep, NextIInv, NextSwitches
<1> QED
  BY <1>1, <1>2, PTL DEF ActuatorSpec

\* Delivery is at least once, and yet what the engine believes applied to an idle
\* output is where the switch is, for any sequences of requests, delays and polls
\* and although requests were lost, answered too late, repeated and overtaken by
\* their own copies: the one thing that can move the switch behind the engine's
\* back is a copy that arrives a retry and a dwell, or longer, after it was given
\* up (record_action_result, advance_step and tick in machine.rs, ActionClient).
THEOREM SwitchesFollowTheEngine == ActuatorSpec => []SwitchIsAsApplied
<1>1. ActuatorInv => SwitchIsAsApplied
  BY DEF ActuatorInv, OutputOK, SwitchOK, Kept, Settled, SwitchIsAsApplied
<1> QED
  BY <1>1, ActuatorInductive, PTL
=============================================================================

---------------------------- MODULE EngineTiming ----------------------------
(***************************************************************************)
(* StateEngine with a memory of when things happened, for the rules of the  *)
(* thresholds page that relate a decision to readings, ticks and sequences   *)
(* long past.  The added variables record only what an observer would see;   *)
(* they constrain nothing.                                                  *)
(***************************************************************************)
EXTENDS StateEngine

\* Horizon is beyond every dwell and the duration after it too.
ASSUME TimingHorizonAssumption ==
  \A i \in DOMAIN Config : \A before, after \in BinaryState :
    before # after =>
      Config[i].to[before].hold_for + Config[i].to[after].duration + MaxLag <= Horizon

VARIABLES
  applied_at,   \* when the last sequence of each state completed
  broken_at,    \* when a reading last broke each condition
  seen_at       \* when a tick last saw a fresh reading that breaks it

timingVars == <<applied_at, broken_at, seen_at>>

Breaks(i, target, value) ==
  ~matches(Config[i].to[target].op, value, Config[i].to[target].value)

\* The instants per state and target, some of them moved to a new one.
Stamp(instants, Affected(_, _), at) ==
  [i \in States |-> [target \in BinaryState |->
     IF Affected(i, target) THEN at ELSE instants[i][target]]]

OlderInstants(instants) ==
  [i \in States |-> [target \in BinaryState |-> Older(instants[i][target])]]

\* Nothing held before the start.
TimingInit ==
  /\ Init
  /\ applied_at = [i \in States |-> None]
  /\ broken_at = [i \in States |-> [target \in BinaryState |-> 0]]
  /\ seen_at = [i \in States |-> [target \in BinaryState |-> 0]]

ElapseTiming ==
  /\ Elapse
  /\ applied_at' = [i \in States |-> Older(applied_at[i])]
  /\ broken_at' = OlderInstants(broken_at)
  /\ seen_at' = OlderInstants(seen_at)

ObserveTiming(sample) ==
  /\ ObserveSample(sample)
  /\ LET Broken(i, target) ==
           /\ sample.serial = Config[i].serial
           /\ Breaks(i, target, sample.value[Config[i].field])
     IN broken_at' = Stamp(broken_at, Broken, 0)
  /\ UNCHANGED <<applied_at, seen_at>>

Completes(i) ==
  states[i].pending_target_state # None /\ states'[i].pending_target_state = None

Begins(i) ==
  states[i].pending_target_state = None /\ states'[i].pending_target_state # None

CompletionTimes ==
  [i \in States |-> IF Completes(i) THEN now ELSE applied_at[i]]

CollectTiming ==
  /\ Collect
  /\ applied_at' = CompletionTimes
  /\ LET Seen(i, target) ==
           /\ states[i].latest_value # None
           /\ ~IsStale(Config[i], states[i], now)
           /\ Breaks(i, target, states[i].latest_value)
     IN seen_at' = Stamp(seen_at, Seen, now)
  /\ UNCHANGED broken_at

RecordTiming ==
  /\ Record
  /\ applied_at' = CompletionTimes
  /\ UNCHANGED <<broken_at, seen_at>>

OtherTiming ==
  /\ \/ TakeTick
     \/ Send
     \/ SkipSend
     \/ \E result \in ActionOutcome : Answer(result)
     \/ Stop
     \/ Cancel
  /\ UNCHANGED timingVars

TimingNext ==
  \/ ElapseTiming
  \/ \E sample \in Samples : ObserveTiming(sample)
  \/ CollectTiming
  \/ RecordTiming
  \/ OtherTiming

TimingSpec == TimingInit /\ [][TimingNext]_<<vars, timingVars>>

-----------------------------------------------------------------------------
\* A sequence begins on its threshold, not on default_state.
BeginsOnThreshold(i) ==
  Begins(i) /\ ~Breaks(i, states'[i].pending_target_state, states[i].latest_value)

NewTarget(i) == Config[i].to[states'[i].pending_target_state]

\* "A transition fires only when its condition has held continuously for its
\* full duration", as far as the ticks can tell: between the last tick that
\* saw a fresh reading break the condition and the tick that begins the
\* sequence lies the whole duration, whatever sequences, dwells and silences
\* lie between them too.
HeldAtEveryTick ==
  [][\A i \in States :
       BeginsOnThreshold(i) =>
         now - seen_at[i][states'[i].pending_target_state] >= NewTarget(i).duration
    ]_<<vars, timingVars>>

\* "A single reading that breaks the condition resets the timer to zero": no
\* reading within the duration before the sequence begins broke it.
HeldAtEveryReading ==
  [][\A i \in States :
       BeginsOnThreshold(i) =>
         now - broken_at[i][states'[i].pending_target_state] >= NewTarget(i).duration
    ]_<<vars, timingVars>>

\* Dwell: the output stays as it is for at least the hold_for of the sequence
\* that set it and then the duration of the opposite condition ("at least 40
\* minutes" on the thresholds page), and it is never the same one again.
DwellThenDuration ==
  [][\A i \in States :
       Begins(i) /\ applied_at[i] # None =>
         /\ states'[i].pending_target_state # states[i].applied_state
         /\ now - applied_at[i]
              >= Config[i].to[states[i].applied_state].hold_for + NewTarget(i).duration
    ]_<<vars, timingVars>>

\* Startup: default_state drives the output only before anything has been
\* applied and only on a fresh reading in the neutral band; later on nothing
\* but a threshold does ("Once an action has succeeded, default_state is no
\* longer used").
DefaultOnlyAtStartup ==
  [][\A i \in States :
       Begins(i) /\ ~BeginsOnThreshold(i) =>
         /\ applied_at[i] = None
         /\ states'[i].pending_target_state = Config[i].default_state
         /\ ~IsStale(Config[i], states[i], now)
         /\ \A target \in BinaryState : Breaks(i, target, states[i].latest_value)
    ]_<<vars, timingVars>>
=============================================================================

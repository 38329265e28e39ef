--------------------------- MODULE EngineLiveness ---------------------------
(***************************************************************************)
(* What must eventually happen in StateEngine, and under which fairness.     *)
(***************************************************************************)
EXTENDS StateEngine

\* The task goes on from p; every p but "waiting" has one action that does.
Leaves(p) == pc = p /\ pc' \in Pc \ {p}

\* Time passes; the runtime runs the task whenever it can go on (the mutex is
\* fair and never held across I/O); and a request ends, by its timeout if by
\* nothing else.  A cancelled task is woken by both branches of its select!,
\* which picks one at random: it cannot prefer the tick for ever, although
\* Stop is disabled during every batch of requests.
TaskFairness ==
  /\ WF_vars(Elapse)
  /\ WF_vars(TakeTick)
  /\ \A p \in {"collecting", "sending", "sent", "recording"} : WF_pc(Leaves(p))
  /\ SF_vars(Stop)

\* The environment: the endpoint of a step, asked again and again, at last
\* answers as the step wishes, and a poll does so before its deadline.
AnswersInTime(i) ==
  /\ IsNext(i)
  /\ actions[i].deadline # None => actions[i].deadline > 0
  /\ Answer("Success")

EndpointFairness == \A i \in States : SF_vars(AnswersInTime(i))

\* The host: from some time on the task is not late again.  Without
\* it every window of a wait could close before its first poll is sent.
Ready ==
  \/ pc \in {"collecting", "sending", "recording"}
  \/ pc = "waiting" /\ next_tick <= 0

AtLastPunctual == <>[][Elapse => ~Ready]_vars

-----------------------------------------------------------------------------
Stopped == pc = "stopped"

\* The daemon can be stopped: whatever requests are due and however often they
\* fail, the tick task notices the cancellation and ends, so that main, which
\* waits for it, goes on to close the history and the scanner.
ShutdownEndsTask == shutdown ~> Stopped

\* A wait that is to be continued on timeout holds a sequence up only until
\* then, even if its endpoint is dead for ever: the battery is protected
\* although the machine never reports that it is down
\* (docs/src/routes/docs/guides/pikvm-shutdown/+page.md).
OnContinuingWait(i) ==
  LET rt == states[i]
  IN /\ OnStep(Config[i], rt, "WaitForJson")
     /\ current_action(Config[i], rt).on_timeout = "Continue"

ContinuingWaitsEnd ==
  \A i \in States : OnContinuingWait(i) ~> ~OnContinuingWait(i) \/ Stopped

\* Once a sequence has begun it is completed, unless the task is stopped:
\* failures, lost answers, missed deadlines, stale input, other states' slow
\* requests and readings for the opposite threshold only delay it.
SequencesComplete ==
  \A i \in States :
    states[i].pending_target_state # None
      ~> states[i].pending_target_state = None \/ Stopped

\* A reading that stays beyond a threshold for good, and stays fresh, at last
\* puts the output in that threshold's state for good: no dwell, timer,
\* earlier sequence or failure keeps the engine from acting on it.
Sustained(i, target) ==
  LET rt == states[i]
  IN /\ rt.latest_value # None
     /\ matches(Config[i].to[target].op, rt.latest_value, Config[i].to[target].value)
     /\ ~IsStale(Config[i], rt, 0)

Settled(i, target) ==
  /\ states[i].applied_state = target
  /\ states[i].pending_target_state = None

SustainedReadingIsApplied ==
  \A i \in States : \A target \in BinaryState :
    <>[]Sustained(i, target)
      => <>[](Stopped \/ Settled(i, target))
=============================================================================

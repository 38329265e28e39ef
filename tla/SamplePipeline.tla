--------------------------- MODULE SamplePipeline ---------------------------
(***************************************************************************)
(* The way of a sample through one run of the daemon: the SDK's callback      *)
(* (src/scanner.rs), the processor, the writer, and main, which cancels and   *)
(* joins them (src/main.rs).  The engine is in StateEngine: here the          *)
(* processor only waits for its lock.  There is no restart, and the clock     *)
(* is never set back.                                                         *)
(***************************************************************************)
EXTENDS ParquetWriter

CONSTANTS SampleCapacity   \* SAMPLE_QUEUE_CAPACITY

ASSUME PipelineAssumption == SampleCapacity \in Nat \ {0}

VARIABLES
  sample_rx, observations_dropped,
  observed_in,      \* the window in which each sample was observed
  scanner_pc, processor_pc, processor_loop,
  processor_sample, \* what the processor has taken and not yet handed over
  main_pc           \* the handle in Joins that main awaits; 0 before the signal

queues == <<sample_rx, observations_dropped, observed_in>>
processor == <<processor_pc, processor_loop, processor_sample>>
tasks == <<scanner_pc, main_pc>>
pipelineVars == <<vars, queues, processor, tasks>>
writerVars == <<writer_rx, writer_dropped, writer, files, gauges>>

\* Mutant of Joins: main does not wait for the writer.
Joins_without_writer == <<"processor", "tick", "http", "scanner">>

\* The order in which main joins.
Joins == <<"processor", "writer", "tick", "http", "scanner">>
Exited == Len(Joins) + 1

PipelineTypeOK ==
  /\ TypeOK
  /\ sample_rx \in Seq(Nat) /\ observations_dropped \in Nat
  /\ observed_in \in Seq(Windows) /\ Len(observed_in) = observed
  /\ scanner_pc \in {"starting", "scanning", "ended"}
  /\ processor_pc \in {"waiting", "locking", "returning", "ended"}
  /\ processor_loop \in {"select", "drain"}
  /\ processor_sample \in Nat \cup {None}
  /\ main_pc \in 0 .. Exited

PipelineInit ==
  /\ Init
  /\ sample_rx = << >> /\ observations_dropped = 0 /\ observed_in = << >>
  /\ scanner_pc = "starting"
  /\ processor_pc = "waiting" /\ processor_loop = "select" /\ processor_sample = None
  /\ main_pc = 0

-----------------------------------------------------------------------------
\* run_scanner_blocking, on a thread of its own.  A scanner that cannot be
\* created or started ends the thread; the daemon goes on.
StartScanner ==
  /\ scanner_pc = "starting"
  /\ scanner_pc' \in {"scanning", "ended"}
  /\ UNCHANGED <<vars, queues, processor, main_pc>>

\* The thread looks at the token four times a second.  After the stop there
\* are no more callbacks.
StopScanner ==
  /\ scanner_pc = "scanning" /\ cancelled # None
  /\ scanner_pc' = "ended"
  /\ UNCHANGED <<vars, queues, processor, main_pc>>

\* Mutant of on_advertisement: a full queue is not counted.
on_advertisement_silent ==
  LET taken == processor_pc # "ended" /\ Len(sample_rx) < SampleCapacity
  IN /\ scanner_pc = "scanning"
     /\ observed < MaxSamples
     /\ observed' = observed + 1
     /\ observed_in' = Append(observed_in, clock)
     /\ sample_rx' = IF taken THEN Append(sample_rx, observed + 1) ELSE sample_rx
     /\ UNCHANGED <<clock, restarts, since, cancelled, writerVars, observations_dropped,
                    processor, tasks>>

\* on_advertisement: try_send, on the SDK's thread.
on_advertisement ==
  LET taken == processor_pc # "ended" /\ Len(sample_rx) < SampleCapacity
  IN /\ scanner_pc = "scanning"
     /\ observed < MaxSamples
     /\ observed' = observed + 1
     /\ observed_in' = Append(observed_in, clock)
     /\ sample_rx' = IF taken THEN Append(sample_rx, observed + 1) ELSE sample_rx
     /\ observations_dropped' =
          IF taken THEN observations_dropped ELSE observations_dropped + 1
     /\ UNCHANGED <<clock, restarts, since, cancelled, writerVars, processor, tasks>>

-----------------------------------------------------------------------------
\* process_samples.  Both loops take a sample when there is one.
TakeSample ==
  /\ processor_pc = "waiting"
  /\ sample_rx # << >>
  /\ processor_sample' = Head(sample_rx)
  /\ sample_rx' = Tail(sample_rx)
  /\ processor_pc' = "locking"
  /\ UNCHANGED <<vars, observations_dropped, observed_in, processor_loop, tasks>>

\* The engine's lock is had, the sample observed and offered to the writer.
HandOver ==
  /\ processor_pc = "locking"
  /\ TrySend(processor_sample)
  /\ processor_sample' = None
  /\ processor_pc' = "waiting"
  /\ UNCHANGED <<host, cancelled, writer, files, gauges, queues, processor_loop, tasks>>

LeaveLoop ==
  /\ processor_pc = "waiting" /\ processor_loop = "select"
  /\ sample_rx = << >> /\ cancelled # None
  /\ processor_loop' = "drain"
  /\ UNCHANGED <<vars, queues, processor_pc, processor_sample, tasks>>

\* The drain finds the queue empty; the receiver is dropped a moment later.
Drained ==
  /\ processor_pc = "waiting" /\ processor_loop = "drain"
  /\ sample_rx = << >>
  /\ processor_pc' = "returning"
  /\ UNCHANGED <<vars, queues, processor_loop, processor_sample, tasks>>

EndProcessor ==
  /\ processor_pc = "returning"
  /\ processor_pc' = "ended"
  /\ sample_rx' = << >>
  /\ UNCHANGED <<vars, observations_dropped, observed_in, processor_loop,
                 processor_sample, tasks>>

-----------------------------------------------------------------------------
\* wait_for_shutdown returns; one token tells every task at once.
CancelAll ==
  /\ main_pc = 0
  /\ Cancel
  /\ main_pc' = 1
  /\ UNCHANGED <<queues, processor, scanner_pc>>

\* Mutant of Ended: only a writer that ends without an error is waited for.
Ended_well(task) ==
  CASE task = "processor" -> processor_pc = "ended"
    [] task = "writer" -> writer_pc = "stopped"
    [] task = "scanner" -> scanner_pc = "ended"
    [] OTHER -> cancelled # None

\* The tick task and the HTTP server are not modelled here: both end when told
\* (for the tick task, see EngineLiveness).
Ended(task) ==
  CASE task = "processor" -> processor_pc = "ended"
    [] task = "writer" -> WriterGone
    [] task = "scanner" -> scanner_pc = "ended"
    [] OTHER -> cancelled # None

Join ==
  /\ main_pc \in DOMAIN Joins
  /\ Ended(Joins[main_pc])
  /\ main_pc' = main_pc + 1
  /\ UNCHANGED <<vars, queues, processor, scanner_pc>>

\* Time goes forwards.
NextWindow ==
  /\ SetClock
  /\ clock' > clock
  /\ UNCHANGED <<queues, processor, tasks>>

StepOfWriter ==
  /\ WriterStep
  /\ UNCHANGED <<queues, processor, tasks>>

StepOfProcessor == TakeSample \/ HandOver \/ LeaveLoop \/ Drained \/ EndProcessor

PipelineNext ==
  \/ StartScanner \/ on_advertisement \/ StopScanner
  \/ StepOfProcessor
  \/ StepOfWriter
  \/ CancelAll \/ Join
  \/ NextWindow

PipelineSpec == PipelineInit /\ [][PipelineNext]_pipelineVars

\* Every task is run when it can go on, and the SDK's stop returns.  Neither the
\* flush interval, ready every ten seconds, nor the samples, which end with
\* the scanner, keep the writer from looking at its other branches for ever.
Fairness ==
  /\ WF_pipelineVars(StartScanner)
  /\ WF_pipelineVars(StopScanner)
  /\ WF_pipelineVars(StepOfProcessor)
  /\ WF_pipelineVars(StepOfWriter)
  /\ SF_pipelineVars(StepOfWriter /\ Leave)
  /\ SF_pipelineVars(StepOfWriter /\ FlushTick)
  /\ WF_pipelineVars(Join)

LivePipelineSpec == PipelineSpec /\ Fairness

-----------------------------------------------------------------------------
InFlight == InHand \cup {sample_rx[k] : k \in DOMAIN sample_rx}
              \cup (IF processor_sample = None THEN {} ELSE {processor_sample})

Stored == RowsOf(complete) \cup RowsOf(inprogress)

\* End to end, while the processor and the writer run: every observation is in
\* one of the queues, in a task's hands or in a file, or one of the counters
\* has counted it, and it has been counted once.
EveryObservationIsAccounted ==
  processor_pc # "ended" /\ ~WriterGone =>
    LET missing == Missing(1 .. observed, Stored \cup InFlight)
        dropped == observations_dropped + writer_dropped
    IN dropped <= missing /\ missing <= dropped + BatchRows * write_errors

\* When the daemon exits no sample is left on its way, and a writer that did
\* not fail has left no file unfinished.  Of what had been observed when the
\* token was cancelled, and had to pass two queues and two tasks that leave in
\* no order, there is missing from the files only what was counted and what
\* went with the writer.
ExitIsComplete ==
  main_pc = Exited =>
    /\ InFlight = {}
    /\ writer_pc = "stopped" => RowsOf(inprogress) = {}
    /\ Missing(1 .. cancelled, Stored)
         <= observations_dropped + writer_dropped + BatchRows * write_errors + Uncounted

\* A row is in the file of the window of its observation or of a later one,
\* never of an earlier: however long it has waited in the queues, and whether
\* the hour ends before it is taken, while a roll is under way or while it is
\* in the buffer.  (Later it may be: see the README.)
RowsAreNeverEarly ==
  \A directory \in {complete, inprogress} :
    \A name \in DOMAIN directory :
      \A k \in DOMAIN directory[name].rows :
        observed_in[directory[name].rows[k]] <= name.window

\* What the writer has buffered reaches a file although no further sample
\* comes and although the next file cannot be created: the flush interval, a
\* roll and the shutdown all write it.
BufferedRowsAreWritten ==
  \A n \in 1 .. MaxSamples :
    (\E k \in DOMAIN buffer : buffer[k] = n) ~> n \in Stored

\* The daemon ends after the signal, whether or not the writer has failed, the
\* scanner could be started or the queues are full.
DaemonStops == cancelled # None ~> main_pc = Exited

\* What src/shutdown.rs says of the shutdown ("scanner stop, queue drain, and
\* Parquet writer finalization"), where queues have room and nothing fails:
\* what had been observed by then is in the history when the daemon exits.
QueuesAreDrained ==
  main_pc = Exited => 1 .. cancelled \subseteq RowsOf(complete)
=============================================================================

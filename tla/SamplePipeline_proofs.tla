----------------------- MODULE SamplePipeline_proofs -----------------------
(***************************************************************************)
(* The writer behind the processor and the queues: what ParquetWriter_proofs *)
(* shows of it holds there too, every observation is accounted for, and      *)
(* every row is in a file that is not of an earlier window than its          *)
(* observation, for all capacities, windows, faults and numbers of samples.  *)
(***************************************************************************)
EXTENDS SamplePipeline, ParquetWriter_proofs

\* The processor's sample and its queue follow those of the writer, which
\* end at d, and the queue follows e.
Placed(d, e) ==
  /\ Ready(d) /\ d <= e
  /\ processor_sample # None => d < processor_sample /\ processor_sample <= e
  /\ Ordered(sample_rx, e, observed)

PipelineInOrder ==
  /\ processor_pc = "locking" => processor_sample # None
  /\ \E d, e \in Nat : Placed(d, e)

\* A sample may be a row of a file of this window.
InTime(n, window) == n \in DOMAIN observed_in /\ observed_in[n] <= window

Timely(rows, window) == \A k \in DOMAIN rows : InTime(rows[k], window)

TimelyFiles(directory) ==
  \A name \in DOMAIN directory : Timely(directory[name].rows, name.window)

\* What is to become a row of the active file is not later than its window,
\* because the sample in hand has been compared with the clock since it was
\* taken, and nothing else is later than the clock.
AllTimely ==
  /\ \A n \in DOMAIN observed_in : observed_in[n] <= clock
  /\ active # None => Timely(buffer, active.window)
  /\ writer_pc = "storing" /\ sample # None /\ active # None => InTime(sample, active.window)
  /\ TimelyFiles(complete) /\ TimelyFiles(inprogress)

\* The inductive invariant.
PipelineInv == PipelineTypeOK /\ PipelineInOrder /\ AllTimely

-----------------------------------------------------------------------------
\* Types and order.

LEMMA PipelineInitInOrder == PipelineInit => PipelineTypeOK /\ PipelineInOrder
<1> SUFFICES ASSUME PipelineInit PROVE PipelineTypeOK /\ PipelineInOrder
  OBVIOUS
<1>1. Ready(0) /\ TypeOK
  BY InitReady DEF PipelineInit, Ready
<1>2. << >> \in Seq(Nat) /\ << >> \in Seq(Windows) /\ Len(<< >>) = 0
  OBVIOUS
<1>3. observed = 0
  BY DEF PipelineInit, Init
<1>4. PipelineTypeOK
  BY <1>1, <1>2, <1>3 DEF PipelineInit, PipelineTypeOK, Exited, Joins
<1>5. Placed(0, 0)
  BY <1>1, <1>3, OrderedEmpty DEF PipelineInit, Placed
<1> QED
  BY <1>4, <1>5 DEF PipelineInOrder, PipelineInit

\* The observations queue up in their order.
LEMMA AdvertisementInOrder ==
  ASSUME PipelineTypeOK, PipelineInOrder, on_advertisement
  PROVE  PipelineTypeOK' /\ PipelineInOrder'
<1>1. PICK d \in Nat, e \in Nat : Placed(d, e)
  BY DEF PipelineInOrder
<1>2. /\ observed \in Nat /\ observed' = observed + 1
      /\ sample_rx \in Seq(Nat) /\ Ordered(sample_rx, e, observed)
      /\ sample_rx' \in {sample_rx, Append(sample_rx, observed + 1)}
      /\ observations_dropped' \in Nat
      /\ UNCHANGED <<clock, restarts, since, cancelled, writerVars, processor, tasks>>
  <2>1. observed \in Nat /\ sample_rx \in Seq(Nat) /\ observations_dropped \in Nat
    BY DEF PipelineTypeOK, TypeOK
  <2>2. /\ observed' = observed + 1
        /\ UNCHANGED <<clock, restarts, since, cancelled, writerVars, processor, tasks>>
        /\ \/ /\ sample_rx' = Append(sample_rx, observed + 1)
              /\ observations_dropped' = observations_dropped
           \/ /\ sample_rx' = sample_rx
              /\ observations_dropped' = observations_dropped + 1
    BY DEF on_advertisement
  <2>3. Ordered(sample_rx, e, observed)
    BY <1>1 DEF Placed
  <2> QED
    BY <2>1, <2>2, <2>3
<1>3. sample_rx' \in Seq(Nat) /\ Ordered(sample_rx', e, observed')
  <2>1. Ordered(sample_rx, e, observed + 1)
    BY <1>2 DEF Ordered
  <2>2. /\ Append(sample_rx, observed + 1) \in Seq(Nat)
        /\ Ordered(Append(sample_rx, observed + 1), e, observed + 1)
    BY <1>2, OrderedAppend
  <2> QED
    BY <1>2, <2>1, <2>2
<1>4. TypeOK' /\ Ready(d)'
  <2>1. TypeOK'
    <3>1. TypeOK
      BY DEF PipelineTypeOK
    <3>2. /\ UNCHANGED <<clock, restarts, since, cancelled, writer_rx, writer_dropped>>
          /\ UNCHANGED <<writer_pc, writer_loop, sample, active, buffer>>
          /\ UNCHANGED <<complete, inprogress, newest>>
          /\ UNCHANGED <<rows_written, write_errors, active_file_open, active_file_rows>>
      BY <1>2 DEF writerVars, writer, files, gauges
    <3>3. observed' \in Nat
      BY <1>2
    <3> QED
      BY <3>1, <3>2, <3>3 DEF TypeOK
  <2>2. ActiveOK'
    BY <1>1, <1>2 DEF Placed, Ready, ActiveOK, writerVars, writer, files
  <2>3. InOrder(d)'
    <3>1. UNCHANGED <<active, inprogress, newest, buffer, sample, writer_rx>>
      BY <1>2 DEF writerVars, writer, files
    <3>2. InOrder(d)
      BY <1>1 DEF Placed, Ready
    <3> QED
      BY <3>1, <3>2 DEF InOrder, Cuts, ActiveRows
  <2> QED
    BY <2>1, <2>2, <2>3 DEF Ready
<1>5. observed_in' \in Seq(Windows) /\ Len(observed_in') = observed'
  <2>1. observed_in \in Seq(Windows) /\ Len(observed_in) = observed /\ clock \in Windows
    BY DEF PipelineTypeOK, TypeOK
  <2>2. observed_in' = Append(observed_in, clock)
    BY DEF on_advertisement
  <2> QED
    BY <1>2, <2>1, <2>2
<1>6. PipelineTypeOK'
  BY <1>2, <1>3, <1>4, <1>5 DEF PipelineTypeOK, processor, tasks
<1>7. Placed(d, e)'
  BY <1>1, <1>2, <1>3, <1>4 DEF Placed, processor
<1> QED
  BY <1>2, <1>6, <1>7 DEF PipelineInOrder, processor

\* The processor takes the head of its queue.
LEMMA TakeSampleInOrder ==
  ASSUME PipelineTypeOK, PipelineInOrder, TakeSample
  PROVE  PipelineTypeOK' /\ PipelineInOrder'
<1>1. PICK d \in Nat, e \in Nat : Placed(d, e)
  BY DEF PipelineInOrder
<1>2. /\ sample_rx \in Seq(Nat) /\ sample_rx # << >> /\ Ordered(sample_rx, e, observed)
      /\ observed \in Nat /\ d <= e /\ Ready(d)
      /\ UNCHANGED <<vars, observations_dropped, observed_in, processor_loop, tasks>>
      /\ processor_sample' = Head(sample_rx) /\ sample_rx' = Tail(sample_rx)
      /\ processor_pc' = "locking"
  BY <1>1 DEF TakeSample, Placed, PipelineTypeOK, TypeOK
<1>3. /\ Head(sample_rx) \in Nat /\ e < Head(sample_rx)
      /\ Tail(sample_rx) \in Seq(Nat) /\ Ordered(Tail(sample_rx), Head(sample_rx), observed)
  BY <1>2, OrderedTail
<1>4. PICK head \in Nat : head = Head(sample_rx)
  BY <1>3
<1>5. Ready(d)'
  BY <1>2, OtherReady
<1>6. observed' = observed
  BY <1>2 DEF vars, host
<1>7. Placed(d, head)'
  BY <1>2, <1>3, <1>4, <1>5, <1>6 DEF Placed
<1>8. PipelineTypeOK'
  BY <1>2, <1>3, <1>5, <1>6 DEF Ready, PipelineTypeOK, tasks
<1>9. processor_sample' # None
  BY <1>2, <1>3, WriterAssumption
<1> QED
  BY <1>7, <1>8, <1>9 DEF PipelineInOrder

\* What it hands over comes after all that it has handed over before.
LEMMA HandOverInOrder ==
  ASSUME PipelineTypeOK, PipelineInOrder, HandOver
  PROVE  PipelineTypeOK' /\ PipelineInOrder'
<1>1. PICK d \in Nat, e \in Nat : Placed(d, e)
  BY DEF PipelineInOrder
<1>2. /\ processor_sample # None /\ processor_sample \in Nat
      /\ d < processor_sample /\ processor_sample <= e
      /\ Ready(d) /\ Ordered(sample_rx, e, observed)
      /\ observed \in Nat
  BY <1>1 DEF HandOver, PipelineInOrder, Placed, PipelineTypeOK, TypeOK
<1>3. /\ TrySend(processor_sample)
      /\ processor_sample' = None /\ processor_pc' = "waiting"
      /\ UNCHANGED <<host, cancelled, writer, files, gauges, queues, processor_loop, tasks>>
  BY DEF HandOver
<1>4. PICK n \in Nat : n = processor_sample
  BY <1>2
<1>5. Ready(n)'
  <2>1. UNCHANGED <<clock, restarts, since, cancelled, writer, files, gauges>> /\ observed' \in Nat
    BY <1>2, <1>3 DEF host
  <2> QED
    BY <1>2, <1>3, <1>4, <2>1, OfferReady
<1>6. UNCHANGED <<observed, sample_rx, observations_dropped, observed_in>>
  BY <1>3 DEF host, queues
<1>7. Placed(n, e)'
  BY <1>2, <1>3, <1>4, <1>5, <1>6 DEF Placed
<1>8. PipelineTypeOK'
  BY <1>3, <1>5, <1>6 DEF Ready, PipelineTypeOK, tasks
<1> QED
  BY <1>3, <1>7, <1>8 DEF PipelineInOrder

\* A step of the writer moves its own samples only.
LEMMA WriterInOrder ==
  ASSUME PipelineTypeOK, PipelineInOrder, StepOfWriter
  PROVE  PipelineTypeOK' /\ PipelineInOrder'
<1>1. PICK d \in Nat, e \in Nat : Placed(d, e)
  BY DEF PipelineInOrder
<1>2. WriterStep /\ UNCHANGED <<queues, processor, tasks>>
  BY DEF StepOfWriter
<1>3. Ready(d)'
  BY <1>1, <1>2, WriterReady DEF Placed
<1>4. UNCHANGED <<observed, clock>>
  BY <1>2 DEF WriterStep, Receive, FlushTick, maybe_roll, CloseFile, RenameFile,
              open_active, Store, Leave, Finish, Return, host
<1>5. Placed(d, e)'
  BY <1>1, <1>2, <1>3, <1>4 DEF Placed, queues, processor
<1>6. PipelineTypeOK'
  BY <1>2, <1>3, <1>4 DEF Ready, PipelineTypeOK, queues, processor, tasks
<1> QED
  BY <1>2, <1>5, <1>6 DEF PipelineInOrder, processor

\* The other steps move no sample, but for those the processor leaves behind.
LEMMA OtherInOrder ==
  ASSUME PipelineTypeOK, PipelineInOrder,
         \/ StartScanner \/ StopScanner \/ LeaveLoop \/ Drained \/ EndProcessor
         \/ CancelAll \/ Join \/ NextWindow \/ UNCHANGED pipelineVars
  PROVE  PipelineTypeOK' /\ PipelineInOrder'
<1>1. PICK d \in Nat, e \in Nat : Placed(d, e)
  BY DEF PipelineInOrder
<1>2. SetClock \/ Cancel \/ UNCHANGED vars
  BY DEF StartScanner, StopScanner, LeaveLoop, Drained, EndProcessor, CancelAll, Join,
         NextWindow, pipelineVars
<1>3. Ready(d)' /\ observed' = observed
  BY <1>1, <1>2, OtherReady DEF Placed, SetClock, Cancel, vars, host
<1>4. /\ sample_rx' \in {sample_rx, << >>}
      /\ processor_pc' \in {processor_pc, "returning", "ended"}
      /\ processor_loop' \in {processor_loop, "drain"}
      /\ UNCHANGED <<processor_sample, observed_in, observations_dropped>>
  BY DEF StartScanner, StopScanner, LeaveLoop, Drained, EndProcessor, CancelAll, Join,
         NextWindow, pipelineVars, queues, processor
<1>5. scanner_pc' \in {"starting", "scanning", "ended"}
  BY DEF PipelineTypeOK, StartScanner, StopScanner, LeaveLoop, Drained, EndProcessor,
         CancelAll, Join, NextWindow, pipelineVars, tasks
<1>6. main_pc' \in 0 .. Exited
  <2>1. main_pc' \in {main_pc, 1} \/ (main_pc \in DOMAIN Joins /\ main_pc' = main_pc + 1)
    BY DEF StartScanner, StopScanner, LeaveLoop, Drained, EndProcessor, CancelAll, Join,
           NextWindow, pipelineVars, tasks
  <2>2. DOMAIN Joins = 1 .. 5 /\ Exited = 6
    BY DEF Joins, Exited
  <2> QED
    BY <2>1, <2>2 DEF PipelineTypeOK
<1>7. sample_rx' \in Seq(Nat) /\ Ordered(sample_rx', e, observed)
  <2>1. Ordered(sample_rx, e, observed) /\ observed \in Nat /\ sample_rx \in Seq(Nat)
    BY <1>1 DEF Placed, PipelineTypeOK, TypeOK
  <2>2. << >> \in Seq(Nat) /\ Ordered(<< >>, e, observed)
    BY <2>1, OrderedEmpty DEF Ordered
  <2> QED
    BY <1>4, <2>1, <2>2
<1>8. PipelineTypeOK'
  BY <1>3, <1>4, <1>5, <1>6, <1>7 DEF Ready, PipelineTypeOK
<1>9. Placed(d, e)'
  BY <1>1, <1>3, <1>4, <1>7 DEF Placed
<1> QED
  BY <1>4, <1>8, <1>9 DEF PipelineInOrder

LEMMA PipelineNextInOrder ==
  ASSUME PipelineTypeOK, PipelineInOrder, [PipelineNext]_pipelineVars
  PROVE  PipelineTypeOK' /\ PipelineInOrder'
BY AdvertisementInOrder, TakeSampleInOrder, HandOverInOrder, WriterInOrder, OtherInOrder
   DEF PipelineNext, StepOfProcessor

-----------------------------------------------------------------------------
\* Time.

\* All that a writer has in hand was observed.
LEMMA InHandObserved ==
  ASSUME PipelineTypeOK, PipelineInOrder
  PROVE  /\ DOMAIN observed_in = 1 .. observed /\ observed \in Nat
         /\ buffer \in Seq(Nat)
         /\ \A k \in DOMAIN buffer : buffer[k] \in DOMAIN observed_in
         /\ sample # None => sample \in DOMAIN observed_in
<1>1. PICK d \in Nat, e \in Nat : Placed(d, e)
  BY DEF PipelineInOrder
<1>2. PICK a \in Nat, b \in Nat, c \in Nat : Cuts(a, b, c, d)
  BY <1>1 DEF Placed, Ready, InOrder
<1>3. /\ observed \in Nat /\ newest \in Nat /\ buffer \in Seq(Nat)
      /\ observed_in \in Seq(Windows) /\ Len(observed_in) = observed
      /\ sample \in Nat \cup {None}
  BY DEF PipelineTypeOK, TypeOK, Rows
<1>4. DOMAIN observed_in = 1 .. observed
  BY <1>3
<1>5. newest <= a /\ a <= b /\ b <= c /\ c <= d /\ d <= e /\ e <= observed
  BY <1>1, <1>2 DEF Placed, Cuts, Ordered
<1>6. \A k \in DOMAIN buffer : buffer[k] \in Nat /\ a < buffer[k] /\ buffer[k] <= b
  BY <1>2, <1>3 DEF Cuts, Ordered
<1>7. sample # None => sample \in Nat /\ b < sample /\ sample <= c
  BY <1>2, <1>3 DEF Cuts
<1>8. ASSUME NEW n \in Nat, newest < n, n <= observed
      PROVE  n \in DOMAIN observed_in
  BY <1>3, <1>4, <1>8
<1>9. \A k \in DOMAIN buffer : newest < buffer[k] /\ buffer[k] <= observed
  BY <1>3, <1>5, <1>6
<1>10. sample # None => newest < sample /\ sample <= observed
  BY <1>3, <1>5, <1>7
<1> QED
  BY <1>3, <1>4, <1>6, <1>7, <1>8, <1>9, <1>10

\* A step that moves no row, and at which time at most goes on.
LEMMA TimePasses ==
  ASSUME PipelineTypeOK, AllTimely, UNCHANGED <<buffer, active, files>>,
         sample' \in {sample, None} \/ writer_pc' # "storing",
         writer_pc' \in {writer_pc, "waiting", "rolling", "stopped"},
         DOMAIN observed_in \subseteq DOMAIN observed_in',
         \A n \in DOMAIN observed_in : observed_in'[n] = observed_in[n],
         \A n \in DOMAIN observed_in' : observed_in'[n] <= clock'
  PROVE  AllTimely'
<1>1. ASSUME NEW n, NEW window, InTime(n, window)
      PROVE  InTime(n, window)'
  BY <1>1 DEF InTime
<1>2. ASSUME NEW rows, NEW window, Timely(rows, window)
      PROVE  Timely(rows, window)'
  BY <1>1, <1>2 DEF Timely
<1>3. TimelyFiles(complete)' /\ TimelyFiles(inprogress)'
  BY <1>2 DEF AllTimely, TimelyFiles, files
<1>4. active' # None => Timely(buffer, active.window)'
  BY <1>2 DEF AllTimely
<1>5. writer_pc' = "storing" /\ sample' # None /\ active' # None =>
        InTime(sample, active.window)'
  BY <1>1 DEF AllTimely
<1> QED
  BY <1>3, <1>4, <1>5 DEF AllTimely

\* The types and the active file, from the order.
LEMMA WriterFacts ==
  ASSUME PipelineTypeOK, PipelineInOrder
  PROVE  TypeOK /\ ActiveOK
BY DEF PipelineInOrder, Placed, Ready

\* The batch is written to the active file, kept or dropped.
LEMMA FlushTimely ==
  ASSUME PipelineTypeOK, PipelineInOrder, AllTimely, NEW rows \in Seq(Nat),
         flush_buffer(rows), active # None => Timely(rows, active.window),
         UNCHANGED <<active, observed_in>>
  PROVE  /\ active # None => Timely(buffer, active.window)'
         /\ TimelyFiles(inprogress)'
<1>1. TypeOK /\ ActiveOK /\ TimelyFiles(inprogress)
  BY WriterFacts DEF AllTimely
<1>2. /\ DOMAIN inprogress' = DOMAIN inprogress
      /\ \A n \in DOMAIN inprogress \ {active} : inprogress'[n] = inprogress[n]
      /\ \/ buffer' \in {rows, << >>} /\ inprogress' = inprogress
         \/ /\ buffer' = << >> /\ active # None
            /\ inprogress'[active].rows = inprogress[active].rows \o rows
  BY <1>1, Flush
<1>3. active # None => Timely(buffer, active.window)'
  BY <1>2 DEF Timely, InTime
<1>4. CASE inprogress' = inprogress
  BY <1>1, <1>3, <1>4 DEF TimelyFiles, Timely, InTime
<1>5. CASE /\ active # None
           /\ inprogress'[active].rows = inprogress[active].rows \o rows
  <2>1. inprogress[active].rows \in Seq(Nat) /\ active \in DOMAIN inprogress
    BY <1>1, <1>5, ActiveFile
  <2>2. /\ Timely(inprogress[active].rows, active.window)
        /\ Timely(rows, active.window)
    BY <1>1, <1>5, <2>1 DEF TimelyFiles
  <2>3. ASSUME NEW s \in Seq(Nat), NEW t \in Seq(Nat), NEW window,
               Timely(s, window), Timely(t, window)
        PROVE  Timely(s \o t, window)
    <3>1. ASSUME NEW k \in DOMAIN (s \o t)
          PROVE  InTime((s \o t)[k], window)
      <4>1. /\ k \in 1 .. Len(s) + Len(t) /\ Len(s) \in Nat /\ Len(t) \in Nat
            /\ (s \o t)[k] = IF k <= Len(s) THEN s[k] ELSE t[k - Len(s)]
        OBVIOUS
      <4>2. CASE k <= Len(s)
        <5>1. k \in DOMAIN s
          BY <4>1, <4>2
        <5> QED
          BY <2>3, <4>1, <4>2, <5>1 DEF Timely
      <4>3. CASE ~(k <= Len(s))
        <5>1. k - Len(s) \in DOMAIN t
          BY <4>1, <4>3
        <5> QED
          BY <2>3, <4>1, <4>3, <5>1 DEF Timely
      <4> QED
        BY <4>2, <4>3
    <3> QED
      BY <3>1 DEF Timely
  <2>4. Timely(inprogress'[active].rows, active.window)
    BY <1>5, <2>1, <2>2, <2>3
  <2>5. \A n \in DOMAIN inprogress' : Timely(inprogress'[n].rows, n.window)
    BY <1>1, <1>2, <2>4 DEF TimelyFiles
  <2> QED
    BY <1>3, <2>5 DEF TimelyFiles, Timely, InTime
<1> QED
  BY <1>2, <1>4, <1>5

\* A sample appended to rows in time.
LEMMA AppendTimely ==
  ASSUME NEW rows \in Seq(Nat), NEW n \in Nat, NEW window,
         Timely(rows, window), InTime(n, window)
  PROVE  Timely(Append(rows, n), window)
<1>1. ASSUME NEW k \in DOMAIN Append(rows, n)
      PROVE  Append(rows, n)[k] = n \/ (k \in DOMAIN rows /\ Append(rows, n)[k] = rows[k])
  OBVIOUS
<1> QED
  BY <1>1 DEF Timely

\* What has been observed by now may go into a file of the present window.
LEMMA PresentInTime ==
  ASSUME PipelineTypeOK, PipelineInOrder, AllTimely
  PROVE  Timely(buffer, clock) /\ (sample # None => InTime(sample, clock))
BY InHandObserved DEF AllTimely, Timely, InTime

\* The roll makes sure that the file is of the present window.
LEMMA RollTimely ==
  ASSUME PipelineTypeOK, PipelineInOrder, AllTimely, maybe_roll, UNCHANGED observed_in
  PROVE  AllTimely'
<1>1. /\ UNCHANGED <<clock, sample, active, complete>>
      /\ TypeOK /\ ActiveOK /\ buffer \in Seq(Nat)
      /\ active # None => Timely(buffer, active.window)
      /\ TimelyFiles(complete) /\ TimelyFiles(inprogress)
      /\ \A n \in DOMAIN observed_in : observed_in[n] <= clock
  BY WriterFacts, InHandObserved DEF AllTimely, maybe_roll, host
<1>2. TimelyFiles(complete)' /\ \A n \in DOMAIN observed_in' : observed_in'[n] <= clock'
  BY <1>1 DEF TimelyFiles, Timely, InTime
<1>3. CASE flush_buffer(buffer) /\ writer_pc' = "closing"
  BY <1>1, <1>2, <1>3, FlushTimely DEF AllTimely
<1>4. CASE /\ UNCHANGED <<buffer, inprogress>>
           /\ active # None => active.window = clock
  <2>1. (active # None => Timely(buffer, active.window))' /\ TimelyFiles(inprogress)'
    BY <1>1, <1>4 DEF TimelyFiles, Timely, InTime
  <2>2. sample' # None /\ active' # None => InTime(sample, active.window)'
    BY <1>1, <1>4, PresentInTime DEF InTime
  <2> QED
    BY <1>2, <2>1, <2>2 DEF AllTimely
<1> QED
  BY <1>3, <1>4 DEF maybe_roll

\* A writer that fails has nothing in hand.
LEMMA FailTimely ==
  ASSUME AllTimely, Fail, UNCHANGED <<clock, complete, observed_in>>,
         TimelyFiles(inprogress)'
  PROVE  AllTimely'
BY DEF AllTimely, Fail, TimelyFiles, Timely, InTime

LEMMA CloseTimely ==
  ASSUME PipelineTypeOK, PipelineInOrder, AllTimely, CloseFile, UNCHANGED observed_in
  PROVE  AllTimely'
<1>1. /\ UNCHANGED <<clock, complete>> /\ active # None
      /\ TypeOK /\ ActiveOK /\ TimelyFiles(inprogress)
  BY WriterFacts DEF AllTimely, CloseFile, host, ActiveOK
<1>2. CASE Fail /\ inprogress' = inprogress
  <2>1. TimelyFiles(inprogress)'
    BY <1>1, <1>2 DEF TimelyFiles, Timely, InTime
  <2> QED
    BY <1>1, <1>2, <2>1, FailTimely
<1>3. CASE /\ inprogress' = [inprogress EXCEPT ![active].footer = TRUE]
           /\ writer_pc' = "renaming" /\ UNCHANGED <<buffer, active>>
  <2>1. \A f \in File : [f EXCEPT !.footer = TRUE].rows = f.rows
    BY DEF File
  <2>2. /\ inprogress[active] \in File /\ active \in DOMAIN inprogress
        /\ inprogress \in [DOMAIN inprogress -> File]
    BY <1>1, ActiveFile DEF TypeOK
  <2>3. /\ DOMAIN inprogress' = DOMAIN inprogress
        /\ \A n \in DOMAIN inprogress : inprogress'[n].rows = inprogress[n].rows
    BY <1>3, <2>1, <2>2
  <2>4. TimelyFiles(inprogress)'
    BY <1>1, <2>3 DEF TimelyFiles, Timely, InTime
  <2> QED
    BY <1>1, <1>3, <2>4 DEF AllTimely, TimelyFiles, Timely, InTime
<1> QED
  BY <1>2, <1>3 DEF CloseFile

LEMMA RenameTimely ==
  ASSUME PipelineTypeOK, PipelineInOrder, AllTimely, RenameFile, UNCHANGED observed_in
  PROVE  AllTimely'
<1>1. /\ clock' = clock /\ active # None
      /\ TypeOK /\ ActiveOK /\ TimelyFiles(inprogress) /\ TimelyFiles(complete)
  BY WriterFacts DEF AllTimely, RenameFile, host, ActiveOK
<1>2. CASE Fail /\ UNCHANGED files
  <2>1. TimelyFiles(inprogress)' /\ complete' = complete
    BY <1>1, <1>2 DEF files, TimelyFiles, Timely, InTime
  <2> QED
    BY <1>1, <1>2, <2>1, FailTimely
<1>3. CASE /\ complete' = With(complete, active, inprogress[active])
           /\ inprogress' = Without(inprogress, active)
           /\ active' = None
           /\ writer_pc' # "storing"
  <2>1. active \in DOMAIN inprogress /\ Timely(inprogress[active].rows, active.window)
    BY <1>1, ActiveFile DEF TimelyFiles
  <2>2. \A n \in DOMAIN complete' : Timely(complete'[n].rows, n.window)
    BY <1>1, <1>3, <2>1 DEF With, TimelyFiles
  <2>3. \A n \in DOMAIN inprogress' : Timely(inprogress'[n].rows, n.window)
    BY <1>1, <1>3 DEF Without, TimelyFiles
  <2>4. TimelyFiles(complete)' /\ TimelyFiles(inprogress)'
    BY <2>2, <2>3 DEF TimelyFiles, Timely, InTime
  <2> QED
    BY <1>1, <1>3, <2>4 DEF AllTimely
<1> QED
  BY <1>2, <1>3 DEF RenameFile

\* The new file is of the present window, which is read again.
LEMMA OpenTimely ==
  ASSUME PipelineTypeOK, PipelineInOrder, AllTimely, open_active, UNCHANGED observed_in
  PROVE  AllTimely'
<1> DEFINE empty == [rows |-> << >>, footer |-> FALSE]
<1>1. /\ UNCHANGED <<clock, complete>>
      /\ TypeOK /\ TimelyFiles(inprogress) /\ TimelyFiles(complete)
  BY WriterFacts DEF AllTimely, open_active, host
<1>2. ASSUME NEW name, inprogress' = With(inprogress, name, empty)
      PROVE  TimelyFiles(inprogress)'
  <2>1. \A n \in DOMAIN inprogress' :
          inprogress'[n] = empty \/ (n \in DOMAIN inprogress /\ inprogress'[n] = inprogress[n])
    BY <1>2 DEF With
  <2>2. DOMAIN empty.rows = {}
    OBVIOUS
  <2> HIDE DEF empty
  <2> QED
    BY <1>1, <2>1, <2>2 DEF TimelyFiles, Timely, InTime
<1>3. CASE Fail
  <2>1. \/ inprogress' = inprogress
        \/ \E name \in Unused(clock) : inprogress' = With(inprogress, name, empty)
    BY <1>3 DEF open_active, Fail, unique_file_paths
  <2>2. inprogress' = inprogress => TimelyFiles(inprogress)'
    BY <1>1 DEF TimelyFiles, Timely, InTime
  <2> QED
    BY <1>1, <1>2, <1>3, <2>1, <2>2, FailTimely
<1>4. CASE ~Fail
  <2>1. PICK name \in Unused(clock) :
          /\ inprogress' = With(inprogress, name, empty)
          /\ active' = name /\ UNCHANGED <<buffer, sample>>
    BY <1>4 DEF open_active, unique_file_paths
  <2>2. active'.window = clock
    BY <2>1 DEF Unused
  <2>3. /\ Timely(buffer, active.window)'
        /\ sample # None => InTime(sample, active.window)'
    BY <2>1, <2>2, PresentInTime DEF Timely, InTime
  <2>4. TimelyFiles(inprogress)' /\ TimelyFiles(complete)'
    BY <1>1, <1>2, <2>1 DEF TimelyFiles, Timely, InTime
  <2> QED
    BY <1>1, <2>1, <2>3, <2>4 DEF AllTimely
<1> QED
  BY <1>3, <1>4

LEMMA StoreTimely ==
  ASSUME PipelineTypeOK, PipelineInOrder, AllTimely, Store, UNCHANGED observed_in
  PROVE  AllTimely'
<1> DEFINE rows == IF sample = None THEN buffer ELSE Append(buffer, sample)
<1>1. /\ UNCHANGED <<clock, active, complete>> /\ writer_pc' = "waiting"
      /\ writer_pc = "storing"
      /\ TimelyFiles(inprogress) /\ TimelyFiles(complete)
  BY DEF AllTimely, Store, host
<1>2. buffer \in Seq(Nat) /\ (sample # None => sample \in Nat)
  BY WriterFacts, InHandObserved DEF TypeOK
<1>3. rows \in Seq(Nat) /\ (active # None => Timely(rows, active.window))
  <2>1. active # None => Timely(buffer, active.window)
    BY DEF AllTimely
  <2>2. active # None /\ sample # None => InTime(sample, active.window)
    BY <1>1 DEF AllTimely
  <2>3. CASE sample = None
    BY <1>2, <2>1, <2>3
  <2>4. CASE sample # None
    BY <1>2, <2>1, <2>2, <2>4, AppendTimely
  <2> QED
    BY <2>3, <2>4
<1>4. \/ flush_buffer(rows)
      \/ buffer' = rows /\ UNCHANGED inprogress
  BY DEF Store
<1> HIDE DEF rows
<1>5. (active # None => Timely(buffer, active.window)') /\ TimelyFiles(inprogress)'
  <2>1. CASE flush_buffer(rows)
    BY <1>1, <1>3, <2>1, FlushTimely
  <2>2. CASE buffer' = rows /\ UNCHANGED inprogress
    BY <1>1, <1>3, <2>2 DEF TimelyFiles, Timely, InTime
  <2> QED
    BY <1>4, <2>1, <2>2
<1>6. TimelyFiles(complete)' /\ \A n \in DOMAIN observed_in' : observed_in'[n] <= clock'
  BY <1>1 DEF AllTimely, TimelyFiles, Timely, InTime
<1> QED
  BY <1>1, <1>5, <1>6 DEF AllTimely

LEMMA FinishTimely ==
  ASSUME PipelineTypeOK, PipelineInOrder, AllTimely, Finish, UNCHANGED observed_in
  PROVE  AllTimely'
<1>1. /\ UNCHANGED <<clock, active, complete>> /\ flush_buffer(buffer)
      /\ writer_pc' # "storing" /\ buffer \in Seq(Nat)
      /\ active # None => Timely(buffer, active.window)
  BY InHandObserved DEF AllTimely, Finish, host
<1>2. (active # None => Timely(buffer, active.window)') /\ TimelyFiles(inprogress)'
  BY <1>1, FlushTimely
<1>3. TimelyFiles(complete)' /\ \A n \in DOMAIN observed_in' : observed_in'[n] <= clock'
  BY <1>1 DEF AllTimely, TimelyFiles, Timely, InTime
<1> QED
  BY <1>1, <1>2, <1>3 DEF AllTimely

\* The other steps move no row.
LEMMA OtherTimely ==
  ASSUME PipelineTypeOK, PipelineInOrder, AllTimely,
         \/ Receive \/ FlushTick \/ Leave \/ Return
         \/ HandOver \/ Cancel \/ UNCHANGED vars
         \/ SetClock /\ clock' > clock,
         UNCHANGED observed_in
  PROVE  AllTimely'
<1>1. UNCHANGED <<buffer, active, files>>
  BY DEF Receive, FlushTick, Leave, Return, HandOver, SetClock, Cancel, vars, writer
<1>2. /\ writer_pc' \in {writer_pc, "waiting", "rolling", "stopped"}
      /\ sample' \in {sample, None} \/ writer_pc' # "storing"
  BY DEF Receive, Take, FlushTick, Leave, Return, HandOver, SetClock, Cancel, vars, writer
<1>3. \A n \in DOMAIN observed_in : observed_in[n] \in Int /\ observed_in[n] <= clock
  <2>1. observed_in \in Seq(Windows) /\ \A w \in Windows : w \in Int
    BY WriterAssumption DEF PipelineTypeOK
  <2>2. \A n \in DOMAIN observed_in : observed_in[n] \in Windows
    BY <2>1
  <2> QED
    BY <2>1, <2>2 DEF AllTimely
<1>4. clock \in Int /\ clock' \in Int /\ clock <= clock'
  <2>1. clock \in Windows /\ \A w \in Windows : w \in Int
    BY WriterFacts, WriterAssumption DEF TypeOK
  <2>2. CASE SetClock /\ clock' > clock
    <3>1. clock' \in Windows
      BY <2>2 DEF SetClock
    <3>2. clock \in Int /\ clock' \in Int
      BY <2>1, <3>1
    <3> QED
      BY <2>2, <3>2
  <2>3. CASE ~(SetClock /\ clock' > clock)
    <3>1. clock' = clock
      BY <2>3 DEF Receive, FlushTick, Leave, Return, HandOver, Cancel, vars, host
    <3>2. clock \in Int
      BY <2>1
    <3> QED
      BY <3>1, <3>2
  <2> QED
    BY <2>2, <2>3
<1>5. \A n \in DOMAIN observed_in' : observed_in'[n] <= clock'
  BY <1>3, <1>4
<1> QED
  BY <1>1, <1>2, <1>5, TimePasses

\* The SDK's thread tells when it observes.
LEMMA AdvertisementTimely ==
  ASSUME PipelineTypeOK, PipelineInOrder, AllTimely, on_advertisement
  PROVE  AllTimely'
<1>1. UNCHANGED <<buffer, active, files, sample, writer_pc, clock>>
  BY DEF on_advertisement, writerVars, writer
<1>2. /\ observed_in \in Seq(Windows) /\ clock \in Windows
      /\ observed_in' = Append(observed_in, clock)
  BY DEF on_advertisement, PipelineTypeOK, TypeOK
<1>3. /\ DOMAIN observed_in \subseteq DOMAIN observed_in'
      /\ \A n \in DOMAIN observed_in : observed_in'[n] = observed_in[n]
      /\ \A n \in DOMAIN observed_in' : n \notin DOMAIN observed_in => observed_in'[n] = clock
  BY <1>2
<1>4. clock \in Int
  BY <1>2, WriterAssumption
<1>5. \A n \in DOMAIN observed_in' : observed_in'[n] <= clock'
  BY <1>1, <1>3, <1>4 DEF AllTimely
<1>6. /\ sample' \in {sample, None} \/ writer_pc' # "storing"
      /\ writer_pc' \in {writer_pc, "waiting", "rolling", "stopped"}
  BY <1>1
<1> QED
  BY <1>1, <1>3, <1>5, <1>6, TimePasses

LEMMA WriterTimely ==
  ASSUME PipelineTypeOK, PipelineInOrder, AllTimely, StepOfWriter
  PROVE  AllTimely'
<1>1. WriterStep /\ UNCHANGED observed_in
  BY DEF StepOfWriter, queues
<1> QED
  BY <1>1, OtherTimely, RollTimely, CloseTimely, RenameTimely, OpenTimely, StoreTimely,
     FinishTimely
     DEF WriterStep

LEMMA PipelineNextTimely ==
  ASSUME PipelineTypeOK, PipelineInOrder, AllTimely, [PipelineNext]_pipelineVars
  PROVE  AllTimely'
<1>1. CASE on_advertisement
  BY <1>1, AdvertisementTimely
<1>2. CASE StepOfWriter
  BY <1>2, WriterTimely
<1>3. CASE ~(on_advertisement \/ StepOfWriter)
  <2>1. \/ HandOver \/ Cancel \/ UNCHANGED vars
        \/ SetClock /\ clock' > clock
    BY <1>3 DEF PipelineNext, StepOfProcessor, StartScanner, StopScanner, TakeSample,
                LeaveLoop, Drained, EndProcessor, CancelAll, Join, NextWindow, pipelineVars
  <2>2. UNCHANGED observed_in
    BY <1>3 DEF PipelineNext, StepOfProcessor, StartScanner, StopScanner, TakeSample,
                HandOver, LeaveLoop, Drained, EndProcessor, CancelAll, Join, NextWindow,
                pipelineVars, queues
  <2> QED
    BY <2>1, <2>2, OtherTimely
<1> QED
  BY <1>1, <1>2, <1>3

LEMMA InitPipelineInv == PipelineInit => PipelineInv
<1> SUFFICES ASSUME PipelineInit PROVE PipelineInv
  OBVIOUS
<1>1. /\ DOMAIN complete = {} /\ DOMAIN inprogress = {} /\ DOMAIN observed_in = {}
      /\ active = None /\ writer_pc = "waiting"
  BY DEF PipelineInit, Init, NoFiles
<1>2. AllTimely
  BY <1>1 DEF AllTimely, TimelyFiles
<1> QED
  BY <1>2, PipelineInitInOrder DEF PipelineInv

LEMMA PipelineInductive == PipelineSpec => []PipelineInv
<1>1. PipelineInv /\ [PipelineNext]_pipelineVars => PipelineInv'
  BY PipelineNextInOrder, PipelineNextTimely DEF PipelineInv
<1> QED
  BY <1>1, InitPipelineInv, PTL DEF PipelineSpec

-----------------------------------------------------------------------------
\* What becomes of the observations.

\* What the processor has, or is to take.
AtHand == IF processor_sample = None THEN {} ELSE {processor_sample}

Waiting == AtHand \cup Range(sample_rx)

AllLost == (1 .. observed) \ (Found \cup Waiting)

\* A sample is with the processor or with the writer, never with both, and
\* lost only if counted.
PipelineCounted ==
  /\ HandsOK
  /\ processor_pc # "locking" => processor_sample = None
  /\ Found \cup Waiting \subseteq 1 .. observed
  /\ Found \cap Waiting = {}
  /\ processor_pc # "ended" /\ ~WriterGone =>
       Accounted(AllLost, observations_dropped + writer_dropped, write_errors)

LEMMA PipelineInitCounted == PipelineInit => PipelineCounted
<1> SUFFICES ASSUME PipelineInit PROVE PipelineCounted
  OBVIOUS
<1>1. Init /\ HandsOK /\ Found \subseteq {} /\ observed = 0
  <2>1. Init
    BY DEF PipelineInit
  <2>2. RowsOf(complete) = {} /\ RowsOf(inprogress) = {}
    BY <2>1 DEF Init, NoFiles, RowsOf
  <2> QED
    BY <2>1, <2>2, InitCounted, NothingFound DEF Init, Counted
<1>2. Waiting = {} /\ processor_sample = None
  BY RangeEmpty DEF PipelineInit, Waiting, AtHand
<1>3. AllLost = {}
  BY <1>1 DEF AllLost
<1>4. observations_dropped + writer_dropped = 0 /\ write_errors = 0
  BY DEF PipelineInit, Init
<1>5. Accounted(AllLost, observations_dropped + writer_dropped, write_errors)
  BY <1>3, <1>4, NothingLost
<1> QED
  BY <1>1, <1>2, <1>5 DEF PipelineCounted

LEMMA CountersTyped ==
  ASSUME PipelineTypeOK
  PROVE  /\ observed \in Nat /\ observations_dropped \in Nat /\ writer_dropped \in Nat
         /\ write_errors \in Nat /\ sample_rx \in Seq(Nat)
BY DEF PipelineTypeOK, TypeOK

\* An observation waits for the processor or is counted.
LEMMA AdvertisementCounted ==
  ASSUME PipelineTypeOK, PipelineCounted, on_advertisement
  PROVE  PipelineCounted'
<1>1. /\ UNCHANGED <<processor_pc, processor_sample, writer_pc, complete, inprogress, sample,
                     active, buffer, writer_rx, writer_dropped, write_errors>>
      /\ observed' = observed + 1
  BY DEF on_advertisement, writerVars, writer, files, gauges, processor
<1>2. HandsOK' /\ Found' = Found /\ WriterGone' = WriterGone /\ AtHand' = AtHand
  BY <1>1 DEF PipelineCounted, HandsOK, Found, InHand, WriterGone, AtHand
<1>3. /\ Found \cup Waiting \subseteq 1 .. observed /\ Found \cap Waiting = {}
      /\ processor_pc # "locking" => processor_sample = None
  BY DEF PipelineCounted
<1>4. /\ observed + 1 \in Nat /\ observed + 1 \notin Found \cup Waiting
      /\ observed + 1 \notin AllLost
      /\ 1 .. observed + 1 = 1 .. observed \cup {observed + 1}
  BY <1>3, CountersTyped DEF AllLost
<1>5. CASE /\ sample_rx' = Append(sample_rx, observed + 1)
           /\ observations_dropped' = observations_dropped
  <2>1. Waiting' = Waiting \cup {observed + 1}
    BY <1>2, <1>4, <1>5, CountersTyped, RangeAppend DEF Waiting
  <2>2. AllLost' = AllLost
    BY <1>1, <1>2, <1>4, <2>1 DEF AllLost
  <2> QED
    BY <1>1, <1>2, <1>3, <1>4, <1>5, <2>1, <2>2 DEF PipelineCounted
<1>6. CASE /\ sample_rx' = sample_rx
           /\ observations_dropped' = observations_dropped + 1
  <2>1. Waiting' = Waiting
    BY <1>2, <1>6 DEF Waiting
  <2>2. AllLost' = AllLost \cup {observed + 1}
    BY <1>1, <1>2, <1>4, <2>1 DEF AllLost
  <2>3. ASSUME processor_pc' # "ended", ~WriterGone'
        PROVE  Accounted(AllLost', observations_dropped' + writer_dropped', write_errors')
    <3> DEFINE dropped == observations_dropped + writer_dropped
    <3>1. Accounted(AllLost, dropped, write_errors)
      BY <1>1, <1>2, <2>3 DEF PipelineCounted
    <3>2. dropped \in Nat /\ observations_dropped' + writer_dropped' = dropped + 1
      <4>1. observations_dropped \in Nat /\ writer_dropped \in Nat
        BY CountersTyped
      <4>2. writer_dropped' = writer_dropped
        BY <1>1
      <4>3. observations_dropped' = observations_dropped + 1
        BY <1>6
      <4> QED
        BY <4>1, <4>2, <4>3
    <3> HIDE DEF dropped
    <3>3. Accounted(AllLost \cup {observed + 1}, dropped + 1, write_errors)
      BY <1>4, <3>1, <3>2, CountersTyped, OneRefused
    <3> QED
      BY <1>1, <2>2, <3>2, <3>3
  <2> QED
    BY <1>1, <1>2, <1>3, <1>4, <2>1, <2>3 DEF PipelineCounted
<1> QED
  BY <1>5, <1>6 DEF on_advertisement

LEMMA TakeSampleCounted ==
  ASSUME PipelineTypeOK, PipelineCounted, TakeSample
  PROVE  PipelineCounted'
<1>1. /\ processor_sample = None /\ sample_rx \in Seq(Nat) /\ sample_rx # << >>
      /\ processor_sample' = Head(sample_rx) /\ sample_rx' = Tail(sample_rx)
      /\ processor_pc # "ended" /\ processor_pc' = "locking"
      /\ UNCHANGED vars /\ observations_dropped' = observations_dropped
  BY CountersTyped DEF PipelineCounted, TakeSample
<1>2. Head(sample_rx) \in Nat
  BY <1>1
<1>3. Waiting' = Waiting
  <2>1. AtHand = {} /\ AtHand' = {Head(sample_rx)}
    BY <1>1, <1>2, WriterAssumption DEF AtHand
  <2> QED
    BY <1>1, <2>1, RangeTail DEF Waiting
<1>4. UNCHANGED <<observed, writer_dropped, write_errors, complete, inprogress, sample,
                  buffer, writer_rx, writer_pc, active>>
  BY <1>1 DEF vars, host, input, writer, files, gauges
<1>5. Found' = Found /\ HandsOK' = HandsOK /\ WriterGone' = WriterGone
  BY <1>4 DEF Found, InHand, HandsOK, WriterGone
<1>6. AllLost' = AllLost
  BY <1>3, <1>4, <1>5 DEF AllLost
<1> QED
  BY <1>1, <1>3, <1>4, <1>5, <1>6 DEF PipelineCounted

\* What the processor hands over is found with the writer or counted.
LEMMA HandOverCounted ==
  ASSUME PipelineTypeOK, PipelineInOrder, PipelineCounted, HandOver
  PROVE  PipelineCounted'
<1>1. PICK d \in Nat, e \in Nat : Placed(d, e)
  BY DEF PipelineInOrder
<1>2. PICK n \in Nat : n = processor_sample /\ n <= e
  BY <1>1 DEF HandOver, PipelineInOrder, Placed, PipelineTypeOK
<1>3. /\ TrySend(n) /\ processor_sample' = None
      /\ processor_pc = "locking" /\ processor_pc' = "waiting"
      /\ UNCHANGED <<observed, complete, inprogress, sample, buffer, active, writer_pc,
                     write_errors, sample_rx, observations_dropped>>
  BY <1>2 DEF HandOver, host, writer, files, gauges, queues
<1>4. n \notin Range(sample_rx)
  <2>1. \A i \in DOMAIN sample_rx : sample_rx[i] \in Nat /\ e < sample_rx[i]
    BY <1>1, CountersTyped DEF Placed, Ordered
  <2> QED
    BY <1>2, <2>1 DEF Range
<1>5. Waiting = {n} \cup Range(sample_rx) /\ Waiting' = Range(sample_rx)
  <2>1. AtHand = {n} /\ AtHand' = {}
    BY <1>2, <1>3, WriterAssumption DEF AtHand
  <2> QED
    BY <1>3, <2>1 DEF Waiting
<1>6. HandsOK' /\ WriterGone' = WriterGone
  BY <1>3 DEF PipelineCounted, HandsOK, WriterGone
<1>7. /\ Found \cup Waiting \subseteq 1 .. observed /\ Found \cap Waiting = {}
      /\ n \notin Found /\ n \in 1 .. observed /\ n \notin AllLost
  BY <1>5 DEF PipelineCounted, AllLost
<1>8. TypeOK
  BY DEF PipelineTypeOK
<1>9. CASE Found' = Found \cup {n} /\ writer_dropped' = writer_dropped
  <2>1. AllLost' = AllLost
    BY <1>3, <1>5, <1>9 DEF AllLost
  <2> QED
    BY <1>3, <1>4, <1>5, <1>6, <1>7, <1>9, <2>1 DEF PipelineCounted
<1>10. CASE Found' = Found /\ writer_dropped' = writer_dropped + 1
  <2>1. AllLost' = AllLost \cup {n}
    BY <1>3, <1>4, <1>5, <1>7, <1>10 DEF AllLost
  <2>2. ASSUME ~WriterGone'
        PROVE  Accounted(AllLost', observations_dropped' + writer_dropped', write_errors')
    <3> DEFINE dropped == observations_dropped + writer_dropped
    <3>1. Accounted(AllLost, dropped, write_errors)
      BY <1>3, <1>6, <2>2 DEF PipelineCounted
    <3>2. dropped \in Nat /\ observations_dropped' + writer_dropped' = dropped + 1
      <4>1. observations_dropped' = observations_dropped
        BY <1>3
      <4>2. observations_dropped \in Nat /\ writer_dropped \in Nat
        BY CountersTyped
      <4> QED
        BY <1>10, <4>1, <4>2
    <3> HIDE DEF dropped
    <3>3. Accounted(AllLost \cup {n}, dropped + 1, write_errors)
      BY <1>7, <3>1, <3>2, CountersTyped, OneRefused
    <3> QED
      BY <1>3, <2>1, <3>2, <3>3
  <2> QED
    BY <1>3, <1>5, <1>6, <1>7, <1>10, <2>2 DEF PipelineCounted
<1> QED
  BY <1>3, <1>8, <1>9, <1>10, OfferFinds

LEMMA StepOfWriterCounted ==
  ASSUME PipelineTypeOK, PipelineInOrder, PipelineCounted, StepOfWriter
  PROVE  PipelineCounted'
<1>1. WriterStep /\ UNCHANGED <<queues, processor, tasks>> /\ TypeOK /\ ActiveOK
  BY WriterFacts DEF StepOfWriter
<1>2. HandsOK' /\ LosesABatch
  BY <1>1, HandsKept, WriterLoses DEF PipelineCounted
<1>3. UNCHANGED <<observed, writer_dropped>> /\ ~WriterGone
  BY <1>1 DEF WriterStep, Receive, FlushTick, maybe_roll, CloseFile, RenameFile, open_active,
              Store, Leave, Finish, Return, host, input, WriterGone
<1>4. Found' \subseteq Found
  BY <1>2 DEF LosesABatch
<1>5. Waiting' = Waiting /\ UNCHANGED <<processor_pc, processor_sample, observations_dropped>>
  BY <1>1 DEF Waiting, AtHand, queues, processor
<1>6. ASSUME processor_pc' # "ended", ~WriterGone'
      PROVE  Accounted(AllLost', observations_dropped' + writer_dropped', write_errors')
  <2> DEFINE dropped == observations_dropped + writer_dropped
  <2>1. Accounted(AllLost, dropped, write_errors)
    BY <1>3, <1>5, <1>6 DEF PipelineCounted
  <2>2. dropped \in Nat /\ write_errors \in Nat /\ observations_dropped' + writer_dropped' = dropped
    <3>1. observations_dropped \in Nat /\ writer_dropped \in Nat /\ write_errors \in Nat
      BY CountersTyped
    <3>2. observations_dropped' = observations_dropped /\ writer_dropped' = writer_dropped
      BY <1>3, <1>5
    <3> QED
      BY <3>1, <3>2
  <2> HIDE DEF dropped
  <2>3. AllLost \subseteq AllLost' /\ AllLost' \subseteq AllLost \cup (Found \ Found')
    BY <1>3, <1>4, <1>5 DEF AllLost
  <2>4. Accounted(AllLost', dropped, write_errors')
    BY <1>2, <1>6, <2>1, <2>2, <2>3, LosesCounted
  <2> QED
    BY <2>2, <2>4
<1> QED
  BY <1>2, <1>3, <1>4, <1>5, <1>6 DEF PipelineCounted

\* The other steps move no sample, but for those the processor leaves behind.
LEMMA OtherCounted ==
  ASSUME PipelineCounted,
         \/ StartScanner \/ StopScanner \/ LeaveLoop \/ Drained \/ EndProcessor
         \/ CancelAll \/ Join \/ NextWindow \/ UNCHANGED pipelineVars
  PROVE  PipelineCounted'
<1>1. SetClock \/ Cancel \/ UNCHANGED vars
  BY DEF StartScanner, StopScanner, LeaveLoop, Drained, EndProcessor, CancelAll, Join,
         NextWindow, pipelineVars
<1>2. UNCHANGED <<observed, writer_dropped, write_errors, complete, inprogress, sample,
                  buffer, writer_rx, writer_pc, active>>
  BY <1>1 DEF SetClock, Cancel, vars, host, input, writer, files, gauges
<1>3. Found' = Found /\ HandsOK' = HandsOK /\ WriterGone' = WriterGone
  BY <1>2 DEF Found, InHand, HandsOK, WriterGone
<1>4. /\ processor_pc' = "locking" <=> processor_pc = "locking"
      /\ processor_pc' # "ended" => processor_pc # "ended" /\ sample_rx' = sample_rx
      /\ sample_rx' \in {sample_rx, << >>}
      /\ UNCHANGED <<processor_sample, observations_dropped>>
  BY DEF StartScanner, StopScanner, LeaveLoop, Drained, EndProcessor, CancelAll, Join,
         NextWindow, pipelineVars, queues, processor
<1>5. Waiting' \subseteq Waiting
  <2>1. AtHand' = AtHand /\ Range(sample_rx') \subseteq Range(sample_rx)
    BY <1>4, RangeEmpty DEF AtHand
  <2> QED
    BY <2>1 DEF Waiting
<1>6. CASE processor_pc' # "ended"
  <2>1. Waiting' = Waiting
    BY <1>4, <1>6 DEF Waiting, AtHand
  <2>2. AllLost' = AllLost
    BY <1>2, <1>3, <2>1 DEF AllLost
  <2> QED
    BY <1>2, <1>3, <1>4, <1>6, <2>1, <2>2 DEF PipelineCounted
<1>7. CASE processor_pc' = "ended"
  BY <1>2, <1>3, <1>4, <1>5, <1>7 DEF PipelineCounted
<1> QED
  BY <1>6, <1>7

LEMMA PipelineCountedInductive == PipelineSpec => []PipelineCounted
<1>1. PipelineInv /\ PipelineCounted /\ [PipelineNext]_pipelineVars => PipelineCounted'
  BY AdvertisementCounted, TakeSampleCounted, HandOverCounted, StepOfWriterCounted, OtherCounted
     DEF PipelineInv, PipelineNext, StepOfProcessor
<1> QED
  BY <1>1, PipelineInitCounted, PipelineInductive, PTL DEF PipelineSpec

-----------------------------------------------------------------------------
\* The writer's gauges, in the pipeline: there is one process.

PipelineGauged ==
  /\ since = 0
  /\ writer_pc # "failed" => OthersAreOld
  /\ GaugeInv

LEMMA PipelineInitGauged == PipelineInit => PipelineGauged
<1> SUFFICES ASSUME PipelineInit PROVE PipelineGauged
  OBVIOUS
<1>1. Init /\ since = 0 /\ OthersAreOld
  BY DEF PipelineInit, Init, NoFiles, OthersAreOld
<1> QED
  BY <1>1, InitGauges DEF PipelineGauged

LEMMA PipelineNextGauged ==
  ASSUME PipelineInv, PipelineCounted, PipelineGauged, [PipelineNext]_pipelineVars
  PROVE  PipelineGauged'
<1>1. PICK d \in Nat, e \in Nat : Placed(d, e)
  BY DEF PipelineInv, PipelineInOrder
<1>2. /\ TypeOK /\ ActiveOK /\ InOrder(d) /\ since = 0
      /\ Found \cup Waiting \subseteq 1 .. observed /\ observed \in Nat
  BY <1>1 DEF Placed, Ready, PipelineCounted, PipelineGauged, TypeOK
<1>3. CASE WriterStep
  <2>1. since' = since
    BY <1>3 DEF WriterStep, Receive, FlushTick, maybe_roll, CloseFile, RenameFile,
                open_active, Store, Leave, Finish, Return, host
  <2>2. Found \subseteq Nat
    BY <1>2
  <2> QED
    BY <1>2, <1>3, <2>1, <2>2, StepGauges, WriterOthersOld DEF PipelineGauged
<1>4. CASE HandOver
  <2>1. processor_sample \in 1 .. observed
    BY <1>2, <1>4 DEF HandOver, PipelineInv, PipelineInOrder, Waiting, AtHand
  <2>2. /\ TrySend(processor_sample)
        /\ UNCHANGED <<since, writer_pc, active, sample, buffer, files, gauges>>
    BY <1>4 DEF HandOver, host, writer
  <2>3. processor_sample \in Nat /\ processor_sample > since
    BY <1>2, <2>1
  <2>4. GaugeInv'
    BY <1>2, <2>2, <2>3, SendGauges DEF PipelineGauged
  <2> QED
    BY <2>2, <2>4 DEF PipelineGauged, OthersAreOld, files
<1>5. CASE ~WriterStep /\ ~HandOver
  <2>1. UNCHANGED <<since, writer_pc, active, sample, buffer, writer_rx, files, gauges>>
    BY <1>5 DEF PipelineNext, StepOfProcessor, StartScanner, on_advertisement, StopScanner,
                TakeSample, LeaveLoop, Drained, EndProcessor, StepOfWriter, CancelAll,
                Cancel, Join, NextWindow, SetClock, pipelineVars, vars, host, input,
                writerVars, writer
  <2> QED
    BY <2>1, NothingGauged DEF PipelineGauged, OthersAreOld, files
<1> QED
  BY <1>3, <1>4, <1>5

-----------------------------------------------------------------------------
\* What is missing when the daemon exits.

\* The samples the shutdown owes an account of: those observed until the token
\* was cancelled, or until now.
Due == 1 .. (IF cancelled = None THEN observed ELSE cancelled)

LostDue == Due \ (Found \cup Waiting)

Allowed == observations_dropped + writer_dropped + BatchRows * write_errors + Uncounted

\* At most so many.
Within(lost, bound) == IsFiniteSet(lost) /\ Cardinality(lost) <= bound

\* The processor leaves its loop when it is cancelled, and its queue when
\* nothing that is due is in it; main has waited for both tasks.
Leaving ==
  /\ cancelled # None => cancelled <= observed
  /\ processor_loop = "drain" => cancelled # None
  /\ processor_pc \in {"returning", "ended"} =>
       processor_loop = "drain" /\ \A n \in Range(sample_rx) : n > cancelled
  /\ processor_pc = "ended" => sample_rx = << >>
  /\ main_pc > 0 => cancelled # None
  /\ main_pc > 1 => processor_pc = "ended"
  /\ main_pc > 2 => WriterGone

\* A writer that is gone has left nothing in its hands.
WriterLeft ==
  /\ Flushed /\ Emptied
  /\ Len(writer_rx) <= WriterCapacity
  /\ WriterGone => sample = None /\ buffer = << >> /\ writer_rx = << >>

ExitInv == Leaving /\ WriterLeft /\ Within(LostDue, Allowed)

LEMMA WithinMore ==
  ASSUME NEW lost, NEW bound \in Nat, Within(lost, bound),
         NEW new, NEW k \in Nat, IsFiniteSet(new), Cardinality(new) <= k,
         NEW more, more \subseteq lost \cup new
  PROVE  Within(more, bound + k)
<1> DEFINE all == lost \cup new
<1>1. Cardinality(lost) \in Nat /\ Cardinality(new) \in Nat
  BY FS_CardinalityType DEF Within
<1>2. /\ IsFiniteSet(all)
      /\ Cardinality(all) = Cardinality(lost) + Cardinality(new) - Cardinality(lost \cap new)
  BY FS_Union DEF Within
<1>3. Cardinality(lost \cap new) \in Nat
  BY FS_Subset, FS_CardinalityType
<1>4. Cardinality(all) \in Nat
  BY <1>2, FS_CardinalityType
<1>5. IsFiniteSet(more) /\ Cardinality(more) <= Cardinality(all)
  BY <1>2, FS_Subset
<1>6. Cardinality(more) \in Nat
  BY <1>5, FS_CardinalityType
<1> HIDE DEF all
<1> QED
  BY <1>1, <1>2, <1>3, <1>4, <1>5, <1>6 DEF Within

LEMMA WithinSame ==
  ASSUME NEW lost, NEW bound \in Nat, Within(lost, bound), NEW more, more \subseteq lost,
         NEW larger \in Nat, bound <= larger
  PROVE  Within(more, larger)
<1>1. IsFiniteSet(more) /\ Cardinality(more) <= Cardinality(lost)
  BY FS_Subset DEF Within
<1>2. Cardinality(more) \in Nat /\ Cardinality(lost) \in Nat
  BY <1>1, FS_CardinalityType DEF Within
<1> QED
  BY <1>1, <1>2 DEF Within

LEMMA AllowedType ==
  ASSUME PipelineTypeOK
  PROVE  /\ Allowed \in Nat /\ BatchRows * write_errors \in Nat /\ Uncounted \in Nat
         /\ BatchRows \in Nat
<1>1. BatchRows \in Nat /\ write_errors \in Nat
  BY WriterAssumption, CountersTyped
<1>2. BatchRows * write_errors \in Nat
  BY <1>1
<1>3. \A a, b, c, d \in Nat : a + b + c + d \in Nat
  OBVIOUS
<1>4. observations_dropped \in Nat /\ writer_dropped \in Nat /\ Uncounted \in Nat
  BY CountersTyped, UncountedType
<1>5. Allowed \in Nat
  BY <1>2, <1>3, <1>4, Zenon DEF Allowed
<1> QED
  BY <1>1, <1>2, <1>4, <1>5

\* The arithmetic of the bound.
LEMMA GoneAllowed ==
  ASSUME NEW d \in Nat, NEW f \in Nat, NEW u \in Nat, NEW h \in Nat, NEW len \in Nat,
         h + len <= u
  PROVE  d + f + u \in Nat /\ ((d + f + 0) + h) + len <= d + f + u
OBVIOUS

\* A step after which one sample more may be missing, and one more is counted.
LEMMA OneMore ==
  ASSUME PipelineTypeOK, Within(LostDue, Allowed), NEW n,
         observations_dropped' + writer_dropped' = observations_dropped + writer_dropped + 1,
         observations_dropped' \in Nat, writer_dropped' \in Nat,
         UNCHANGED <<write_errors, writer_pc>>, LostDue' \subseteq LostDue \cup {n}
  PROVE  Within(LostDue', Allowed')
<1>1. IsFiniteSet({n}) /\ Cardinality({n}) <= 1
  <2>1. IsFiniteSet({n}) /\ Cardinality({n}) = 1
    BY FS_Singleton
  <2> QED
    BY <2>1
<1>2. Within(LostDue', Allowed + 1)
  BY <1>1, AllowedType, WithinMore
<1>3. Uncounted' = Uncounted
  BY DEF Uncounted
<1>4. Allowed' = Allowed + 1
  <2> DEFINE failed == BatchRows * write_errors
  <2>1. failed \in Nat /\ failed' = failed
    BY AllowedType
  <2>2. observations_dropped \in Nat /\ writer_dropped \in Nat /\ Uncounted \in Nat
    BY AllowedType, CountersTyped
  <2>3. Allowed = observations_dropped + writer_dropped + failed + Uncounted
    BY DEF Allowed
  <2>4. Allowed' = observations_dropped' + writer_dropped' + failed + Uncounted
    BY <1>3, <2>1 DEF Allowed
  <2> HIDE DEF failed
  <2>5. observations_dropped' + writer_dropped' + failed + Uncounted
          = (observations_dropped + writer_dropped + failed + Uncounted) + 1
    <3>1. failed \in Nat
      BY <2>1
    <3>2. ASSUME NEW o2 \in Nat, NEW w2 \in Nat,
                 o2 + w2 = observations_dropped + writer_dropped + 1
          PROVE  o2 + w2 + failed + Uncounted
                   = (observations_dropped + writer_dropped + failed + Uncounted) + 1
      BY <2>2, <3>1, <3>2
    <3> QED
      BY <3>2
  <2> QED
    BY <2>3, <2>4, <2>5, Zenon
<1> QED
  BY <1>2, <1>4

LEMMA SameAllowed ==
  ASSUME PipelineTypeOK, Within(LostDue, Allowed),
         UNCHANGED <<observations_dropped, writer_dropped, write_errors, writer_pc>>,
         LostDue' \subseteq LostDue
  PROVE  Within(LostDue', Allowed')
<1>1. Allowed' = Allowed
  BY DEF Allowed, Uncounted
<1> QED
  BY <1>1, AllowedType, WithinSame

LEMMA InitExit == PipelineInit => ExitInv
<1> SUFFICES ASSUME PipelineInit PROVE ExitInv
  OBVIOUS
<1>1. Init
  BY DEF PipelineInit
<1>2. Leaving
  BY <1>1 DEF PipelineInit, Init, Leaving
<1>3. WriterLeft
  <2>1. Len(<< >>) <= WriterCapacity
    BY WriterAssumption
  <2> QED
    BY <1>1, <2>1 DEF Init, WriterLeft, Flushed, Emptied, WriterGone
<1>4. LostDue = {}
  BY <1>1 DEF Init, LostDue, Due
<1>5. Within({}, Allowed)
  <2>1. PipelineTypeOK
    BY PipelineInitInOrder
  <2> QED
    BY <2>1, AllowedType, FS_EmptySet DEF Within
<1> QED
  BY <1>2, <1>3, <1>4, <1>5 DEF ExitInv

LEMMA AdvertisementExit ==
  ASSUME PipelineTypeOK, ExitInv, on_advertisement
  PROVE  ExitInv'
<1>1. /\ UNCHANGED <<cancelled, processor_pc, processor_loop, processor_sample, main_pc,
                     writer_pc, writer_loop, complete, inprogress, sample, active, buffer,
                     writer_rx, writer_dropped, write_errors>>
      /\ observed' = observed + 1
  BY DEF on_advertisement, writerVars, writer, files, gauges, processor, tasks
<1>2. /\ cancelled # None => cancelled \in Nat /\ cancelled <= observed
      /\ observed \in Nat /\ sample_rx \in Seq(Nat) /\ observed + 1 \in Nat
      /\ writer_dropped \in Nat /\ observations_dropped \in Nat
  <2>1. cancelled # None => cancelled \in Nat
    BY DEF PipelineTypeOK, TypeOK
  <2>2. cancelled # None => cancelled <= observed
    BY DEF ExitInv, Leaving
  <2>3. /\ observed \in Nat /\ sample_rx \in Seq(Nat)
        /\ writer_dropped \in Nat /\ observations_dropped \in Nat
    BY CountersTyped
  <2>4. observed + 1 \in Nat
    BY <2>3
  <2> QED
    BY <2>1, <2>2, <2>3, <2>4
<1>3. WriterLeft' /\ Found' = Found /\ AtHand' = AtHand /\ WriterGone' = WriterGone
  BY <1>1 DEF ExitInv, WriterLeft, Flushed, Emptied, WriterGone, Found, InHand, AtHand
<1>4. CASE /\ sample_rx' = Append(sample_rx, observed + 1) /\ processor_pc # "ended"
           /\ observations_dropped' = observations_dropped
  <2>1. Range(sample_rx') = Range(sample_rx) \cup {observed + 1}
    BY <1>2, <1>4, RangeAppend
  <2>2. cancelled # None => observed + 1 > cancelled /\ cancelled <= observed'
    BY <1>1, <1>2
  <2>3. Leaving'
    BY <1>1, <1>3, <1>4, <2>1, <2>2 DEF ExitInv, Leaving
  <2>4. LostDue' \subseteq LostDue
    <3>1. Due' \subseteq Due \cup {observed + 1}
      BY <1>1, <1>2 DEF Due
    <3>2. Waiting' = Waiting \cup {observed + 1}
      BY <1>3, <2>1 DEF Waiting
    <3> QED
      BY <1>3, <3>1, <3>2 DEF LostDue
  <2> QED
    BY <1>1, <1>3, <1>4, <2>3, <2>4, SameAllowed DEF ExitInv
<1>5. CASE sample_rx' = sample_rx /\ observations_dropped' = observations_dropped + 1
  <2>1. cancelled # None => cancelled <= observed'
    BY <1>1, <1>2
  <2>2. Leaving'
    BY <1>1, <1>3, <1>5, <2>1 DEF ExitInv, Leaving
  <2>3. LostDue' \subseteq LostDue \cup {observed + 1}
    <3>1. Due' \subseteq Due \cup {observed + 1}
      BY <1>1, <1>2 DEF Due
    <3>2. Waiting' = Waiting
      BY <1>3, <1>5 DEF Waiting
    <3> QED
      BY <1>3, <3>1, <3>2 DEF LostDue
  <2>4. /\ observations_dropped' \in Nat /\ writer_dropped' \in Nat
        /\ observations_dropped' + writer_dropped' = observations_dropped + writer_dropped + 1
    BY <1>1, <1>2, <1>5
  <2>5. Within(LostDue', Allowed')
    BY <1>1, <2>3, <2>4, OneMore DEF ExitInv
  <2> QED
    BY <1>3, <2>2, <2>5 DEF ExitInv
<1> QED
  BY <1>4, <1>5 DEF on_advertisement

LEMMA TakeSampleExit ==
  ASSUME PipelineTypeOK, PipelineCounted, ExitInv, TakeSample
  PROVE  ExitInv'
<1>1. /\ processor_sample = None /\ sample_rx \in Seq(Nat) /\ sample_rx # << >>
      /\ processor_sample' = Head(sample_rx) /\ sample_rx' = Tail(sample_rx)
      /\ processor_pc = "waiting" /\ processor_pc' = "locking"
      /\ UNCHANGED <<vars, observations_dropped, processor_loop, main_pc>>
  BY CountersTyped DEF PipelineCounted, TakeSample, tasks
<1>2. UNCHANGED <<observed, cancelled, writer_dropped, write_errors, complete, inprogress,
                  sample, buffer, writer_rx, writer_pc, writer_loop, active>>
  BY <1>1 DEF vars, host, input, writer, files, gauges
<1>3. Waiting' = Waiting
  <2>1. Head(sample_rx) \in Nat
    BY <1>1
  <2>2. AtHand = {} /\ AtHand' = {Head(sample_rx)}
    BY <1>1, <2>1, WriterAssumption DEF AtHand
  <2> QED
    BY <1>1, <2>2, RangeTail DEF Waiting
<1>4. Found' = Found /\ WriterGone' = WriterGone /\ WriterLeft'
  BY <1>2 DEF Found, InHand, ExitInv, WriterLeft, Flushed, Emptied, WriterGone
<1>5. Leaving'
  BY <1>1, <1>2, <1>4 DEF ExitInv, Leaving
<1>6. LostDue' = LostDue
  BY <1>2, <1>3, <1>4 DEF LostDue, Due
<1>7. Within(LostDue', Allowed')
  BY <1>1, <1>2, <1>6, SameAllowed DEF ExitInv
<1> QED
  BY <1>4, <1>5, <1>7 DEF ExitInv

LEMMA HandOverExit ==
  ASSUME PipelineTypeOK, PipelineInOrder, ExitInv, HandOver
  PROVE  ExitInv'
<1>1. PICK n \in Nat : n = processor_sample
  BY DEF HandOver, PipelineInOrder, PipelineTypeOK
<1>2. /\ TrySend(n) /\ processor_sample' = None
      /\ processor_pc = "locking" /\ processor_pc' = "waiting"
      /\ UNCHANGED <<observed, cancelled, complete, inprogress, sample, buffer, active,
                     writer_pc, writer_loop, write_errors, sample_rx, observations_dropped,
                     processor_loop, main_pc>>
  BY <1>1 DEF HandOver, host, writer, files, gauges, queues, tasks
<1>3. TypeOK /\ writer_rx \in Seq(Nat) /\ WriterCapacity \in Nat
  BY WriterAssumption DEF PipelineTypeOK, TypeOK
<1>4. Leaving' /\ WriterGone' = WriterGone
  BY <1>2 DEF ExitInv, Leaving, WriterGone
<1>5. WriterLeft'
  <2>1. \/ writer_rx' = writer_rx
        \/ /\ ~WriterGone /\ Len(writer_rx) < WriterCapacity
           /\ writer_rx' = Append(writer_rx, n)
    BY <1>2 DEF TrySend
  <2>2. Len(writer_rx') <= WriterCapacity
    BY <1>3, <2>1 DEF ExitInv, WriterLeft
  <2> QED
    BY <1>2, <1>4, <2>1, <2>2 DEF ExitInv, WriterLeft, Flushed, Emptied
<1>6. Waiting = {n} \cup Range(sample_rx) /\ Waiting' = Range(sample_rx)
  <2>1. AtHand = {n} /\ AtHand' = {}
    BY <1>1, <1>2, WriterAssumption DEF AtHand
  <2> QED
    BY <1>2, <2>1 DEF Waiting
<1>7. Due' = Due
  BY <1>2 DEF Due
<1>8. CASE Found' = Found \cup {n} /\ writer_dropped' = writer_dropped
  <2>1. LostDue' \subseteq LostDue
    BY <1>6, <1>7, <1>8 DEF LostDue
  <2>2. Within(LostDue', Allowed')
    BY <1>2, <1>8, <2>1, SameAllowed DEF ExitInv
  <2> QED
    BY <1>4, <1>5, <2>2 DEF ExitInv
<1>9. CASE Found' = Found /\ writer_dropped' = writer_dropped + 1
  <2>1. LostDue' \subseteq LostDue \cup {n}
    BY <1>6, <1>7, <1>9 DEF LostDue
  <2>2. /\ observations_dropped' \in Nat /\ writer_dropped' \in Nat
        /\ observations_dropped' + writer_dropped' = observations_dropped + writer_dropped + 1
    <3>1. observations_dropped \in Nat /\ writer_dropped \in Nat
      BY CountersTyped
    <3>2. observations_dropped' = observations_dropped
      BY <1>2
    <3>3. writer_dropped' = writer_dropped + 1
      BY <1>9
    <3> QED
      BY <3>1, <3>2, <3>3
  <2>3. Within(LostDue', Allowed')
    BY <1>2, <2>1, <2>2, OneMore DEF ExitInv
  <2> QED
    BY <1>4, <1>5, <2>3 DEF ExitInv
<1> QED
  BY <1>2, <1>3, <1>8, <1>9, OfferFinds

\* The writer loses a batch for an error, or what is in its hands when it ends.
LEMMA WriterWithin ==
  ASSUME PipelineTypeOK, PipelineInOrder, PipelineCounted, ExitInv, StepOfWriter
  PROVE  Within(LostDue', Allowed')
<1> DEFINE dropped == observations_dropped + writer_dropped
           failed == BatchRows * write_errors
<1>1. WriterStep /\ UNCHANGED <<queues, processor, tasks>> /\ TypeOK /\ ActiveOK /\ HandsOK
  BY WriterFacts DEF StepOfWriter, PipelineCounted
<1>2. /\ UNCHANGED <<observed, cancelled, writer_dropped, observations_dropped, sample_rx,
                     processor_sample>>
      /\ ~WriterGone
  BY <1>1 DEF WriterStep, Receive, FlushTick, maybe_roll, CloseFile, RenameFile, open_active,
              Store, Leave, Finish, Return, host, input, WriterGone, queues, processor
<1>3. LosesABatch
  BY <1>1, WriterLoses
<1>4. Due' = Due /\ Waiting' = Waiting /\ dropped' = dropped
  BY <1>2 DEF Due, Waiting, AtHand
<1>5. /\ dropped \in Nat /\ write_errors \in Nat /\ BatchRows \in Nat /\ failed \in Nat
      /\ Uncounted = 0 /\ Allowed \in Nat /\ Allowed = dropped + failed + Uncounted
  BY <1>2, CountersTyped, AllowedType DEF Allowed, Uncounted, WriterGone
<1>6. Uncounted' \in Nat
  BY WriterAssumption DEF Uncounted
<1>7. Within(LostDue, Allowed)
  BY DEF ExitInv
<1>8. CASE WriterGone'
  <2> DEFINE h == IF Held = {} THEN 0 ELSE 1
             new == Held \cup Range(writer_rx)
  <2>1. /\ write_errors' = write_errors /\ Found \subseteq Found' \cup new
        /\ writer_pc' = "stopped" => Held = {}
    BY <1>1, <1>8, EndLoses DEF ExitInv, WriterLeft
  <2>2. LostDue' \subseteq LostDue \cup new
    BY <1>4, <2>1 DEF LostDue
  <2>3. writer_rx \in Seq(Nat) /\ Len(writer_rx) \in Nat /\ Len(writer_rx) <= WriterCapacity
    BY <1>1 DEF TypeOK, ExitInv, WriterLeft
  <2>4. IsFiniteSet(Held) /\ Cardinality(Held) <= h /\ h \in Nat
    <3>1. CASE Held = {}
      BY <3>1, FS_EmptySet
    <3>2. CASE Held # {}
      <4>1. Held = {sample} /\ h = 1
        BY <3>2 DEF Held
      <4>2. IsFiniteSet(Held) /\ Cardinality(Held) = 1
        BY <4>1, FS_Singleton
      <4> QED
        BY <4>1, <4>2
    <3> QED
      BY <3>1, <3>2
  <2>5. /\ WriterCapacity \in Nat
        /\ Uncounted' = IF writer_pc' = "failed" THEN WriterCapacity + 1 ELSE WriterCapacity
    BY <1>8, WriterAssumption DEF Uncounted, WriterGone
  <2>6. h + Len(writer_rx) <= Uncounted'
    <3>1. h <= 1 /\ (writer_pc' = "failed" \/ h = 0)
      BY <1>8, <2>1 DEF WriterGone
    <3> HIDE DEF h
    <3> QED
      BY <2>3, <2>4, <2>5, <3>1
  <2> HIDE DEF h
  <2>7. /\ IsFiniteSet(Range(writer_rx)) /\ Cardinality(Range(writer_rx)) <= Len(writer_rx)
    BY <2>3, RangeCounted
  <2>8. Within(LostDue \cup Held, Allowed + h)
    BY <1>5, <1>7, <2>4, WithinMore
  <2>9. Allowed + h \in Nat
    BY <1>5, <2>4
  <2>10. LostDue' \subseteq (LostDue \cup Held) \cup Range(writer_rx)
    BY <2>2
  <2>11. Within(LostDue', (Allowed + h) + Len(writer_rx))
    BY <2>3, <2>7, <2>8, <2>9, <2>10, WithinMore
  <2>12. failed' = failed
    BY <2>1
  <2>13. Allowed' = dropped + failed + Uncounted'
    BY <1>4, <2>12 DEF Allowed
  <2> HIDE DEF dropped, failed
  <2>14. Allowed' \in Nat /\ (Allowed + h) + Len(writer_rx) <= Allowed'
    <3>1. Allowed = dropped + failed + 0
      BY <1>5
    <3>2. dropped \in Nat /\ failed \in Nat /\ h \in Nat /\ Len(writer_rx) \in Nat
      BY <1>5, <2>3, <2>4
    <3> QED
      BY <1>6, <2>6, <2>13, <3>1, <3>2, GoneAllowed
  <2>15. (Allowed + h) + Len(writer_rx) \in Nat
    BY <2>3, <2>9
  <2> QED
    BY <2>11, <2>14, <2>15, WithinSame
<1>9. CASE ~WriterGone' /\ Found' = Found /\ write_errors' = write_errors
  <2>1. LostDue' = LostDue
    BY <1>4, <1>9 DEF LostDue
  <2>2. Uncounted' = Uncounted
    BY <1>5, <1>9 DEF Uncounted, WriterGone
  <2>3. Allowed' = Allowed
    BY <1>2, <1>9, <2>2 DEF Allowed
  <2> QED
    BY <1>7, <2>1, <2>3
<1>10. ASSUME ~WriterGone', write_errors' = write_errors + 1,
              NEW rows \in Seq(Nat), Len(rows) <= BatchRows,
              Found \subseteq Found' \cup Range(rows)
       PROVE  Within(LostDue', Allowed')
  <2>1. LostDue' \subseteq LostDue \cup Range(rows)
    BY <1>4, <1>10 DEF LostDue
  <2>2. /\ IsFiniteSet(Range(rows)) /\ Cardinality(Range(rows)) \in Nat
        /\ Cardinality(Range(rows)) <= Len(rows) /\ Len(rows) \in Nat
    BY <1>10, RangeCounted
  <2>3. Cardinality(Range(rows)) <= BatchRows
    BY <1>5, <1>10, <2>2
  <2>4. Within(LostDue', Allowed + BatchRows)
    BY <1>5, <1>7, <2>1, <2>2, <2>3, WithinMore
  <2>5. Uncounted' = 0
    BY <1>10 DEF Uncounted, WriterGone
  <2>6. failed' = failed + BatchRows
    BY <1>5, <1>10
  <2>7. Allowed' = dropped + failed' + Uncounted'
    BY <1>4 DEF Allowed
  <2> HIDE DEF dropped, failed
  <2>8. Allowed' = Allowed + BatchRows
    BY <1>5, <2>5, <2>6, <2>7
  <2> QED
    BY <2>4, <2>8
<1> QED
  BY <1>3, <1>8, <1>9, <1>10 DEF LosesABatch

LEMMA StepOfWriterExit ==
  ASSUME PipelineTypeOK, PipelineInOrder, PipelineCounted, ExitInv, StepOfWriter
  PROVE  ExitInv'
<1>1. WriterStep /\ UNCHANGED <<queues, processor, tasks>> /\ TypeOK /\ ActiveOK /\ HandsOK
  BY WriterFacts DEF StepOfWriter, PipelineCounted
<1>2. /\ UNCHANGED <<observed, cancelled, sample_rx, processor_pc, processor_loop, main_pc>>
      /\ ~WriterGone
  BY <1>1 DEF WriterStep, Receive, FlushTick, maybe_roll, CloseFile, RenameFile, open_active,
              Store, Leave, Finish, Return, host, input, WriterGone, queues, processor, tasks
<1>3. Leaving'
  BY <1>2 DEF ExitInv, Leaving
<1>4. Flushed' /\ Emptied'
  BY <1>1, WriterFlushed, WriterEmptied DEF ExitInv, WriterLeft
<1>5. writer_rx' \in {writer_rx, << >>} \/ (writer_rx # << >> /\ writer_rx' = Tail(writer_rx))
  BY <1>1 DEF WriterStep, Receive, Take, FlushTick, maybe_roll, CloseFile, RenameFile,
              open_active, Store, Leave, Finish, Return, Fail, input
<1>6. Len(writer_rx') <= WriterCapacity
  <2>1. /\ writer_rx \in Seq(Nat) /\ Len(writer_rx) <= WriterCapacity
        /\ WriterCapacity \in Nat /\ Len(<< >>) <= WriterCapacity
    BY <1>1, WriterAssumption DEF TypeOK, ExitInv, WriterLeft
  <2>2. writer_rx # << >> => Len(Tail(writer_rx)) <= Len(writer_rx) /\ Len(Tail(writer_rx)) \in Nat
    BY <2>1
  <2>3. Len(writer_rx) \in Nat
    BY <2>1
  <2> QED
    BY <1>5, <2>1, <2>2, <2>3
<1>7. WriterGone' => sample' = None /\ buffer' = << >> /\ writer_rx' = << >>
  <2>1. CASE Fail
    BY <2>1 DEF Fail
  <2>2. CASE Return
    BY <2>2 DEF Return, Emptied, ExitInv, WriterLeft
  <2>3. CASE ~Fail /\ ~Return
    BY <1>1, <2>3 DEF WriterStep, Receive, Take, FlushTick, maybe_roll, CloseFile, RenameFile,
                      open_active, Store, Leave, Finish, WriterGone
  <2> QED
    BY <2>1, <2>2, <2>3
<1> QED
  BY <1>3, <1>4, <1>6, <1>7, WriterWithin DEF ExitInv, WriterLeft

\* The other steps move no sample, but for those that come too late.
LEMMA OtherExit ==
  ASSUME PipelineTypeOK, ExitInv,
         \/ StartScanner \/ StopScanner \/ LeaveLoop \/ Drained \/ EndProcessor
         \/ CancelAll \/ Join \/ NextWindow \/ UNCHANGED pipelineVars
  PROVE  ExitInv'
<1>1. SetClock \/ (Cancel /\ CancelAll) \/ UNCHANGED vars
  BY DEF StartScanner, StopScanner, LeaveLoop, Drained, EndProcessor, CancelAll, Join,
         NextWindow, pipelineVars
<1>2. /\ UNCHANGED <<observed, writer_dropped, write_errors, complete, inprogress, sample,
                     buffer, writer_rx, writer_pc, writer_loop, active>>
      /\ cancelled' = cancelled \/ (CancelAll /\ cancelled = None /\ cancelled' = observed)
  BY <1>1 DEF SetClock, Cancel, vars, host, input, writer, files, gauges
<1>3. Found' = Found /\ WriterGone' = WriterGone /\ WriterLeft'
  BY <1>2 DEF Found, InHand, ExitInv, WriterLeft, Flushed, Emptied, WriterGone
<1>4. UNCHANGED <<processor_sample, observations_dropped>>
  BY DEF StartScanner, StopScanner, LeaveLoop, Drained, EndProcessor, CancelAll, Join,
         NextWindow, pipelineVars, queues, processor
<1>5. /\ observed \in Nat /\ None \notin Nat /\ main_pc \in Nat
      /\ cancelled # None => cancelled \in Nat
  BY WriterAssumption DEF PipelineTypeOK, TypeOK, Exited, Joins
<1>6. Due' = Due
  BY <1>2, <1>5 DEF Due
<1>7. CASE EndProcessor
  <2>1. /\ processor_pc = "returning" /\ processor_pc' = "ended" /\ sample_rx' = << >>
        /\ UNCHANGED <<vars, processor_loop, main_pc>>
    BY <1>7 DEF EndProcessor, tasks
  <2>2. cancelled' = cancelled
    BY <2>1 DEF vars, input
  <2>3. Leaving'
    BY <1>2, <1>3, <2>1, <2>2, RangeEmpty DEF ExitInv, Leaving
  <2>4. cancelled # None /\ \A n \in Range(sample_rx) : n > cancelled
    BY <2>1 DEF ExitInv, Leaving
  <2>5. Due \cap Range(sample_rx) = {}
    <3>1. \A n \in Range(sample_rx) : n \in Nat
      BY CountersTyped DEF Range
    <3> QED
      BY <1>5, <2>4, <3>1 DEF Due
  <2>6. Waiting \subseteq Waiting' \cup Range(sample_rx)
    BY <1>4 DEF Waiting, AtHand
  <2>7. LostDue' \subseteq LostDue
    BY <1>3, <1>6, <2>5, <2>6 DEF LostDue
  <2>8. Within(LostDue', Allowed')
    BY <1>2, <1>4, <2>7, SameAllowed DEF ExitInv
  <2> QED
    BY <1>3, <2>3, <2>8 DEF ExitInv
<1>8. CASE ~EndProcessor
  <2>1. sample_rx' = sample_rx
    BY <1>8 DEF StartScanner, StopScanner, LeaveLoop, Drained, CancelAll, Join, NextWindow,
                pipelineVars, queues
  <2>2. LostDue' = LostDue
    BY <1>3, <1>4, <1>6, <2>1 DEF LostDue, Waiting, AtHand
  <2>3. Within(LostDue', Allowed')
    BY <1>2, <1>4, <2>2, SameAllowed DEF ExitInv
  <2>4. CASE CancelAll
    <3>1. /\ main_pc = 0 /\ main_pc' = 1 /\ cancelled = None /\ cancelled' = observed
          /\ UNCHANGED <<processor_pc, processor_loop>>
      BY <2>4 DEF CancelAll, Cancel, processor
    <3>2. processor_loop # "drain" /\ processor_pc \notin {"returning", "ended"}
      BY <3>1 DEF ExitInv, Leaving
    <3> QED
      BY <1>2, <1>3, <1>5, <2>3, <3>1, <3>2 DEF ExitInv, Leaving
  <2>5. CASE LeaveLoop \/ Drained
    <3>1. /\ UNCHANGED <<cancelled, observed, main_pc>> /\ sample_rx = << >>
          /\ processor_pc = "waiting"
          /\ \/ cancelled # None /\ processor_loop' = "drain" /\ processor_pc' = processor_pc
             \/ processor_loop = "drain" /\ processor_loop' = "drain" /\ processor_pc' = "returning"
      BY <2>5 DEF LeaveLoop, Drained, vars, host, input, tasks
    <3> QED
      BY <1>3, <2>1, <2>3, <3>1, RangeEmpty DEF ExitInv, Leaving
  <2>6. CASE Join
    <3>1. /\ main_pc \in 1 .. 5 /\ Ended(Joins[main_pc]) /\ main_pc' = main_pc + 1
          /\ UNCHANGED <<cancelled, observed, processor_pc, processor_loop>>
      BY <2>6 DEF Join, Joins, vars, host, input, processor
    <3>2. /\ main_pc = 1 => Joins[main_pc] = "processor"
          /\ main_pc = 2 => Joins[main_pc] = "writer"
      BY DEF Joins
    <3>3. /\ main_pc = 1 => processor_pc = "ended"
          /\ main_pc = 2 => WriterGone
      BY <3>1, <3>2 DEF Ended
    <3>4. /\ main_pc' > 0 => main_pc > 0
          /\ main_pc' > 1 => main_pc > 1 \/ main_pc = 1
          /\ main_pc' > 2 => main_pc > 2 \/ main_pc = 2
      BY <3>1
    <3> QED
      BY <1>3, <2>1, <2>3, <3>1, <3>3, <3>4 DEF ExitInv, Leaving
  <2>7. CASE ~CancelAll /\ ~LeaveLoop /\ ~Drained /\ ~Join
    <3>1. UNCHANGED <<cancelled, observed, main_pc, processor_pc, processor_loop>>
      BY <1>8, <2>7 DEF StartScanner, StopScanner, NextWindow, SetClock, pipelineVars, vars, host,
                        input, processor, tasks
    <3> QED
      BY <1>3, <2>1, <2>3, <3>1 DEF ExitInv, Leaving
  <2> QED
    BY <2>4, <2>5, <2>6, <2>7
<1> QED
  BY <1>7, <1>8

-----------------------------------------------------------------------------
\* What the pipeline is proved to do.

\* All variables keep their types; in particular the writer behind the queues
\* never appends to a file it has not opened (process_samples, run_writer).
THEOREM PipelineTypeCorrect == PipelineSpec => []PipelineTypeOK
<1>1. PipelineInv => PipelineTypeOK
  BY DEF PipelineInv
<1> QED
  BY <1>1, PipelineInductive, PTL

\* However long a sample waits in the queues, and whichever of the two readings
\* of the clock the window ends between, its row is in no file of a window
\* before its observation (on_advertisement, store_sample, maybe_roll,
\* open_active), while the clock is not set back.
THEOREM RowsFollowTheirTime == PipelineSpec => []RowsAreNeverEarly
<1>1. PipelineInv => RowsAreNeverEarly
  BY DEF PipelineInv, AllTimely, RowsAreNeverEarly, TimelyFiles, Timely, InTime
<1> QED
  BY <1>1, PipelineInductive, PTL

\* While the processor and the writer run, every observation is in a queue, in a
\* task's hands or in a file, or is counted once, as dropped or with a batch that
\* failed (on_advertisement, process_samples, run_writer).
THEOREM ObservationsAreAccounted == PipelineSpec => []EveryObservationIsAccounted
<1>1. ASSUME PipelineInv, PipelineCounted PROVE EveryObservationIsAccounted
  <2>1. Stored \cup InFlight = Found \cup Waiting
    BY DEF Stored, InFlight, Found, Waiting, AtHand, Range
  <2> DEFINE dropped == observations_dropped + writer_dropped
  <2>2. CASE processor_pc # "ended" /\ ~WriterGone
    <3>1. Accounted(AllLost, dropped, write_errors)
      BY <1>1, <2>2 DEF PipelineCounted
    <3> HIDE DEF dropped
    <3>2. /\ dropped <= Missing(1 .. observed, Stored \cup InFlight)
          /\ Missing(1 .. observed, Stored \cup InFlight) <= dropped + BatchRows * write_errors
      BY <2>1, <3>1 DEF Accounted, AllLost, Missing
    <3> QED
      BY <3>2 DEF EveryObservationIsAccounted, dropped
  <2> QED
    BY <2>2 DEF EveryObservationIsAccounted
<1> QED
  BY <1>1, PipelineInductive, PipelineCountedInductive, PTL

\* The daemon exits when no sample is on its way and a writer that did not fail
\* has left no file unfinished, and of what was observed before the token was
\* cancelled there is missing from the files only what the counters show and
\* what went with the writer (the joins of main, the drains of process_samples
\* and run_writer), whatever the tasks do in between.
THEOREM ExitsWithEverything == PipelineSpec => []ExitIsComplete
<1>1. ASSUME PipelineInv, PipelineCounted, PipelineGauged, ExitInv PROVE ExitIsComplete
  <2> SUFFICES ASSUME main_pc = Exited PROVE ExitIsComplete
    BY DEF ExitIsComplete
  <2>1. /\ cancelled # None /\ processor_pc = "ended" /\ sample_rx = << >> /\ WriterGone
    BY <1>1 DEF ExitInv, Leaving, Exited, Joins
  <2>2. /\ processor_sample = None
        /\ sample = None /\ buffer = << >> /\ writer_rx = << >>
    BY <1>1, <2>1 DEF PipelineCounted, ExitInv, WriterLeft
  <2>3. InFlight = {} /\ Found \cup Waiting = Stored
    BY <2>1, <2>2 DEF InFlight, InHand, Found, Waiting, AtHand, Stored, Range
  <2>4. Missing(1 .. cancelled, Stored) <= Allowed
    BY <1>1, <2>1, <2>3 DEF ExitInv, Within, LostDue, Due, Missing
  <2>5. ASSUME writer_pc = "stopped" PROVE RowsOf(inprogress) = {}
    <3>1. active = None /\ OthersAreOld /\ since = 0 /\ TypeOK
      BY <1>1, <2>5 DEF ExitInv, WriterLeft, Emptied, PipelineGauged, PipelineInv, PipelineTypeOK
    <3>2. None \notin DOMAIN inprogress
      BY <3>1, WriterAssumption DEF TypeOK, Name
    <3>3. ASSUME NEW n \in RowsOf(inprogress) PROVE FALSE
      <4>1. n <= 0
        BY <3>1, <3>2, InRowsOf DEF OthersAreOld
      <4>2. n \in 1 .. observed
        BY <1>1, FoundParts DEF PipelineCounted
      <4>3. observed \in Nat
        BY <3>1 DEF TypeOK
      <4> QED
        BY <4>1, <4>2, <4>3
    <3> QED
      BY <3>3
  <2> QED
    BY <2>3, <2>4, <2>5 DEF ExitIsComplete, Allowed
<1>2. PipelineInv /\ PipelineCounted /\ ExitInv /\ [PipelineNext]_pipelineVars => ExitInv'
  BY AdvertisementExit, TakeSampleExit, HandOverExit, StepOfWriterExit, OtherExit
     DEF PipelineInv, PipelineNext, StepOfProcessor
<1>3. PipelineInv /\ PipelineCounted /\ PipelineGauged /\ [PipelineNext]_pipelineVars
        => PipelineGauged'
  BY PipelineNextGauged
<1> QED
  BY <1>1, <1>2, <1>3, InitExit, PipelineInitGauged, PipelineInductive, PipelineCountedInductive, PTL
     DEF PipelineSpec

\* Nothing but the writer changes a file, and it starts from the invariant of
\* ParquetWriter_proofs.
LEMMA OnlyTheWriter ==
  ASSUME PipelineInv, [PipelineNext]_pipelineVars
  PROVE  UNCHANGED <<active, files>> \/ (WriterStep /\ IInv)
<1>1. CASE WriterStep
  <2>1. PICK d \in Nat, e \in Nat : Placed(d, e)
    BY DEF PipelineInv, PipelineInOrder
  <2>2. observed \in Nat
    BY <2>1 DEF Placed, Ready, TypeOK
  <2> QED
    BY <1>1, <2>1, <2>2 DEF Placed, Ordered, IInv
<1>2. CASE ~WriterStep
  BY <1>2 DEF PipelineNext, StepOfProcessor, StartScanner, on_advertisement, StopScanner,
              TakeSample, HandOver, LeaveLoop, Drained, EndProcessor, StepOfWriter,
              CancelAll, Cancel, Join, NextWindow, SetClock, pipelineVars, vars,
              writerVars, writer, files
<1> QED
  BY <1>1, <1>2

\* With its rows handed over by the processor, when and as far as there is room
\* in the queues, the writer still implements History: the composition breaks
\* nothing that the writer does (process_samples, run_writer).
THEOREM PipelineImplementsHistory == PipelineSpec => CompletedFilesAreHistory
<1>1. PipelineInit => History!HistoryInit
  <2> SUFFICES ASSUME PipelineInit PROVE History!HistoryInit
    OBVIOUS
  <2>1. DOMAIN complete = {} /\ newest = 0
    BY DEF PipelineInit, Init, NoFiles
  <2> QED
    BY <2>1 DEF published, History!HistoryInit
<1>2. PipelineInv /\ [PipelineNext]_pipelineVars
        => [History!HistoryNext]_(History!historyVars)
  <2> SUFFICES ASSUME PipelineInv, [PipelineNext]_pipelineVars
               PROVE  [History!HistoryNext]_(History!historyVars)
    OBVIOUS
  <2>1. CASE complete' = complete /\ newest' = newest
    BY <2>1 DEF published, History!historyVars
  <2>2. CASE WriterStep /\ IInv /\ ~(complete' = complete /\ newest' = newest)
    BY <2>2, StepCompletes, RenamePublishes DEF Next, History!HistoryNext
  <2> QED
    BY <2>1, <2>2, OnlyTheWriter DEF files
<1> QED
  BY <1>1, <1>2, PipelineInductive, PTL
     DEF PipelineSpec, CompletedFilesAreHistory, History!HistorySpec

\* Nor is a completed file, or one left in progress by a failed close, ever
\* touched in the composition (unique_file_paths, close_active).
THEOREM PipelineKeepsFiles == PipelineSpec => FilesAreFinal
<1>1. PipelineInv /\ [PipelineNext]_pipelineVars => [FinalStep]_vars
  <2> SUFFICES ASSUME PipelineInv, [PipelineNext]_pipelineVars PROVE FinalStep
    OBVIOUS
  <2>1. CASE UNCHANGED <<active, files>>
    BY <2>1 DEF files, FinalStep
  <2>2. CASE WriterStep /\ IInv
    BY <2>2, StepIsFinal DEF Next
  <2> QED
    BY <2>1, <2>2, OnlyTheWriter
<1>2. PipelineSpec => [][FinalStep]_vars
  BY <1>1, PipelineInductive, PTL DEF PipelineSpec
<1> QED
  BY <1>2 DEF FinalStep, FilesAreFinal

\* The writer's gauges are true there as well, whatever the processor hands over
\* and the queues refuse (flush_buffer, open_active, close_active).
THEOREM PipelineGaugesAreTrue == PipelineSpec => []GaugesShowTheFile
<1>1. PipelineInv /\ PipelineCounted /\ PipelineGauged /\ [PipelineNext]_pipelineVars
        => PipelineGauged'
  BY PipelineNextGauged
<1>2. PipelineGauged => GaugesShowTheFile
  BY GaugesShow DEF PipelineGauged
<1> QED
  BY <1>1, <1>2, PipelineInitGauged, PipelineInductive, PipelineCountedInductive, PTL
     DEF PipelineSpec
=============================================================================

--------------------------- MODULE ParquetWriter ---------------------------
(***************************************************************************)
(* The task that writes the history (src/parquet_writer.rs), the directory   *)
(* it writes to, and the process that is killed and started again.           *)
(*                                                                           *)
(* A sample is its number in the order of observation, counted across        *)
(* restarts.  The clock shows the roll window (an hour or a day) of          *)
(* Utc::now(); it is the host's, and may be set back.  A file has two        *)
(* possible paths, X.parquet.inprogress and X.parquet, so the directory is   *)
(* two functions of X: the window and index that unique_file_paths forms     *)
(* it from.  Faults are the calls that may fail.                             *)
(***************************************************************************)
EXTENDS Integers, Sequences, FiniteSets

CONSTANTS
  None,
  WriterCapacity,  \* WRITER_QUEUE_CAPACITY of src/main.rs
  BatchRows,       \* BATCH_ROWS
  MaxFiles,        \* the indices unique_file_paths tries in a directory
  Windows,         \* the roll windows the clock may show
  Faults,
  MaxSamples, MaxRestarts   \* bounds of the instance

Calls == {"open", "write", "close", "rename"}

ASSUME WriterAssumption ==
  /\ {WriterCapacity, BatchRows, MaxFiles} \subseteq Nat \ {0}
  /\ {MaxSamples, MaxRestarts} \subseteq Nat
  /\ Windows \subseteq Int /\ Windows # {}
  /\ Faults \subseteq Calls
  /\ None \notin Nat
  /\ None \notin [window : Windows, index : 0 .. MaxFiles - 1]

VARIABLES
  clock, restarts,
  observed,     \* the number of the last sample observed
  since,        \* what observed was when this process was started
  writer_rx, writer_dropped,
  cancelled,    \* None, or what observed was when the token was cancelled
  writer_pc, writer_loop,
  sample,       \* what the writer took from the queue; None on a tick
  active,       \* the name of the active file, None without one
  buffer,
  complete, inprogress,   \* the files, by name
  rows_written, write_errors, active_file_open, active_file_rows, \* metrics
  newest        \* the last row of the last completed file; no code reads it

files == <<complete, inprogress, newest>>
gauges == <<rows_written, write_errors, active_file_open, active_file_rows>>
host == <<clock, restarts, observed, since>>
input == <<writer_rx, writer_dropped, cancelled>>
writer == <<writer_pc, writer_loop, sample, active, buffer>>
vars == <<host, input, writer, files, gauges>>

Name == [window : Windows, index : 0 .. MaxFiles - 1]
Rows == Seq(Nat)
File == [rows : Rows, footer : BOOLEAN]

WriterPc == {"waiting", "rolling", "closing", "renaming", "opening", "storing",
             "returning", "stopped", "failed"}

\* The loops of run_writer: the select!, the drain, and what follows it.
WriterLoop == {"select", "drain", "finish"}

TypeOK ==
  /\ clock \in Windows
  /\ restarts \in Nat /\ observed \in Nat /\ since \in Nat
  /\ writer_rx \in Seq(Nat) /\ writer_dropped \in Nat
  /\ cancelled \in Nat \cup {None}
  /\ writer_pc \in WriterPc /\ writer_loop \in WriterLoop
  /\ sample \in Nat \cup {None}
  /\ active \in Name \cup {None}
  /\ buffer \in Rows
  /\ DOMAIN complete \subseteq Name /\ complete \in [DOMAIN complete -> File]
  /\ DOMAIN inprogress \subseteq Name /\ inprogress \in [DOMAIN inprogress -> File]
  /\ rows_written \in Nat /\ write_errors \in Nat
  /\ active_file_open \in BOOLEAN /\ active_file_rows \in Nat
  /\ newest \in Nat

NoFiles == [name \in {} |-> [rows |-> << >>, footer |-> FALSE]]

With(directory, name, file) ==
  [n \in DOMAIN directory \cup {name} |-> IF n = name THEN file ELSE directory[n]]

Without(directory, name) == [n \in DOMAIN directory \ {name} |-> directory[n]]

Init ==
  /\ clock \in Windows
  /\ restarts = 0 /\ observed = 0 /\ since = 0
  /\ writer_rx = << >> /\ writer_dropped = 0 /\ cancelled = None
  /\ writer_pc = "waiting" /\ writer_loop = "select"
  /\ sample = None /\ active = None /\ buffer = << >>
  /\ complete = NoFiles /\ inprogress = NoFiles /\ newest = 0
  /\ rows_written = 0 /\ write_errors = 0
  /\ active_file_open = FALSE /\ active_file_rows = 0

-----------------------------------------------------------------------------
\* The writer's surroundings.

WriterGone == writer_pc \in {"stopped", "failed"}

\* try_send: a queue that is full or has lost its receiver takes nothing.
TrySend(n) ==
  LET taken == ~WriterGone /\ Len(writer_rx) < WriterCapacity
  IN /\ writer_rx' = IF taken THEN Append(writer_rx, n) ELSE writer_rx
     /\ writer_dropped' = IF taken THEN writer_dropped ELSE writer_dropped + 1

\* The processor hands over the next sample.
Offer ==
  /\ observed < MaxSamples
  /\ observed' = observed + 1
  /\ TrySend(observed + 1)
  /\ UNCHANGED <<clock, restarts, since, cancelled, writer, files, gauges>>

\* Time passes, or the clock is set, forwards or back.
SetClock ==
  /\ \E window \in Windows \ {clock} : clock' = window
  /\ UNCHANGED <<restarts, observed, since, input, writer, files, gauges>>

\* main cancels the token.
Cancel ==
  /\ cancelled = None
  /\ cancelled' = observed
  /\ UNCHANGED <<host, writer_rx, writer_dropped, writer, files, gauges>>

\* The process ends, at any point, and is started again: only files survive.
Restart ==
  /\ restarts < MaxRestarts
  /\ restarts' = restarts + 1
  /\ since' = observed
  /\ writer_rx' = << >> /\ writer_dropped' = 0 /\ cancelled' = None
  /\ writer_pc' = "waiting" /\ writer_loop' = "select"
  /\ sample' = None /\ active' = None /\ buffer' = << >>
  /\ rows_written' = 0 /\ write_errors' = 0
  /\ active_file_open' = FALSE /\ active_file_rows' = 0
  /\ UNCHANGED <<clock, observed, files>>

-----------------------------------------------------------------------------
\* The loops of run_writer.

Take ==
  /\ writer_rx # << >>
  /\ sample' = Head(writer_rx)
  /\ writer_rx' = Tail(writer_rx)
  /\ writer_pc' = "rolling"

\* Both loops take a sample when there is one: the select! is biased.
Receive ==
  /\ writer_pc = "waiting"
  /\ Take
  /\ UNCHANGED <<host, writer_dropped, cancelled, writer_loop, active, buffer,
                 files, gauges>>

\* The flush interval, ready every ten seconds.
FlushTick ==
  /\ writer_pc = "waiting" /\ writer_loop = "select"
  /\ writer_rx = << >>
  /\ writer_pc' = "rolling"
  /\ sample' = None
  /\ UNCHANGED <<host, input, writer_loop, active, buffer, files, gauges>>

\* The cancellation is looked at last.
Leave ==
  /\ writer_pc = "waiting" /\ writer_loop = "select"
  /\ writer_rx = << >> /\ cancelled # None
  /\ writer_loop' = "drain"
  /\ UNCHANGED <<host, input, writer_pc, sample, active, buffer, files, gauges>>

-----------------------------------------------------------------------------
\* What they call.

\* flush_buffer for the given rows, of which it ends in one of three ways:
\* without an active file they stay in the buffer, ...
Keep(rows) ==
  /\ rows = << >> \/ active = None
  /\ buffer' = rows
  /\ UNCHANGED <<inprogress, rows_written, write_errors, active_file_rows>>

\* Mutant of WriteBatch: what has been written stays in the buffer.
WriteBatch_kept(rows) ==
  /\ rows # << >> /\ active # None
  /\ buffer' = rows
  /\ inprogress' = [inprogress EXCEPT ![active].rows = @ \o rows]
  /\ rows_written' = rows_written + Len(rows)
  /\ active_file_rows' = Len(inprogress'[active].rows)
  /\ UNCHANGED write_errors

\* Mutant of WriteBatch: the gauge shows the last batch only.
WriteBatch_gauge(rows) ==
  /\ rows # << >> /\ active # None
  /\ buffer' = << >>
  /\ inprogress' = [inprogress EXCEPT ![active].rows = @ \o rows]
  /\ rows_written' = rows_written + Len(rows)
  /\ active_file_rows' = Len(rows)
  /\ UNCHANGED write_errors

\* ... they are written, ...
WriteBatch(rows) ==
  /\ rows # << >> /\ active # None
  /\ buffer' = << >>
  /\ inprogress' = [inprogress EXCEPT ![active].rows = @ \o rows]
  /\ rows_written' = rows_written + Len(rows)
  /\ active_file_rows' = Len(inprogress'[active].rows)
  /\ UNCHANGED write_errors

\* Mutant of DropBatch: the error is not counted.
DropBatch_silent(rows) ==
  /\ rows # << >> /\ active # None
  /\ "write" \in Faults
  /\ buffer' = << >>
  /\ UNCHANGED <<inprogress, rows_written, write_errors, active_file_rows>>

\* ... or the batch cannot be converted or written, and is dropped.
DropBatch(rows) ==
  /\ rows # << >> /\ active # None
  /\ "write" \in Faults
  /\ buffer' = << >>
  /\ write_errors' = write_errors + 1
  /\ UNCHANGED <<inprogress, rows_written, active_file_rows>>

flush_buffer(rows) == Keep(rows) \/ WriteBatch(rows) \/ DropBatch(rows)

\* run_writer returns an error: the queue, the buffer and the open file go
\* with it, the gauges stay.
Fail ==
  /\ writer_pc' = "failed"
  /\ writer_rx' = << >>
  /\ sample' = None /\ active' = None /\ buffer' = << >>
  /\ UNCHANGED <<writer_loop, gauges>>

\* Mutant of maybe_roll: a file is never rolled.
maybe_roll_never ==
  /\ writer_pc = "rolling"
  /\ writer_pc' = IF active = None /\ sample # None THEN "opening" ELSE "storing"
  /\ UNCHANGED <<host, input, writer_loop, sample, active, buffer, files, gauges>>

\* maybe_roll: nothing to do, or the first half of closing the old file.
\* ensure_active then opens a file if there is a sample to put in it.
maybe_roll ==
  /\ writer_pc = "rolling"
  /\ \/ /\ active # None /\ active.window # clock
        /\ flush_buffer(buffer)
        /\ writer_pc' = "closing"
     \/ /\ active # None /\ active.window = clock
        /\ writer_pc' = "storing"
        /\ UNCHANGED <<buffer, inprogress, gauges>>
     \/ /\ active = None
        /\ writer_pc' = IF sample = None THEN "storing" ELSE "opening"
        /\ UNCHANGED <<buffer, inprogress, gauges>>
  /\ UNCHANGED <<host, input, writer_loop, sample, active, complete, newest,
                 active_file_open>>

\* close_active writes the footer, ...
CloseFile ==
  /\ writer_pc = "closing"
  /\ \/ /\ inprogress' = [inprogress EXCEPT ![active].footer = TRUE]
        /\ writer_pc' = "renaming"
        /\ UNCHANGED <<writer_rx, writer_loop, sample, active, buffer, gauges>>
     \/ /\ "close" \in Faults
        /\ Fail
        /\ UNCHANGED inprogress
  /\ UNCHANGED <<host, writer_dropped, cancelled, complete, newest>>

\* ... and renames the file, replacing whatever has the new name.
RenameFile ==
  /\ writer_pc = "renaming"
  /\ \/ LET file == inprogress[active]
        IN /\ complete' = With(complete, active, file)
           /\ inprogress' = Without(inprogress, active)
           /\ newest' = IF file.rows = << >> THEN newest ELSE file.rows[Len(file.rows)]
           /\ active' = None
           /\ active_file_open' = FALSE /\ active_file_rows' = 0
           /\ writer_pc' = IF writer_loop = "finish" THEN "returning" ELSE "opening"
           /\ UNCHANGED <<writer_rx, writer_loop, sample, buffer, rows_written,
                          write_errors>>
     \/ /\ "rename" \in Faults
        /\ Fail
        /\ UNCHANGED files
  /\ UNCHANGED <<host, writer_dropped, cancelled>>

\* Mutant of Unused: the index runs one too far.
Unused_one_more(window) ==
  {name \in [window : {window}, index : 0 .. MaxFiles] :
     name \notin DOMAIN complete \cup DOMAIN inprogress}

\* Mutant of Unused: only files in progress are looked for.
Unused_inprogress(window) ==
  {name \in Name : name.window = window /\ name \notin DOMAIN inprogress}

\* unique_file_paths: the first name of the window of which neither path exists.
Unused(window) ==
  {name \in Name : name.window = window /\ name \notin DOMAIN complete \cup DOMAIN inprogress}

unique_file_paths(window) ==
  {name \in Unused(window) : \A other \in Unused(window) : name.index <= other.index}

\* open_active reads the clock again.  It fails when no name is left, or when
\* the directory or the file cannot be created; a writer that cannot be set up
\* on the file leaves it behind.
open_active ==
  /\ writer_pc = "opening"
  /\ \/ \E name \in unique_file_paths(clock) :
          LET empty == [rows |-> << >>, footer |-> FALSE]
          IN \/ /\ inprogress' = With(inprogress, name, empty)
                /\ active' = name
                /\ active_file_open' = TRUE /\ active_file_rows' = 0
                /\ writer_pc' = "storing"
                /\ UNCHANGED <<writer_rx, writer_loop, sample, buffer, rows_written,
                               write_errors>>
             \/ /\ "open" \in Faults
                /\ Fail
                /\ inprogress' \in {inprogress, With(inprogress, name, empty)}
     \/ /\ unique_file_paths(clock) = {}
        /\ Fail
        /\ UNCHANGED inprogress
  /\ UNCHANGED <<host, writer_dropped, cancelled, complete, newest>>

\* Mutant of Store: a tick writes full batches only.
Store_full_only ==
  /\ writer_pc = "storing"
  /\ LET rows == IF sample = None THEN buffer ELSE Append(buffer, sample)
     IN \/ /\ Len(rows) >= BatchRows
           /\ flush_buffer(rows)
        \/ /\ Len(rows) < BatchRows
           /\ buffer' = rows
           /\ UNCHANGED <<inprogress, gauges>>
  /\ sample' = None
  /\ writer_pc' = "waiting"
  /\ UNCHANGED <<host, input, writer_loop, active, complete, newest, active_file_open>>

\* The sample is buffered and a full batch written; a tick writes any batch.
Store ==
  /\ writer_pc = "storing"
  /\ LET rows == IF sample = None THEN buffer ELSE Append(buffer, sample)
     IN \/ /\ sample = None \/ Len(rows) >= BatchRows
           /\ flush_buffer(rows)
        \/ /\ sample # None /\ Len(rows) < BatchRows
           /\ buffer' = rows
           /\ UNCHANGED <<inprogress, gauges>>
  /\ sample' = None
  /\ writer_pc' = "waiting"
  /\ UNCHANGED <<host, input, writer_loop, active, complete, newest, active_file_open>>

\* Mutant of Finish: the last batch is not written.
Finish_unflushed ==
  /\ writer_pc = "waiting" /\ writer_loop = "drain"
  /\ writer_rx = << >>
  /\ writer_loop' = "finish"
  /\ writer_pc' = IF active = None THEN "returning" ELSE "closing"
  /\ UNCHANGED <<host, input, sample, active, buffer, files, gauges>>

\* The drain finds the queue empty: the last batch is written and the file
\* closed.
Finish ==
  /\ writer_pc = "waiting" /\ writer_loop = "drain"
  /\ writer_rx = << >>
  /\ flush_buffer(buffer)
  /\ writer_loop' = "finish"
  /\ writer_pc' = IF active = None THEN "returning" ELSE "closing"
  /\ UNCHANGED <<host, input, sample, active, complete, newest, active_file_open>>

\* With the receiver goes whatever was put in the queue since.
Return ==
  /\ writer_pc = "returning"
  /\ writer_pc' = "stopped"
  /\ writer_rx' = << >>
  /\ UNCHANGED <<host, writer_dropped, cancelled, writer_loop, sample, active, buffer,
                 files, gauges>>

WriterStep ==
  \/ Receive \/ FlushTick \/ maybe_roll \/ CloseFile \/ RenameFile \/ open_active
  \/ Store \/ Leave \/ Finish \/ Return

Next == Offer \/ SetClock \/ Cancel \/ Restart \/ WriterStep

Spec == Init /\ [][Next]_vars

-----------------------------------------------------------------------------
RowsOf(directory) ==
  UNION {{file.rows[k] : k \in DOMAIN file.rows} : file \in {directory[n] : n \in DOMAIN directory}}

InHand == (IF sample = None THEN {} ELSE {sample})
            \cup {buffer[k] : k \in DOMAIN buffer}
            \cup {writer_rx[k] : k \in DOMAIN writer_rx}

Missing(samples, found) == Cardinality(samples \ found)

\* What may go with the writer and be counted nowhere: a queue, and with it the
\* sample in hand of a writer that fails.
Uncounted ==
  CASE writer_pc = "failed" -> WriterCapacity + 1
    [] writer_pc = "stopped" -> WriterCapacity
    [] OTHER -> 0

\* What the counters say of the samples that are in no file and on no way to
\* one.  While the writer runs each of them was refused and counted, or was in
\* one of the batches that failed and were counted, at most BatchRows rows
\* each: rolls, full batches, ticks and the second reading of the clock lose
\* none.  A writer that ends, well or because a file cannot be opened, closed
\* or renamed, takes up to Uncounted samples more with it, whatever is offered
\* later; none of the counters shows these.
LossIsBounded ==
  LET missing == Missing(since + 1 .. observed,
                         RowsOf(complete) \cup RowsOf(inprogress) \cup InHand)
  IN /\ writer_dropped <= missing
     /\ missing <= writer_dropped + BatchRows * write_errors + Uncounted

\* What run_writer is said to do ("Write failures are logged and counted but do
\* not block scanner processing."): a writer that an error has ended has
\* counted one.
FailuresAreCounted == writer_pc = "failed" => write_errors > 0

\* A writer that ends as it should has put into completed files all that it
\* was given until the token was cancelled, up to losses that are counted,
\* and leaves no file of its own unfinished
\* (docs/src/routes/docs/reference/cli/+page.md: "finishes the active Parquet
\* file, renames it").
StoppedMeansFinished ==
  writer_pc = "stopped" =>
    /\ Missing(since + 1 .. cancelled, RowsOf(complete))
         <= writer_dropped + BatchRows * write_errors
    /\ RowsOf(inprogress) \cap (since + 1 .. observed) = {}

\* What the metrics page says of the writer's gauges
\* (docs/src/routes/docs/reference/metrics/+page.md) holds whenever the writer
\* waits or has stopped: open or not, the rows in the active file, and all
\* rows written.
GaugesShowTheFile ==
  writer_pc \in {"waiting", "stopped"} =>
    /\ active_file_open = (active # None)
    /\ active_file_rows = IF active = None THEN 0 ELSE Len(inprogress[active].rows)
    /\ rows_written = Cardinality({n \in RowsOf(complete) \cup RowsOf(inprogress) : n > since})

\* Whatever fails and whenever the process is killed, a file that is complete
\* never changes again, and neither does one that an earlier process, or a
\* failed close, has left in progress: no new file takes the name of either.
FilesAreFinal ==
  [][ /\ \A name \in DOMAIN complete :
           name \in DOMAIN complete' /\ complete'[name] = complete[name]
      /\ \A name \in DOMAIN complete' \ DOMAIN complete : complete'[name].footer
      /\ \A name \in DOMAIN inprogress \ {active} :
           name \in DOMAIN inprogress' /\ inprogress'[name] = inprogress[name] ]_vars

\* The completed files are a history: every file appears whole and for good,
\* and no sample is in two of them, across crashes, retries of names and
\* clocks set back.
published == [name \in DOMAIN complete |-> complete[name].rows]

History == INSTANCE History

CompletedFilesAreHistory == History!HistorySpec
=============================================================================

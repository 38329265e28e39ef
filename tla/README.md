# wattdog, specified

TLA+ specifications of wattdog, the daemon that listens to the BLE
advertisements of Thornwave PowerMon meters, keeps their history in Parquet
files, and drives outputs over HTTP when a measurement stays beyond a
threshold. The specifications are model-checked with TLC on small instances;
the theorems are checked with TLAPS for every instance.

`PROJECT.json` maps every definition to the lines it models and lists the
runs, the mutants that show that each property depends on the code, the
hazards and the theorems. Source paths below are relative to the repository.

## The system

The daemon is one process. `main` spawns five tasks, waits for a signal,
cancels one shared token and joins the tasks in a fixed order.

| Component | State | Operations | Hard because |
|---|---|---|---|
| Thresholds (`src/state/condition.rs`, `validate_thresholds` in `src/config.rs`) | none | compare a reading; accept or refuse a pair of thresholds | two orders of `f64`: `total_cmp` and the operators |
| Configuration (`src/config.rs`) | static | load, validate; the steps of a transition | a legacy form and a list of actions behind one interface |
| Runtime state machine (`src/state/machine.rs`) | one record per output: latest reading, desired, applied and pending target, two timers, step, retry, dwell | observe a sample, tick, record a result, record a timeout | timers, dwell, staleness, retries and windows in one record of interdependent fields |
| State engine and tick task (`src/state/engine.rs`, `run_state_tick` in `src/main.rs`) | the records under a mutex; a batch of due actions outside it | once a second: decide under the lock, execute the batch one by one, record each outcome under the lock | the lock is given up during requests; clocks are read outside it; batches are late |
| HTTP action client (`src/action/http.rs`) | a client with a timeout | dry run, send with a deadline, classify the answer | two limits on one poll; lost and late answers |
| Sample processor (`process_samples` in `src/main.rs`) | two bounded queues | feed the engine, hand over to the writer, drain at shutdown | full queues; order of shutdown |
| Parquet writer (`src/parquet_writer.rs`) | row buffer, active file | buffer, flush, roll, close | failures at each step, crash leaves a partial file, roll boundary |
| Scanner and C facade (`src/scanner.rs`, `ffi/thornwave_scan.cc`) | SDK handle, callback and its user data | create, register, start, stop, destroy | the callback runs on the SDK's thread |
| Sample conversion (`src/sample.rs`) | none | normalise sentinels and BCD versions | boundaries |
| Metrics and their server (`src/metrics.rs`, `src/http_server.rs`) | counters and gauges | update, encode, serve | set from every task, next to the state they tell of; the scanner thread reads one back to decide whether to go on |
| Shutdown (`src/shutdown.rs`, `main`) | the token | wait, cancel, join | everyone sees the token at once |

How they interact: the SDK's callback sends samples into a bounded queue; the
processor takes them out, passes each to the engine under its mutex and on to
the writer's queue. The tick task takes the same mutex to decide and to record,
and never holds it across I/O. The engine is the only shared state besides the
metrics.

What makes each component correct:

- thresholds: a pair that is accepted is never satisfied by one reading;
- state machine and engine: a sequence begins only when its condition has held
  for its duration, after the dwell, on fresh data; once begun it is driven to
  its end, each request in order, answered before the next and not repeated
  after it; failures are retried with the documented backoff; an output is
  marked applied only when everything was delivered; results and timeouts are
  credited to the step they are about; it all ends when the daemon is stopped;
- client: a poll never outlives its wait;
- processor and writer: every sample taken in is in a complete file or counted
  as lost; nothing overwrites a file; shutdown drains;
- scanner: no callback after destroy, no use of freed state;
- conversion: sentinels and invalid values never pass as data.

## The modules

| Module | Models | Shape |
|---|---|---|
| `Thresholds` | `condition.rs`, `validate_thresholds` | operators |
| `StateConfig` | the tables of `config.rs` and `Config::validate` | record sets and operators |
| `RuntimeState` | every method of `machine.rs` | operators from the record before a call to the record after it |
| `StateEngine` | `engine.rs`, `run_state_tick`, the client, samples, time | the state machine: one action per atomic step |
| `ActionSequence` | nothing in the code: what one output promises | abstract specification of `StateEngine` |
| `EngineTiming`, `EngineDelivery` | `StateEngine` with a memory of past readings and ticks, or of answers | observers: variables that constrain nothing |
| `EngineLiveness` | fairness and liveness of `StateEngine` | formulas |
| `EngineMetrics` | `StateEngine` with the metrics of a state | each action with the calls of `metrics.rs` it makes |
| `EngineActuator` | `StateEngine` with the switches behind its endpoints | an environment that may act late or twice |
| `ParquetWriter` | `parquet_writer.rs`, its directory, a process that is killed and started | one action per call that may fail |
| `History` | nothing in the code: what the directory promises its reader | abstract specification of `ParquetWriter` |
| `SamplePipeline` | callback, processor, both queues, the token and the joins of `main.rs`, over `ParquetWriter` | composition |
| `SampleConversion` | `sample.rs`, the conversion of the facade, the record batch | operators |
| `ScannerLifecycle` | `scanner.rs`, `thornwave_scan.cc`, the scanner thread of `main.rs`, over `SampleConversion` | two threads and a mutex |
| `MCConfigs` | | the readings, requests and state configurations of the engine's instances |
| `MCStateEngine`, `MCEngineTiming`, `MCEngineDelivery`, `MCEngineMetrics`, `MCEngineActuator`, `MCParquetWriter`, `MCSamplePipeline`, `MCScannerLifecycle` | | instances for TLC |
| `StateEngine_proofs` | | theorems about `StateEngine`, and the lemmas about `Thresholds` and the methods of `RuntimeState` |
| `EngineTiming_proofs`, `EngineDelivery_proofs`, `EngineMetrics_proofs`, `EngineActuator_proofs` | | theorems about the modules over `StateEngine` |
| `ParquetWriter_proofs`, `SamplePipeline_proofs`, `ScannerLifecycle_proofs` | | theorems about the writer, the pipeline, and the scanner with `SampleConversion` |

There are three families of modules: `StateEngine` (which extends `RuntimeState`,
`StateConfig`, `Thresholds`), `SamplePipeline` (which extends `ParquetWriter`)
and `ScannerLifecycle` (which extends `SampleConversion`). What the processor
does with a sample in the engine is `ObserveSample` of `StateEngine`; in
`SamplePipeline` it only waits for the lock. What the callback delivers is
`on_advertisement`, in `ScannerLifecycle` from the side of the threads and the
memory, in `SamplePipeline` from the side of the queue.

### Correspondence: the engine

- **A float** is its position in the order of `total_cmp`: `M` positive floats,
  two zeros, infinities, a NaN at each end. `total_cmp` is the order of the
  integers; `Numeric` and `IsNaN` give the operators of Rust.
- **A runtime state** is the Rust struct, field by field. The two
  `*_condition_started_at` fields are one function of the target; the
  `last_*` diagnostics are left out, since nothing reads them.
- **`tick`** is one operator, with the early returns of the code as its
  branches: no value, sequence in progress, stale, dwell, and `qualify` for the
  rest. `due_sequence_step` recurses once in the code, after an elapsed delay;
  the operator unfolds that one call, because the step it reaches has just
  begun and a validated delay lasts at least a second.
- **An instant** is an integer relative to the present, in units of which `Second`
  make a second; a duration is any number of them. `Elapse` ages every
  instant in the state by one unit; an instant that is `Horizon` old stays
  so. `HorizonAssumption` says that `Horizon` exceeds `stale_after`, which must
  be exceeded, and is no less than every duration that must be reached, so no
  decision can tell the difference; TLC evaluates it for each instance.
- **The tick task** is `pc`: `TakeTick` (the interval is due, the clock is
  read), `Collect` (the lock is had: `collect_due_actions` for all states),
  `Send` or `SkipSend` (`execute` up to the request, dry run or expired
  deadline), `Answer` (any outcome the client can return, at any time within
  the limit), `Record` (the lock is had again: `record_action_result`), `Stop`.
  Between any two of these time may pass, a sample may be observed, the
  token may be cancelled.
- **The interval** is `next_tick`, when its next tick is due: a second later at each
  `TakeTick`, whenever that comes, so that missed ticks are made up in a row as
  tokio's default does.
- **Time and the client**: `Elapse` is disabled only while a request is at its
  limit, since the client ends it then, and while the task has waited `MaxLag`
  units for the lock.

- **Metrics** (`EngineMetrics`): the gauges of a state are one record, set by
  the actions whose code sets them; the counters are what the last step added,
  since a counter only grows.
- **Switches** (`EngineActuator`): an answer of success sets the switch, `output`; any
  other outcome leaves open whether it did, and whether copies of the request
  still will, as often and as late as they like (`given_up`). Each time a request is given up, `late` of its target
  begins to count down from `retry_initial` plus `hold_for`; `stray` remembers that what
  reached the switch last was a copy that came when that was over.

Abstractions: time has a unit, but any (the runs take a second, half a second
and a 256th of one); names, URLs, methods and JSON
pointers are left out; `usize` step indices and `Instant` do not
overflow, `retry_attempt` saturates at `MaxAttempt` as it does at `u32::MAX`.

### Correspondence: from the advertisement to the file

- **A sample** is its number in the order of observation; in
  `ScannerLifecycle` it is what the SDK heard, with the numbers the code only
  passes on opaque.
- **A text** is its bytes, of which a NUL, white space and the two bytes of a longer
  character are told apart, since `copy_string` cuts a text off (within a character,
  if need be), `CStr` ends it at the first NUL, `to_string_lossy` replaces what
  is no character and `trim` removes the blanks around it. Characters of three or
  four bytes and white space of more than one are left out. A decoded version is the
  sequence of its digits, without the point between them.
- **The network families** are constants of the SDK's headers, which the repository does not
  contain: `NetworkRevisions` is a parameter, and `FamiliesAgree` says that they
  are the two that `address_kind` has literals for.
- **The clock** of the writer is the roll window (`roll_key`) it falls in. It is
  the host's wall clock and may be set back.
- **The directory** is two functions, `complete` and `inprogress`, of the name
  that `unique_file_paths` forms from window and index. A file is its rows and
  whether it has a footer.
- **`run_writer`** is `writer_pc` with `writer_loop`: `Receive` or `FlushTick`
  (the branches of the `select!`), then the calls `store_sample` and
  `maybe_flush` make, in their order: `maybe_roll`, `CloseFile`, `RenameFile`,
  `open_active`, `Store`; `Leave` and `Finish` are the cancelled branch with its drain, and
  the final close. A call in `Faults` may fail, and the error takes the way the
  code gives it: with `?` out of the task (`Return`). Between two of these steps
  the processor may offer a sample, the token may be cancelled, the process may
  be killed. `Restart` keeps the files and nothing else.
- **The processor** is `TakeSample`, `HandOver` (the lock is had; `try_send` to
  the writer), `LeaveLoop`, `Drained`, `EndProcessor`. Its `select!` is biased
  with the samples first, so `LeaveLoop` needs an empty queue. Between
  `Drained` and `EndProcessor` the receiver still takes samples which nobody
  will look at.
- **`main`** is the number of the handle it awaits in `Joins`. The scanner
  thread is told by the same token, four times a second.
- **The scanner** has two threads. The scanner thread is `pc`, one step per
  call: create, store and register the callback, start, look at the gauge, wait
  for the token, stop, and `tw_scanner_destroy` with its four steps. The SDK's
  thread is `callback_pc`: it waits for the facade's mutex, holds it while it is in
  Rust, and returns. Each call of the SDK may throw. Whether the destructor
  of the SDK's scanner waits for a callback under way is not
  documented; `sdk_waits` is either.

## What the runs show

| Run | Instance | Properties |
|---|---|---|
| `delivery` | in half seconds, one output with requests, a delay, a retry wait and a continue wait; real and dry runs; late clock | `TypeOK`, `IdleOrInSequence`, `NeverAmbiguous`, `RetryIsNear`, `AppliedMeansDelivered`, `SentInOrderAndOnce`, `RetriesAreSpaced` |
| `two_outputs` | two outputs on one meter, a stranger's samples, requests of up to two seconds before polls with a two-second window; metrics; no assumption on endpoints | `DueActionsAreCurrent`, `PollEndsByDeadline`, `SequencesAreAtomic`, `GaugesShowTheState`, `CountersCountEverything`, `ShutdownEndsTask`, `ContinuingWaitsEnd` |
| `actuator` | one output with several requests per sequence, any of which may act late and more than once; real and dry runs | `SwitchIsAsApplied` |
| `timing` | one output with durations on both sides, a dwell and a retry wait on one, staleness, start-up, late clock; fair endpoints | `HeldAtEveryTick`, `DwellThenDuration`, `DefaultOnlyAtStartup`, `SequencesComplete`, `SustainedReadingIsApplied` |
| `writer` | every call may fail, the clock may be set back, one kill and restart | `TypeOK`, `LossIsBounded`, `StoppedMeansFinished`, `GaugesShowTheFile`, `FilesAreFinal`, `CompletedFilesAreHistory` |
| `pipeline` | scanner, processor, writer and `main`, a file that cannot be created | `EveryObservationIsAccounted`, `ExitIsComplete`, `RowsAreNeverEarly`, `BufferedRowsAreWritten`, `DaemonStops` |
| `scanner` | every call of the SDK may throw, advertisements at the ends of every range | `LifecycleTypeOK`, `NoCallbackOnceDisabled`, `NoUseAfterFree`, `GaugesShowTheScanner`, `RowsSayWhatWasAdvertised`, `ScannerEnds` |
| `readings` | as `timing` | `HeldAtEveryReading`: violated |
| `split_zero` | thresholds `-0.0` and `0.0` | `NeverAmbiguous`: violated |
| `backoff_cap` | one output that is heard once and answered at once, in 256ths of a second; `retry_max` 1025 times `retry_initial` | `RetriesKeepDoubling`: violated |
| `failed_call` | as `writer` | `FailuresAreCounted`: violated |
| `drain` | as `pipeline`, with queues of two, no fault | `QueuesAreDrained`: violated |

What they show, beyond the engine's rules listed above:

- from a state's first tick on its gauges show what the engine acts on, but for
  the retry delay, which is as old as the last tick or result; every applied
  transition and every window that passes is counted, once (`two_outputs`);
- a request that has failed `n` times is sent again no sooner than the `n`-th
  documented delay later, up to the eleventh, and then no sooner than that
  (`delivery`; past the eleventh, the theorem);
- an idle output's switch is where the engine believes it to be, although
  requests are repeated of which copies may still arrive at any time, unless it only
  dry-runs. The one exception is a copy that comes `retry_initial` and `hold_for`
  or more after it was given up: that one undoes a later transition, and the engine
  never learns of it. Any earlier copy, however many there are and whatever the
  engine does meanwhile, leaves the switch as applied (`actuator`);
- while the writer runs, a row is in memory, in a file, or counted, as dropped or with a
  write error. When the writer ends, up to a queue goes with it that no counter shows, and
  if a call has failed, the sample in hand too. Files appear whole and stay; one that a crash or a
  failed close left in progress is never touched again (`writer`);
- a sample may be filed under a later window than it was observed in, since
  the writer looks at the clock when it takes the sample, but never under an
  earlier one while the clock is not set back (`pipeline`);
- the daemon ends once it is told to, even if the writer failed long before, and
  nothing is left on its way when it does (`pipeline`);
- every column of a row says what was advertised (`scanner`);
- `tw_scanner_destroy` neither waits for ever on a callback nor lets one into
  Rust afterwards. That the facade's handle is not used after it is deleted
  rests on the SDK: `NoUseAfterFree` has the premise `sdk_waits` (`scanner`).

Every property of a passing run has a mutant in its module: the definition
as a plausible slip would have it, under which TLC finds the property violated.

### Bounds

- Readings are low, neutral and high: the engine only compares a reading with
  two thresholds. `split_zero` adds the floats around the zeros.
- `MaxOverdue` bounds how far a tick can be overdue: beyond it one missed tick is
  forgotten, and the next is due when it would be. It is 0 or 1: a second
  overdue tick finds the same state as the first within the same second, since the
  task takes one at a time.
- `MaxLag` = 1 where clocks are compared with instants recorded meanwhile
  (`delivery`, `timing`, `actuator`), 0 where the property does not depend on
  it and the instance has two outputs.
- `RequestTimeout` of 1 or 2 against windows of 1, 2 and 4: shorter than, as long
  as and longer than what is left of the window when a poll is sent.
- `Second` = 2, `RetryInitial` = 1, `RetryMax` = 3, `MaxAttempt` = 3 in `delivery`: the
  first delay, half a second, a doubling, `retry_max`, which is no multiple of
  it, and the saturated counter all occur, between ticks and on them.
- `backoff_cap` needs eleven failures and delays of a thousand
  units: `Second` = 256, `RetryInitial` = 1 (about 4 ms), `RetryMax` = 1025 (about
  4 s, within the 5 s the validator allows). `HeardOnceSpec` restricts the
  environment to one reading, as a tick is due, and an endpoint that answers as soon as it
  is asked; the engine is as in `DeliverySpec`.
- Durations, dwells and `stale_after` of 0, 1 and 2 are enough to order any
  two of them either way.
- `timing`: the last request of a transition may be answered as the next tick is due, so a
  tick falls within the dwell of 1.
- `actuator`: `MaxOverdue` and `MaxLag` = 1 and a dwell of 1 on both sides, so that a
  copy can be late within a retry, a dwell and after both; sequences of one request and of two
  with a poll between them.
- `writer`: a queue and a batch of two, so both can be full and not; two
  windows and two file indices per window, so the directory's names run out
  (in the code after a thousand); four samples fill a batch, roll, and start
  another; one restart.
- `pipeline` has queues of one, so each is full at once, and one index; its
  failing call is the one that ends the task with rows in the buffer, since `writer`
  has covered the others. `drain` has queues of two for two
  samples and no fault, so nothing else can be to blame for the loss.
- `scanner`: six advertisements, with both ends of each range that
  `sample.rs` tells apart, each family of hardware, versions that are not decimal in
  each of their digits, and, for arrays of five bytes, texts that are empty, blank, within blanks, cut
  off by a NUL, just fit and do not, with a character of two bytes whole, cut by the
  limit and broken.
- Checking for deadlock is on in the engine's runs and in `writer`, where time
  or the host always moves. `pipeline`, `drain` and `scanner` end, as the daemon and
  the scanner thread do, and `DaemonStops` and `ScannerEnds` say that they do.

### Fairness

`TaskFairness`: time passes; the task takes a step when it can (the mutex is
fair and is never held across I/O; tokio runs a task that is ready); a request
ends, because the client has a timeout. `Stop` is strongly fair: it is enabled
only between two batches, and the `select!` there has no `biased`, so tokio
picks among the ready branches at random. This is all that `two_outputs`
assumes: of samples and answers, nothing.

`EndpointFairness` and `AtLastPunctual` are assumptions on the world, used only
by `timing`: an endpoint asked for ever answers at last as the step wants and
before the deadline, and from some time on the task is no longer late. Without
the second, every window of a short wait could close before its first poll.

`SamplePipeline!Fairness`: each task is run when it can go on and the SDK's stop
returns. Both `select!`s are biased: the processor's looks at its samples first and at its
cancellation last, the writer's at its samples, then its flush tick, then the
cancellation. Samples could keep each of them from its other branches; they
do not, because they end with the scanner, which the token stops too
(`MaxSamples` bounds them in the model, and `StopScanner` in both). The flush tick is
ready only every ten seconds and cannot keep the writer from its cancellation, nor
a cancellation that is not there keep it from the tick: hence strong fairness of
`Leave` and of `FlushTick`, both of which need an empty queue.

`LiveLifecycleSpec`: both threads run, and a mutex that is free again and again
is had. The callback ends because it only converts and tries to send.

### Disagreements with the documentation

- `readings`: the thresholds page says that a single reading that breaks a
  condition resets its timer. `tick` sees only the latest reading once a
  second; a reading between two ticks that is followed by another one does
  not count. `HeldAtEveryTick` is the rule the code does follow.
- `split_zero`: the thresholds and metrics pages say that no valid
  configuration can become ambiguous. `total_cmp` orders `-0.0` before `0.0`,
  so `>= 0.0` and `<= -0.0` pass the validator, and a reading of zero
  satisfies both. The output then stays as it is.
- `backoff_cap`: the thresholds page lets the delay double up to `retry_max`. `backoff`
  stops after ten doublings, so a `retry_max` of more than 1024 times
  `retry_initial` is never reached. (It takes a `retry_initial` below 5 ms, which the
  validator accepts.) `RetriesAreSpaced` says what does hold.
- `failed_call`: `run_writer`'s comment says that write failures are logged and counted,
  and the metrics page takes the counter for the gaps of the history. A file that cannot
  be opened, closed or renamed ends the task, logged by `main` and counted nowhere.
  `LossIsBounded` says how much goes with it.
- `convert_advertisement`: the Parquet page describes `address_display` as the Bluetooth address.
  For a network meter the facade fills it with the IP address, as the comment in
  `src/sample.rs` says. `RowsSayWhatWasAdvertised` follows the code; no run is
  needed to see it, since `convert_advertisement` says so.
- `drain`: `src/shutdown.rs` promises that queues are drained and data in flight
  flushed. One token cancels processor and writer at once, and each drains its
  own queue; a writer that finds its queue empty closes its file and ends, and
  what the processor then hands over is dropped (and counted).

Also met, and not a disagreement: with several outputs, one whose requests take
the whole `[http].timeout` in every tick can keep a later output's poll from
being sent before its window closes, again and again. The documentation accepts
delays of that length; `timing`, where `SequencesComplete` is checked, has one output.

Differences between a description and the code that need no run, each visible
in one definition: the attempts counted as HTTP requests include dry runs and
polls that were never sent; `state_transitions` counts a target when it has
been applied, not when it was desired; `parquet_active_file_open` stays 1 after
a close that failed; and `writer_dropped` also counts what was offered to a
writer that is gone.

## What is proved

Of the engine, for every configuration `Config::validate` accepts, any number
of outputs, any samples and any bounds:

| Theorem | States |
|---|---|
| `NoReadingSatisfiesBoth` | accepted thresholds exclude each other, but for the two zeros |
| `StateEngine_proofs!TypeCorrect` | `Spec => []TypeOK` |
| `SequencesConsistent` | `Spec => []IdleOrInSequence` |
| `ResultsAreNeverStale` | `Spec => []DueActionsAreCurrent` |
| `PollsEndInTime` | `Spec => []PollEndsByDeadline` |
| `AmbiguityUnreachable` | `Spec => []NeverAmbiguous`, if no output's thresholds are the two zeros |
| `EngineImplementsSequences` | `Spec => SequencesAreAtomic`: every output implements `ActionSequence` |
| `RetriesAreNear` | `DeliverySpec => []RetryIsNear` |
| `AppliedIsDelivered` | `DeliverySpec => AppliedMeansDelivered` |
| `RequestsInOrderAndOnce` | `DeliverySpec => SentInOrderAndOnce` |
| `RetriesKeepTheirDelay` | `DeliverySpec => RetriesAreSpaced` |
| `ConditionsAreHeld` | `TimingSpec => HeldAtEveryTick` |
| `DwellsAreKept` | `TimingSpec => DwellThenDuration` |
| `DefaultEndsWithStartup` | `TimingSpec => DefaultOnlyAtStartup` |
| `SwitchesFollowTheEngine` | `ActuatorSpec => []SwitchIsAsApplied` |
| `EngineMetrics_proofs!GaugesAreTrue` | `MetricsSpec => []GaugesShowTheState` |
| `CountersAreComplete` | `MetricsSpec => CountersCountEverything` |

Of the writer and the pipeline before it, for any capacities, windows, faults
and number of restarts, and of the scanner, for any advertisements:

| Theorem | States |
|---|---|
| `ParquetWriter_proofs!TypeCorrect` | `Spec => []TypeOK` |
| `NoFileIsLost` | `Spec => FilesAreFinal` |
| `WriterImplementsHistory` | `Spec => CompletedFilesAreHistory`: the writer implements `History` |
| `LossesAreBounded` | `Spec => []LossIsBounded` |
| `StopIsFinished` | `Spec => []StoppedMeansFinished` |
| `ParquetWriter_proofs!GaugesAreTrue` | `Spec => []GaugesShowTheFile` |
| `ExitsWithEverything` | `PipelineSpec => []ExitIsComplete` |
| `RowsFollowTheirTime` | `PipelineSpec => []RowsAreNeverEarly`, while the clock is not set back |
| `PipelineImplementsHistory` | `PipelineSpec => CompletedFilesAreHistory`: so does the writer behind the queues |
| `PipelineKeepsFiles` | `PipelineSpec => FilesAreFinal`, |
| `PipelineGaugesAreTrue` | and `PipelineSpec => []GaugesShowTheFile` |
| `ObservationsAreAccounted` | `PipelineSpec => []EveryObservationIsAccounted` |
| `LifecycleTypeCorrect` | `LifecycleSpec => []LifecycleTypeOK` |
| `CallbacksEnd` | `LifecycleSpec => []NoCallbackOnceDisabled` |
| `MemoryIsSafe` | `LifecycleSpec => []NoUseAfterFree` |
| `ScannerLifecycle_proofs!GaugesAreTrue` | `LifecycleSpec => []GaugesShowTheScanner` |
| `RowsAreTrue` | `LifecycleSpec => []RowsSayWhatWasAdvertised` |

Assumptions: the named `ASSUME`s of the modules, which restate
`Config::validate`, the types of the C interface and the ranges of the bounds; TLC
evaluates each of them in the runs. Nothing is assumed of the world in which an
output is switched.

The argument. `StateEngine_proofs` shows method by method that `StateOK` is
preserved: a record is well typed and either idle with nothing left behind or
running on a valid step of a valid transition; and that a method makes at most
one move of the sequence. `StateOK` is stronger than `IdleOrInSequence` in what
the tick task needs to go on: the types and the validity of the step.
It lifts this to all states (`ObserveOne`, `OlderOne`, `CollectOne`,
`RecordOne`) and adds what holds between the task and the states:

- `DueActionsAreCurrent`, inductive because nothing but `Collect`, for a state
  with no due action, and `Record`, which removes it, moves a state;
- `Control`: no due actions outside a batch; a clock reading where one is used;
  and the limit of a request in flight not beyond its deadline, which makes
  `PollEndsByDeadline` inductive under `Elapse`.

`IInv` is the conjunction; `InitIInv` and one lemma per action establish it.
`EachMoves` then gives the refinement and `AmbiguityUnreachable`.

The observers' theorems start from `StateEngine`'s `IInv` and add what relates
the memory to the record:

- `EngineDelivery_proofs`: `NearInv` bounds `next_retry_at` by the greatest
  delay, which `Elapse` only brings nearer. `DeliveredInv` says that the
  requests before the current step of a sequence have all been answered with success since
  it began, which is why neither a skipped nor a repeated request is
  possible, and why a sequence that ends has delivered everything.
  `SpacedInv` says of a state on a request that the failures of the memory are
  those the code counts, and that `next_retry_at` is at least the documented
  delay after the last of them, unless that failure is `Horizon` old and the memory
  has stopped counting; `RetryHorizonAssumption` makes even the greatest delay end
  by then. That `backoff` is the documented delay (`BackoffDocumented`) is a fact about
  powers of two: `DoublingsGrow` has them grow, so that the maximum, once reached, stays,
  and `DelayBounds` compares the counter, which starts at 0 and saturates, with the
  number of the failure, for any `retry_initial` and `retry_max`. It also needs that only
  polls are answered "pending": a request is not put off for any other reason.
- `EngineTiming_proofs`: `HeldAtEveryTick` speaks of ticks, the code of timers.
  `TimingInv` ties them together, state by state (`Timed`): the timer of an
  idle state is no older than the last tick that saw its condition broken, nor
  than the end of its dwell; and the clock that `tick` is given is at most
  `MaxLag` behind the present (`Clock`). The saturation at `Horizon` needs care: an
  instant that old no longer tells its age, which is why `HorizonAssumption`
  is part of the argument.

- `EngineActuator_proofs`: `SwitchIsAsApplied` speaks of idle outputs; what can
  undo it is sent while an output is pending. `ActuatorInv` therefore says of every output, by
  its phase, of which requests a copy would still be in time (`late`), and until when. When it
  is idle (`Settled`), only of those that set it, and not beyond the end of its dwell. When
  it is pending (`Driving`), only of those to its target: not beyond the dwell that will
  follow, and after a failure one retry more, for which `next_retry_at` puts the request
  off; while an answer waits to be recorded (`News`), that is counted from the
  clock the task has read, which `record_action_result` uses for the dwell and the delay. And once a
  request of the sequence has succeeded (`HasSet`), the switch is set, unless a stray copy has
  come since. An opposite request is sent only after the dwell, when every copy left
  is a stray. So the theorem needs no assumption on how long a copy can take; the exception
  is in the property, where the code leaves it open.
- `EngineMetrics_proofs`: `GaugesInv` says that the gauges of a state, once it has
  some, are `Status` of its record but for the retry delay, whatever the instant
  they were set at (`StatusShows`), and that no sample, second or answer
  changes what they show (`ObserveShown`, `OlderShown`). The gauge of
  a pending transition agrees with the step and with desired and applied because
  `StateOK` says so of the record. For the counters two facts about the methods are
  needed: `tick` decides for a timeout exactly if the window is over
  (`TickTimesOut`), and recording one ends the wait or opens a window to
  come (`TimeoutEndsWindow`), so that the next tick does not count it again.

`ParquetWriter_proofs`: a file is final because a name is only used when neither
of its paths exists (`ActiveOK`: the active file, and no other, is the one
being written), and `History` is implemented because the rows of all completed
files, the active file, the buffer, the sample in hand and the queue
are in the order of observation, cut at file boundaries (`InOrder`, `Cuts`),
across a kill and a restart. `IInv` says so of all rows up to some `d`
(`Ready(d)`), not beyond what was observed; what the writer does is shown for any
`d`, so that the same lemmas serve the pipeline.

Four more invariants stand on it. `Counted`: a step of the writer keeps all that was
found, or loses at most one batch with one error (`LosesABatch`), which needs
that the buffer never holds a whole batch and that a sample in hand has a file to
go to (`HandsOK`). `GoneInv` goes on where the writer ends: what it held is lost, a queue
and, if it failed, a sample (`Uncounted`), and everything offered from then on is refused and
counted (`OneMoreRefused`). `EndInv`: a file in progress that is not the active one is
of an earlier process, nothing is buffered while there is no file or it is being
closed, and once the drain is over what is still in the queue was observed
after the cancellation. `GaugeInv`: whatever is yet to be written is newer than
all that is completed, so that `rows_written` counts each row once.

`SamplePipeline_proofs`: `PipelineInv` extends that order back through the
processor's sample and its queue (`PipelineInOrder`), which gives the
refinement for the composition. `AllTimely` is what `RowsAreNeverEarly` needs to
be inductive: not only the rows of the files, but whatever may still become a row of
the active file, wherever it waits, is checked against the window it would be
written in, and nothing was observed later than the clock now shows.
`PipelineCounted` adds to `Counted` that a sample is with the processor or with
the writer and never with both. Nothing but the writer changes a file
(`OnlyTheWriter`), so that `StepIsFinal` and `StepGauges` of the writer give
`PipelineKeepsFiles` and `PipelineGaugesAreTrue`. `LossIsBounded` and
`StoppedMeansFinished` do not carry over as they are: behind the processor a sample
has been observed before it is offered. Their counterparts are
`EveryObservationIsAccounted`, while both tasks run, and `ExitIsComplete`, when main
returns. `ExitInv` has what the latter takes: which task has ended by the time its
handle is awaited (`Leaving`), what a writer that is gone has left behind (`WriterLeft`), and
of what was observed before the cancellation no more missing than
counted and gone with the writer (`LostDue`, `Allowed`). That a writer may end, although no
call failed, before all this has reached it is the subject of `drain`.

`ScannerLifecycle_proofs`: `IInv` has the control points at which each resource exists
(`Control`, `Ownership`), that the mutex has one holder (`Exclusion`), what is true
once `alive` is false (`Quiet`), and the gauges (`Reported`). `TypeInv` adds that a
thread in the callback has heard an advertisement; what was delivered last is one too, and the
rest of `RowsAreTrue` is about the conversion. `Columns` and `Arrays` compare the thirty
columns with the thirty arrays, position by position, from which `ColumnIsField`
gives for any sample that the column of a name holds the field of that name.
`CopyRead` and `TextShown` follow a text through the array and out of it: a byte that
is read is one the array had room for and before any NUL, and it is replaced exactly when
the other half of its character is not; this holds for an array of any size, at least one
(`SizeAssumption`). `VersionDecoded` and `RevisionDecoded` say that the digits shown
make up the number, and that none are missing when they are decimal. `AddressKind` compares the two
decisions on the kind of an address, under the premise `FamiliesAgree`.
The other assumptions are what the C types of `TwAdvertisement` say: bytes and words
(`AdvertisementAssumption`), and nothing missing (`NullAssumption`).

Only model-checked: all liveness (`ShutdownEndsTask`, `ContinuingWaitsEnd`,
`SequencesComplete`, `SustainedReadingIsApplied`, `BufferedRowsAreWritten`,
`DaemonStops`, `ScannerEnds`), which is beyond TLAPS. Every invariant and every
action property that a passing run checks is a theorem.

## Plan

1. Done: thresholds, configuration, state machine, engine, client, time,
   switches and metrics of the states; writer, pipeline, conversion, scanner;
   the theorems above.
2. A bound on how long one output's slow requests can starve another's polls,
   and `SequencesComplete` with two outputs under it.

## Not modelled

- The metrics registry, its text encoding and the gauges of each device: written
  and served, never read back by the code. The HTTP server is two stateless
  handlers and a graceful shutdown; in `SamplePipeline` it is a handle that is
  joined.
- The building of a request (method, URL, credentials) and the comparison of an
  answer with the expected status and JSON value: of these the models have the
  outcome, which is any.
- The loading of the TOML file, URLs and their schemes, JSON pointers, names;
  the command line, the build script, the systemd unit and packaging.
- The insides of the Thornwave SDK, of tokio, of reqwest and of the Arrow and
  Parquet writers, of which the models take what the code relies on: calls that may
  fail, queues that are bounded, a file without a footer until it is closed.

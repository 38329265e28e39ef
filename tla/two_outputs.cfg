SPECIFICATION LiveMetricsSpec
CONSTANTS
  M = 4
  Second = 1
  RetryInitial = 1
  RetryMax = 1
  None = None
  MaxAttempt = 1
  Config <- TwoOutputs
  Samples <- TwoMeters
  RequestTimeout = 2
  DryRuns = {FALSE}
  MaxOverdue = 0
  MaxLag = 0
  Horizon = 2
INVARIANTS
  DueActionsAreCurrent
  PollEndsByDeadline
  GaugesShowTheState
PROPERTIES
  SequencesAreAtomic
  CountersCountEverything
  ShutdownEndsTask
  ContinuingWaitsEnd

SPECIFICATION TimingSpec
CONSTANTS
  M = 4
  Second = 1
  RetryInitial = 1
  RetryMax = 2
  None = None
  MaxAttempt = 1
  Config <- Dwelling
  Samples <- OneMeter
  RequestTimeout = 1
  DryRuns = {FALSE}
  MaxOverdue = 0
  MaxLag = 0
  Horizon = 3
PROPERTIES
  HeldAtEveryReading

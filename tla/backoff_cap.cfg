SPECIFICATION HeardOnceSpec
CONSTANTS
  M = 4
  Second = 256
  RetryInitial = 1
  RetryMax = 1025
  None = None
  MaxAttempt = 12
  Config <- Breaker
  Samples <- OneReading
  RequestTimeout = 1
  DryRuns = {FALSE}
  MaxOverdue = 0
  MaxLag = 0
  Horizon = 1025
PROPERTIES
  RetriesKeepDoubling

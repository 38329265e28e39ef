SPECIFICATION ActuatorSpec
CONSTANTS
  M = 4
  Second = 1
  RetryInitial = 1
  RetryMax = 2
  None = None
  MaxAttempt = 2
  Config <- Breaker
  Samples <- LowAndHigh
  RequestTimeout = 1
  DryRuns = {FALSE, TRUE}
  MaxOverdue = 1
  MaxLag = 1
  Horizon = 3
INVARIANTS
  SwitchIsAsApplied

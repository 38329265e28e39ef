SPECIFICATION DeliverySpec
CONSTANTS
  M = 4
  Second = 2
  RetryInitial = 1
  RetryMax = 3
  None = None
  MaxAttempt = 3
  Config <- Machine
  Samples <- OneMeter
  RequestTimeout = 1
  DryRuns = {FALSE, TRUE}
  MaxOverdue = 0
  MaxLag = 1
  Horizon = 5
INVARIANTS
  TypeOK
  IdleOrInSequence
  NeverAmbiguous
  RetryIsNear
PROPERTIES
  AppliedMeansDelivered
  SentInOrderAndOnce
  RetriesAreSpaced

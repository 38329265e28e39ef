SPECIFICATION LivePipelineSpec
CONSTANTS
  None = None
  SampleCapacity = 1
  WriterCapacity = 1
  BatchRows = 2
  MaxFiles = 1
  Windows <- TwoHours
  Faults <- Unwritable
  MaxSamples = 2
  MaxRestarts = 0
INVARIANTS
  EveryObservationIsAccounted
  ExitIsComplete
  RowsAreNeverEarly
PROPERTIES
  BufferedRowsAreWritten
  DaemonStops
CHECK_DEADLOCK FALSE

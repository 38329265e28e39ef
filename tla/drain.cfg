SPECIFICATION PipelineSpec
CONSTANTS
  None = None
  SampleCapacity = 2
  WriterCapacity = 2
  BatchRows = 2
  MaxFiles = 2
  Windows <- OneHour
  Faults <- NoFault
  MaxSamples = 2
  MaxRestarts = 0
INVARIANTS
  QueuesAreDrained
CHECK_DEADLOCK FALSE

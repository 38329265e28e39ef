SPECIFICATION LiveLifecycleSpec
CONSTANTS
  None = None
  Null = Null
  NetworkRevisions <- Network
  TextSize = 5
  Advertisements <- Edges
INVARIANTS
  LifecycleTypeOK
  NoCallbackOnceDisabled
  NoUseAfterFree
  GaugesShowTheScanner
  RowsSayWhatWasAdvertised
PROPERTIES
  ScannerEnds
CHECK_DEADLOCK FALSE

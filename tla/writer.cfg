SPECIFICATION Spec
CONSTANTS
  None = None
  WriterCapacity = 2
  BatchRows = 2
  MaxFiles = 2
  Windows <- TwoHours
  Faults <- AnyCall
  MaxSamples = 4
  MaxRestarts = 1
INVARIANTS
  TypeOK
  
  StoppedMeansFinished
  GaugesShowTheFile
PROPERTIES
  FilesAreFinal
  CompletedFilesAreHistory

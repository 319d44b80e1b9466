SPECIFICATION Spec
CONSTANTS
  N = 1
  Measurements <- MCMeasurements
  Counts = {1, 2}
  Saves = {1, 2}
  MaxReads = 2
  MaxPipes = 2
  MaxCancels = 1
  MaxFails = 1
INVARIANTS
  TypeOK
  SavesAllButTheLast
  AsynchronousIsDefined
PROPERTIES
  AveragesAreWhole
  SyncReadReturns
CHECK_DEADLOCK FALSE

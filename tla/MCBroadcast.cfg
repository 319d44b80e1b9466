SPECIFICATION Spec
CONSTANTS
  N = 2
  Counts = {1, 2}
  MaxReads = 2
  MaxLost = 1
INVARIANTS
  TypeOK
  Synchronous
PROPERTIES
  BroadcastEnds
CHECK_DEADLOCK FALSE

SPECIFICATION Spec
CONSTANTS
  N = 2
  PoolSize = 2
  MaxCalls = 2
  MaxReads = 0
  MaxChanges = 1
INVARIANTS
  TypeOK
  StartedOnce
  ClosedIsReported
CHECK_DEADLOCK FALSE

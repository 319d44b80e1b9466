SPECIFICATION Spec
CONSTANTS
  N = 1
  PoolSize = 1
  MaxCalls = 1
  MaxReads = 1
  MaxChanges = 0
PROPERTIES
  ReportsConverge
CHECK_DEADLOCK FALSE

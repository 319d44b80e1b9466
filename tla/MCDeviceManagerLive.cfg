SPECIFICATION Spec
CONSTANTS
  N = 2
  PoolSize = 1
  MaxCalls = 1
  MaxReads = 1
  MaxChanges = 1
PROPERTIES
  CallsReturn
  StoredConverges
CHECK_DEADLOCK FALSE

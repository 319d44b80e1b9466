SPECIFICATION Spec
CONSTANTS
  N = 1
  PoolSize = 2
  InError = {"read", "cancel_reading", "write_cr"}
  MaxReads = 1
  MaxErrors = 1
  MaxFrames = 1
  MaxReports = 1
  MaxCalls = 1
INVARIANTS
  TypeOK
  LockOrder
  QuietAfterDisconnect
PROPERTIES
  CallsReturn
CHECK_DEADLOCK FALSE

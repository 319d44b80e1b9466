SPECIFICATION Spec
CONSTANTS
  BufferSize = 2
  Measurements <- SkippingMeasurements
  SlowDevice = TRUE
  MaxReads = 2
  MaxCancels = 1
  MaxCommands = 0
  MaxFrames = 4
INVARIANTS
  DeliveryInOrder
PROPERTIES
  FilterComesBack
  DisconnectReturns
CHECK_DEADLOCK FALSE

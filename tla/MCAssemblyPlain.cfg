SPECIFICATION Spec
CONSTANTS
  BufferSize = 3
  Measurements <- PlainMeasurements
  SlowDevice = FALSE
  MaxReads = 2
  MaxCancels = 0
  MaxCommands = 1
  MaxFrames = 4
INVARIANTS
  TypeOK
  FrameNumbers
  DoneIsComplete
  QuietWhenIdle
  CommandsFindDeviceIdle
PROPERTIES
  ReadingsEnd
CHECK_DEADLOCK FALSE

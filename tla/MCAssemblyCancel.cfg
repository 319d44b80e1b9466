SPECIFICATION Spec
CONSTANTS
  BufferSize = 3
  Measurements <- TwoFrames
  SlowDevice = FALSE
  MaxReads = 2
  MaxCancels = 1
  MaxCommands = 0
  MaxFrames = 4
INVARIANTS
  FrameNumbers
CHECK_DEADLOCK FALSE

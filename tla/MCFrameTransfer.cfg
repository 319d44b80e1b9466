SPECIFICATION Spec
CONSTANTS
  BufferSize = 3
  MaxFrames = 8
INVARIANTS
  TypeOK
  ExactDelivery
  WriterOwnsItsSlot
  RingInv
PROPERTIES
  ChannelSpec
CHECK_DEADLOCK FALSE

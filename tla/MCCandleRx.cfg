CONSTANTS
  UrbCount = 3
  MaxFrames = 4
  MaxRefusals = 2
SPECIFICATION Spec
INVARIANTS
  TypeOK
  BufferOwned
  LossAccounted
  RingAccounted
PROPERTIES
  HeldFramesLeave
  ImplementsChannel
\* The adapter may fall silent.
CHECK_DEADLOCK FALSE

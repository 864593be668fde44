CONSTANTS
  UrbCount = 3
  MaxFrames = 5
SPECIFICATION Spec
INVARIANTS
  TypeOK
  BufferOwned
  WireInOrder
PROPERTIES
  WedgedForGood
  SendReturns
  ImplementsChannel
\* The caller may stop calling.
CHECK_DEADLOCK FALSE

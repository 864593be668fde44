CONSTANTS
  MaxMsgs = 4
  MaxSlots = 16
SPECIFICATION Spec
INVARIANTS
  NeverUnderflows
  ExactUntilOverlap
PROPERTIES
  DrainedUntilOverlap
\* Messages need not come.
CHECK_DEADLOCK FALSE

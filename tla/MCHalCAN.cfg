CONSTANTS
  MaxDevices = 3
  UrbCount = 2
SPECIFICATION Spec
INVARIANTS
  TypeOK
  ClosedOnce
  HandlesAccounted
  DriverIsOpen
  FirstAdapterUsed
\* The program ends.
CHECK_DEADLOCK FALSE

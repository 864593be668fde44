CONSTANTS
  Gauge = {g1}
  Reading = {1, 2}
  Window = 4
  PollEvery = 2
  StampMod = 5
  MaxGrow = 1
SPECIFICATION Spec
INVARIANTS
  TypeOK
  ConnectedWasHeard
  HeardIsConnected
  ShownIsLast

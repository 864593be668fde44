CONSTANTS
  Gauge = {g1, g2}
  Reading = {1}
  Window = 2
  PollEvery = 1
  StampMod = 10
  MaxGrow = 0
SPECIFICATION Spec
INVARIANTS
  ConnectedWasHeard

CONSTANTS
  Thread = {t1, t2}
  NaN = 2000
  MinTime = 10
  MaxTime = 999
  Mode = {1}
  SampleTime = {2000}
  Roi = {r}
  DefaultTime = 100
  DefaultRoi = full
  ReceiveEvery = 2
  ConfigEvery = 3
  PollEvery = 2
  Wrap = 3
  MaxSets = 2
  MaxTroubles = 1
  MaxTears = 1
SPECIFICATION Spec
INVARIANTS
  TypeOK
  SettingsBackInTime
PROPERTIES
  ConfigConverges

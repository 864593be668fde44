CONSTANTS
  Gauge = {g1, g2}
  Radix = 4
  FrontLen = 2
  BackLen = 1
  Magic = 1
  Name <- Names
  Mfg = {1}
  Health <- Healths
  Cal <- Cals
  Inverted = {2}
  MaxCommands = 2
  MaxSwaps = 2
  MaxFrames = 4
SPECIFICATION Spec
INVARIANTS
  TypeOK
  SettingsTaken
PROPERTIES
  OnlyTheOneMeant
  PageFollowsGauge

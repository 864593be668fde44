CONSTANTS
  Controller = {c1, c2}
  Id = {1, 2}
  Other = Other
  Timeout = 2
  MaxFifo = 1
  MaxCommands = 1
SPECIFICATION Spec
INVARIANTS
  TypeOK
  OneEntryEach
  ActiveWasHeard
PROPERTIES
  EntriesStay
  GoneGoesInactive
  IdConverges

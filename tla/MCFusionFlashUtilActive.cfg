CONSTANTS
  Controller = {c1}
  Id = {1}
  Other = Other
  Timeout = 2
  MaxFifo = 1
  MaxCommands = 1
SPECIFICATION Spec
PROPERTIES
  HeardStaysActive

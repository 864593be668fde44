CONSTANTS
  Conn = {c1}
  Addresses = 2
  Controllers = 1
  MaxRequests = 2
SPECIFICATION Spec
PROPERTIES
  CommandsReachTheirGauge

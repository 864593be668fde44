CONSTANTS
  Conn = {c1, c2}
  Addresses = 2
  Controllers = 2
  MaxRequests = 2
SPECIFICATION Spec
PROPERTIES
  FormsDoNotMix
  WholeFormsCarriedOut
  ListedGaugeFound
SYMMETRY Connections

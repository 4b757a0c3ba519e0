SPECIFICATION Spec
CONSTANTS
  Server = server
  Clients = {c1}
  MaxPeers = 1
  AcceptCap = 1
  Bounds <- Two
INVARIANTS
  BothSidesConnected
  StaleDisconnectHarmless
CHECK_DEADLOCK FALSE

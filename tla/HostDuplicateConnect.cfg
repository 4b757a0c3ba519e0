SPECIFICATION FairSpec
CONSTANTS
  Server = server
  Clients = {c1}
  MaxPeers = 1
  AcceptCap = 1
  Bounds <- Duplicated
PROPERTIES
  NoneMeansTimeout
CHECK_DEADLOCK FALSE

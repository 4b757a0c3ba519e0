SPECIFICATION FairSpec
CONSTANTS
  Server = server
  Clients = {c1}
  MaxPeers = 1
  AcceptCap = 1
  Bounds <- Two
INVARIANTS
  DropDisconnects
PROPERTIES
  HandleActsOnItsPeer
CHECK_DEADLOCK FALSE

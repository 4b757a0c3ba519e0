SPECIFICATION FairSpec
CONSTANTS
  Server = server
  Clients = {c1, c2}
  MaxPeers = 2
  AcceptCap = 1
  Bounds <- TwoOrLong
INVARIANTS SlotsConsistent SessionAgreement
PROPERTIES ClosingIsFinal HalfOpenEnds DeadPeerFreed
CHECK_DEADLOCK FALSE

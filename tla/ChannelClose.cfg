SPECIFICATION FairSpec
CONSTANTS
  SeqRange = 4
  MaxPackets = 2
  MaxPings = 1
  MaxAttempts = 2
  Windows = {0, 2}
  MaxWindow = 2
  MaxPending = 1
  MaxQueue = 1
  UserCap = 1
INVARIANTS
  GracefulDisconnect
  UserOrder
PROPERTIES
  EventuallyReleased
  DisconnectCompletes
CHECK_DEADLOCK FALSE

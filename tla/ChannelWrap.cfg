SPECIFICATION Spec
CONSTANTS
  SeqRange = 6
  MaxPackets = 7
  MaxPings = 0
  MaxAttempts = 1
  Windows = {3}
  MaxWindow = 3
  MaxPending = 0
  MaxQueue = 1
  UserCap = 0
INVARIANTS InOrder AckedIsReceived
PROPERTIES ImplementsLink
CHECK_DEADLOCK FALSE

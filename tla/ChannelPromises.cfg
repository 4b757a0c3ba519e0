SPECIFICATION FairSpec
CONSTANTS
  SeqRange = 6
  MaxPackets = 4
  MaxPings = 0
  MaxAttempts = 1
  Windows = {1, 2}
  MaxWindow = 2
  MaxPending = 2
  MaxQueue = 1
  UserCap = 1
INVARIANTS
  NothingDropped
  SubmissionOrder
PROPERTIES
  PendingIsSent
CHECK_DEADLOCK FALSE

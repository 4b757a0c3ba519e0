SPECIFICATION Spec
CONSTANTS
  MaxMessages = 3
  MaxFragments = 2
  Mixes <- ReliableOnly
  MaxBuffers = 3
  MaxBytes = 6
INVARIANTS
  NoStall
  BuffersInProgress
CHECK_DEADLOCK FALSE

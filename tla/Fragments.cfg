SPECIFICATION Spec
CONSTANTS
  MaxMessages = 3
  MaxFragments = 3
  Mixes <- Every
  MaxBuffers = 2
  MaxBytes = 5
INVARIANTS
  Intact
  ReliablePrefix
  BuffersExact
  UnreliableInTurn
CHECK_DEADLOCK FALSE

SPECIFICATION Spec
CONSTANTS
  MaxMessages = 2
  MaxFragments = 2
  Mixes <- BothFragmented
  MaxBuffers = 2
  MaxBytes = 4
INVARIANTS
  DeliveredWhole
CHECK_DEADLOCK FALSE

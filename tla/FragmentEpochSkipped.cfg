SPECIFICATION Spec
CONSTANTS
  MaxMessages = 2
  MaxFragments = 2
  Mixes <- UnreliableFragmented
  MaxBuffers = 2
  MaxBytes = 4
INVARIANTS
  EveryEpochRespected
CHECK_DEADLOCK FALSE

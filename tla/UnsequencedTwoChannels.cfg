SPECIFICATION Spec
CONSTANTS
  SeqRange = 8
  Channels = {1, 2}
  WindowSize = 4
  MaxSends = 2
INVARIANTS
  NewIsAccepted
CHECK_DEADLOCK FALSE

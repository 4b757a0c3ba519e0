SPECIFICATION Spec
CONSTANTS
  SeqRange = 8
  Channels = {1}
  WindowSize = 4
  MaxSends = 10
INVARIANTS NoDuplicate NewIsAccepted
CHECK_DEADLOCK FALSE

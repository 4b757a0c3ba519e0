SPECIFICATION TimerSpec
CONSTANTS
  ClockRange = 256
  Starts = {0, 200, 250}
  Timeouts = {1, 2, 3}
  MaxTimeout = 3
  TimeoutLimit = 32
  TimeoutMin = 5
  TimeoutMax = 30
  MaxTick = 2
INVARIANTS
  HardLimit
CHECK_DEADLOCK FALSE

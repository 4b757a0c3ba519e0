SPECIFICATION MCSpec
CONSTANTS
  ClockRange = 256
  Starts = {0, 200, 250}
  Timeouts = {1, 2, 3}
  MaxTimeout = 3
  TimeoutLimit = 8
  TimeoutMin = 18
  TimeoutMax = 30
  MaxTick = 2
  LowMod = 16
  ClockMod = 32
  Ages = {0, 1, 9, 15}
  Steps = {1, 5}
  MaxNow = 38
  DefaultRtt = 15
  Scale = 4
  Interval = 6
  Acceleration = 3
  Deceleration = 2
INVARIANTS FoundOut RttBounded SampleExact
CHECK_DEADLOCK FALSE

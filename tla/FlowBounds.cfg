SPECIFICATION Spec
CONSTANTS
  Clients = {n1, f1, f2}
  Native = {n1}
  WinMin = 2
  WinMax = 8
  Scale = 32
  DefaultInterval = 5
  DefaultStep = 2
  InBw = 9
  OutBw = 17
  Windows = {1}
  Bandwidths = {0, 40}
  Intervals = {0}
  Steps = {40}
INVARIANTS HonoursServerLimit

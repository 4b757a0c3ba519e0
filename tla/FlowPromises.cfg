SPECIFICATION Spec
CONSTANTS
  Clients = {n1, f1}
  Native = {n1}
  WinMin = 2
  WinMax = 8
  Scale = 32
  DefaultInterval = 5
  DefaultStep = 2
  InBw = 0
  OutBw = 17
  Windows = {8}
  Bandwidths = {0, 9}
  Intervals = {3}
  Steps = {2, 40}
INVARIANTS
  PeerLimitHonoured
  ThrottleClamped
  VerifyAsDocumented

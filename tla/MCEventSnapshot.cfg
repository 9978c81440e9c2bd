SPECIFICATION Spec
CONSTANTS
  Word = 64
  Frame = 4
  Sentinel = 6
  SentinelReduce = 2
  ContentionSize = 12
  MaxStep = 2
  Delays = {1, 3}
  SnapTimes = {1, 3}
  SnapInside = TRUE
  MaxDevice = 1
  MaxQueue = 4
  Shortest = 3
INVARIANTS SentinelInReach

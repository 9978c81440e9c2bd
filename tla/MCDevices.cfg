SPECIFICATION DevicesSpec
CONSTANTS
  Word = 64
  Frame = 4
  Sentinel = 6
  SentinelReduce = 2
  ContentionSize = 12
  MaxStep = 2
  Delays = {1, 3}
  SnapTimes = {1, 3}
  SnapInside = FALSE
  MaxDevice = 2
  MaxQueue = 4
  Shortest = 2
  Cylinders = 2
  DiskSizes = {1}
  Sectors = 2
  Bytes = 1
  Revolutions = 1
  Tracks = 2
  MaxPending = 1
  Boards <- WdBoards
  Commands <- WdCommands
  Targets <- WdTargets
  Liberties = {}
  Units = {0, 1}
  SeekSteps = 1
  UpdGuests <- Guests
  UpdLiberties = {}
CHECK_DEADLOCK FALSE
INVARIANTS TimeOrder OneFrameComing ClockInTables FdcDriven ReadyFollows SeekHeard
PROPERTIES ImplementsSchedule KeepsEnding

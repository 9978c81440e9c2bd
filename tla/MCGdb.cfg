SPECIFICATION FairSpec
CONSTANTS
  MaxSessions = 2
  MaxStarts = 2
  Settings <- BothPorts
INVARIANTS StackBorrowed StopHolds NoListRace
PROPERTIES RequestsServed StopReturns
CHECK_DEADLOCK FALSE

SPECIFICATION FairSpec
CONSTANTS
  MaxSessions = 2
  MaxStarts = 1
  Settings <- HurriedClients
PROPERTY EveryActionAnswered
CHECK_DEADLOCK FALSE

SPECIFICATION FairSpec
CONSTANTS
  SocketCount = 2
  Ring = 2
  Word = 4
  Page = 2
  Header = 1
  MaxQueue = 2
  PipeSize = 1
  Plans <- Guests
CHECK_DEADLOCK FALSE
INVARIANTS NoBlindIo NoLostWake StreamsIntact
PROPERTIES SendCompletes FreeReturns

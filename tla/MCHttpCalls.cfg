SPECIFICATION FairSpec
CONSTANTS
  emulation = emulation
  mailbox = mailbox
  Client = {emulation, mailbox}
  Emulator = emulation
  MaxDownloads = 2
  RingSize = 1
  MaxBytes = 2
  MaxChunk = 1
  MaxTries = 1
  Sizes <- Streamed
  LateTimeouts = FALSE
INVARIANT NoLeak
CHECK_DEADLOCK FALSE
PROPERTIES CallsReturn

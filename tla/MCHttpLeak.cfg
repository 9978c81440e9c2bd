SPECIFICATION Spec
CONSTANTS
  emulation = emulation
  mailbox = mailbox
  Client = {emulation, mailbox}
  Emulator = emulation
  MaxDownloads = 2
  RingSize = 2
  MaxBytes = 3
  MaxChunk = 2
  MaxTries = 1
  Sizes <- AnyMode
  LateTimeouts = TRUE
INVARIANT NoLeak
CHECK_DEADLOCK FALSE

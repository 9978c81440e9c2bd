SPECIFICATION Spec
CONSTANTS
  emulation = emulation
  mailbox = mailbox
  Client = {emulation, mailbox}
  Emulator = emulation
  MaxDownloads = 2
  RingSize = 3
  MaxBytes = 4
  MaxChunk = 2
  MaxTries = 1
  Sizes <- BothModes
  LateTimeouts = TRUE
INVARIANTS DestroyedOnce SleepersJustified BodyInOrder
CHECK_DEADLOCK FALSE

SPECIFICATION Spec
CONSTANTS
  JobCount = 3
  MaxStarts = 2
  MaxTransfers = 0
  GuestWaits = FALSE
  GuestMailboxes = {0, 1}
  GuestCommands = {"message"}
  MaxResets = 1
INVARIANTS
  MessageOnce
PROPERTIES
  WorkerOwnsRequest

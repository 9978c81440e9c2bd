SPECIFICATION Spec
CONSTANTS
  JobCount = 3
  MaxStarts = 2
  MaxTransfers = 0
  GuestWaits = FALSE
  GuestMailboxes = {0}
  GuestCommands = {"match"}
  MaxResets = 0
PROPERTY WorkspaceOwned

SPECIFICATION FairSpec
CONSTANTS
  JobCount = 3
  MaxStarts = 2
  MaxTransfers = 0
  GuestWaits = TRUE
  GuestMailboxes = {0}
  GuestCommands = {"match", "engine"}
  MaxResets = 1
PROPERTIES
  WorkspaceOwned
  FinishedByAnswer
  AnswerArrives

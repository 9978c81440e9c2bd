SPECIFICATION PartsSpec
CONSTANTS
  JobCount = 2
  MaxStarts = 2
  MaxTransfers = 2
  Socket = {"s0"}
  Fd = {1, 2, 3, 4}
  MaxEpochs = 2
  Frames = {4, 8}
  Requested = 9
  Period = 8
  Sample = 4
  Word = 32
  Interval = 2
  Ages = {6, 12}
  MaxFrames = 20
  MaxLate = 5
  MaxManual = 1
INVARIANTS ExactlyOnce NoLostWakeup FdsOwned ConnectedUsable StunUndisturbed SoundApart AutosavesSpaced
PROPERTIES QuietAfterCancel TeardownReturns ReopenedUntouched ImplementsQueue FrameReturns

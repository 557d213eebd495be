SPECIFICATION Spec
CONSTANTS
  MaxBytes = 5
  Mss = 2
  GsoMax = 2
  SndBuf = 3
  MaxWindow = 4
  MaxChances = 1
  Sends <- MCSends
  RcvBuf = 4
  RcvMss = 2
  Page = 2
  Lowats = {9}
  Reads <- MCReads
INVARIANTS ReadsInOrder ReadsEnough DrainedMeansFlow SenderWoken
CHECK_DEADLOCK FALSE
PROPERTY ImplementsWindow

SPECIFICATION Spec
CONSTANTS
  total_frame = 2
  Payload = {"a", "b", "z"}
  File <- FileOfTwo
  Stray = {"z"}
  MAX_SEND = 1
  PerPacket = 1
  InitialFrom = "sender"
  SenderTimeout = TRUE
  LeftoverR <- Header
  LeftoverS <- HeaderAck
INVARIANTS AcknowledgedEnd PhantomFrameNeeded
PROPERTY FramesKept
CHECK_DEADLOCK FALSE

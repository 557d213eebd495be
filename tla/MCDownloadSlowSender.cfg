SPECIFICATION Spec
CONSTANTS
  total_frame = 2
  Payload = {"a", "b", "z"}
  File <- FileOfTwo
  Stray = {"z"}
  MAX_SEND = 1
  PerPacket = 2
  InitialFrom = "sender"
  SenderTimeout = TRUE
  LeftoverR <- Header
  LeftoverS <- HeaderAck
INVARIANT DoneAckAfterDone
CHECK_DEADLOCK FALSE

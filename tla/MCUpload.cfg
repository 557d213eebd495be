SPECIFICATION Spec
CONSTANTS
  total_frame = 3
  Payload = {"a", "b", "c", "z"}
  File <- FileOfThree
  Stray = {"z"}
  MAX_SEND = 1
  PerPacket = 2
  InitialFrom = "none"
  SenderTimeout = FALSE
  LeftoverR <- Header
  LeftoverS <- HeaderAck
INVARIANTS TypeOK Completeness SenderEndsAfterReceiver MissingExact
PROPERTY ImplementsDelivery
CHECK_DEADLOCK FALSE

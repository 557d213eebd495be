SPECIFICATION FifoSpec
CONSTANTS
  total_frame = 2
  Payload = {"a", "b", "z"}
  File <- FileOfTwo
  Stray = {"z"}
  MAX_SEND = 2
  SenderBurst = 2
  PerPacket = 2
  InitialFrom = "sender"
  SenderTimeout = TRUE
  LeftoverR = {}
  LeftoverS = {}
  Capacity = 8
  Losses = 2
  Prompt = TRUE
INVARIANT ReceiverSurvives
CHECK_DEADLOCK FALSE

SPECIFICATION FifoSpec
CONSTANTS
  total_frame = 3
  Payload = {"a", "b", "c", "z"}
  File <- FileOfThree
  Stray = {"z"}
  MAX_SEND = 2
  SenderBurst = 2
  PerPacket = 2
  InitialFrom = "none"
  SenderTimeout = FALSE
  LeftoverR = {}
  LeftoverS = {}
  Capacity = 16
  Losses = 2
  Prompt = TRUE
PROPERTY ReceiverStops
CHECK_DEADLOCK FALSE

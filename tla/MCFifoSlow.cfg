SPECIFICATION FifoSpec
CONSTANTS
  total_frame = 2
  Payload = {"a", "b", "z"}
  File <- FileOfTwo
  Stray = {"z"}
  MAX_SEND = 2
  SenderBurst = 2
  PerPacket = 2
  InitialFrom = "none"
  SenderTimeout = FALSE
  LeftoverR = {}
  LeftoverS = {}
  Capacity = 8
  Losses = 0
  Prompt = FALSE
PROPERTY SenderStops
CHECK_DEADLOCK FALSE

SPECIFICATION FifoSpec
CONSTANTS
  total_frame = 2
  Payload = {"a", "b", "z"}
  File <- FileOfTwo
  Stray = {"z"}
  MAX_SEND = 1
  SenderBurst = 1
  PerPacket = 2
  InitialFrom = "sender"
  SenderTimeout = TRUE
  LeftoverR = {}
  LeftoverS = {}
  Capacity = 8
  Losses = 3
  Prompt = TRUE
PROPERTY DoneRepeatsStop
CHECK_DEADLOCK FALSE

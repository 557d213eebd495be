SPECIFICATION FifoSpec
CONSTANTS
  total_frame = 3
  Payload = {"a", "b", "c", "z"}
  File <- FileOfThree
  Stray = {"z"}
  MAX_SEND = 2
  SenderBurst = 2
  PerPacket = 1
  InitialFrom = "sender"
  SenderTimeout = TRUE
  LeftoverR = {}
  LeftoverS = {}
  Capacity = 16
  Losses = 2
  Prompt = TRUE
PROPERTY TransferEnds
CHECK_DEADLOCK FALSE

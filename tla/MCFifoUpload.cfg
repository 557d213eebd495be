SPECIFICATION FifoSpec
CONSTANTS
  total_frame = 3
  Payload = {"a", "b", "c", "z"}
  File <- FileOfThree
  Stray = {"z"}
  MAX_SEND = 3
  SenderBurst = 3
  PerPacket = 2
  InitialFrom = "none"
  SenderTimeout = FALSE
  LeftoverR = {}
  LeftoverS = {}
  Capacity = 20
  Losses = 2
  Prompt = TRUE
INVARIANTS FifoTypeOK ReceiverSurvives AckBurstSuffices
PROPERTY TransferEnds
CHECK_DEADLOCK FALSE

SPECIFICATION Spec
CONSTANTS
  Byte = {0, 7, 8}
  Chunk = 2
  MaxSize = 5
  Fresh <- AnyBuffer
  Strays <- SomeStrings
INVARIANTS FramesAgree NothingStale TextArrives
CHECK_DEADLOCK FALSE

SPECIFICATION Spec
CONSTANTS
  total_frame = 3
  Inputs <- SortedVectors
INVARIANTS Correct
CHECK_DEADLOCK FALSE

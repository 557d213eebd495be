SPECIFICATION Spec
CONSTANTS
  DATABUFFER_SIZE = 7
  Digits <- DecimalLength
  Inputs <- MissingSets
INVARIANTS FitsBuffer AllAskedOnce
CHECK_DEADLOCK FALSE

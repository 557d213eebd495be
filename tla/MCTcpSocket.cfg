SPECIFICATION Spec
CONSTANTS
  MaxIn = 1
  MaxOut = 2
  SndBuf = 2
  DefaultLowat = 9
  Lowats = {0, 1}
  FinTimeout = 3
  Linger2s <- LingerValues
  MaxBacklog = 2
  DeferSeconds = {0, 3, 9}
  TCP_TIMEOUT_INIT = 2
  TCP_RTO_MAX = 120
  U8_MAX = 3
INVARIANTS TypeOK LossIsReset DestroyedOnce HangupHasError NoLostWakeup
  DeferAcceptCovers
CHECK_DEADLOCK FALSE

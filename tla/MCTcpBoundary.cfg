SPECIFICATION Spec
CONSTANTS
  TCP_RTO_MIN = 1
  TCP_RTO_MAX = 4
  TCP_TIMEOUT_INIT = 1
  TCP_RESOURCE_PROBE_INTERVAL = 1
  TCP_TIMEWAIT_LEN = 2
  FinTimeout = 3
  Retries2 = 5
  SynRetries = 2
  SynAckRetries = 1
  OrphanRetries = 0
  KeepaliveTime = 2
  KeepaliveIntvl = 1
  KeepaliveProbes = 2
  RetryLocked = 1
  ThinLinear = FALSE
  TCP_THIN_LINEAR_RETRIES = 2
  ThinPackets = 2
  AliveRetries = 8
  UserTimeouts = {0}
  Rtos = {1}
  MaxPackets = 1
  MaxAge = 19
  MaxSilence = 5
  MaxBackoff = 5
PROPERTY BoundaryRetransmissions
CHECK_DEADLOCK FALSE

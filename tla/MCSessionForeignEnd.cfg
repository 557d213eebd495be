SPECIFICATION Spec
CONSTANTS
  Clients = {"c1", "c2"}
  Command <- TwoDownloads
  FileOf <- TwoFiles
  NameLength <- SameLength
  HasFile = {}
  OnDisk = {"f", "g"}
  After <- AtOnce
  MaxLive = 2
  total_frame = 1
  MAX_SEND <- Bursts
  HeaderTries = 2
  Capacity = 8
  Faults = 1
PROPERTY SendEndsAfterReceiver
CHECK_DEADLOCK FALSE

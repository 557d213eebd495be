SPECIFICATION FairSpec
CONSTANTS
  Clients = {"c1", "c2"}
  Command <- TwoDownloads
  FileOf <- TwoFiles
  NameLength <- SameLength
  HasFile = {}
  OnDisk = {"f"}
  After <- AtOnce
  MaxLive = 2
  total_frame = 1
  MAX_SEND <- Bursts
  HeaderTries = 2
  Capacity = 8
  Faults = 0
PROPERTY MissingFileReported
CHECK_DEADLOCK FALSE

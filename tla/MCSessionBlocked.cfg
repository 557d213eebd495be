SPECIFICATION FairSpec
CONSTANTS
  Clients = {"c1", "c2", "c3", "c4", "c5", "c6", "c7"}
  Command <- InTurn
  FileOf <- FilesInTurn
  NameLength <- SameLength
  HasFile = {"c2", "c5"}
  OnDisk = {"g"}
  After <- DownloadLater
  MaxLive = 1
  total_frame = 3
  MAX_SEND <- LongBursts
  HeaderTries = 2
  Capacity = 5
  Faults = 0
PROPERTY ServedAfterNoFile
CHECK_DEADLOCK FALSE

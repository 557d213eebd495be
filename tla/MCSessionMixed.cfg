SPECIFICATION Spec
CONSTANTS
  Clients = {"c1", "c2", "c3", "c4"}
  Command <- FourClients
  FileOf <- OneOther
  NameLength <- SameLength
  HasFile = {"c1", "c2"}
  OnDisk = {"g"}
  After <- TwoAtOnce
  MaxLive = 4
  total_frame = 2
  MAX_SEND <- Bursts
  HeaderTries = 2
  Capacity = 8
  Faults = 2
INVARIANTS DownloadsOwnName DownloadsData FilesUnmixed
CHECK_DEADLOCK FALSE

CONSTANTS
  NoJob = NoJob
  Chats <- OneChat
  Kinds <- LeftOverKinds
  DrainBudget = 3
  Lease = 4
  ChatTimeout = 2
  AnnounceTimeout = 1
  WriteTimeout = 1
  BaseBackoff = 1
  MaxBackoff = 2
  TTL <- ShortTTL
  CeremonyBudget = 2
  Builds = {TRUE, FALSE}
  OnlyModelFails = FALSE
  MaxSubmits = 2
  MaxFaults = 1
  MaxTime = 6
SPECIFICATION FairSpec
PROPERTIES KeepsContract QueueDrains

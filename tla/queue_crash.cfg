CONSTANTS
  NoJob = NoJob
  Chats <- OneChat
  Kinds <- WinnerOnly
  DrainBudget = 3
  Lease = 4
  ChatTimeout = 2
  AnnounceTimeout = 1
  WriteTimeout = 1
  BaseBackoff = 1
  MaxBackoff = 2
  TTL <- ShortTTL
  CeremonyBudget = 2
  Builds = {TRUE}
  OnlyModelFails = FALSE
  MaxSubmits = 2
  MaxFaults = 2
  MaxTime = 8
SPECIFICATION Spec
INVARIANTS TypeOK LeaseHolds FreshJobStaysDue DuplicatesNeedFaults NoWorkLongPastExpiry

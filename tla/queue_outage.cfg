CONSTANTS
  NoJob = NoJob
  Chats <- TwoChats
  Kinds <- WinnerOnly
  DrainBudget = 3
  Lease = 5
  ChatTimeout = 2
  AnnounceTimeout = 1
  WriteTimeout = 1
  BaseBackoff = 1
  MaxBackoff = 2
  TTL <- DayTTL
  CeremonyBudget = 3
  Builds = {TRUE}
  OnlyModelFails = TRUE
  MaxSubmits = 2
  MaxFaults = 0
  MaxTime = 24
SPECIFICATION Spec
INVARIANTS NoDrawExpiresUnheard

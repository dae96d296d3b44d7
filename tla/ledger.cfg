CONSTANTS
  shared = shared
  other = other
  free = free
  Repliers = {h1, h2}
  Worker = worker
  Names = {shared, other, free}
  ReplyChain <- ReplyProviders
  SummaryChain <- SummaryProviders
  MaxDay = 2
SPECIFICATION Spec
INVARIANTS TypeOK LedgerAccounts CapHolds
PROPERTIES RefusalIsJust

CONSTANTS
  Sizes = {1, 2}
  WindowBudgets = {0, 2, 3}
  KeepBytes = 3
  Configured = TRUE
  MaxMessages = 4
  MaxFaults = 1
  MaxClock = 5
SPECIFICATION Spec
INVARIANTS HistoryInv OutageLosesNothing FoldedOncePerFault
CHECK_DEADLOCK FALSE

CONSTANTS
  Sizes = {1, 2}
  WindowBudgets = {0, 2, 3}
  KeepBytes = 1
  Configured = TRUE
  MaxMessages = 3
  MaxFaults = 0
  MaxClock = 5
SPECIFICATION Spec
INVARIANTS UnreadIsSpared
CHECK_DEADLOCK FALSE

CONSTANTS
  Chats = {a}
  Members = {m, n}
  Nobody = nobody
  Drawers = {d1, d2}
  Configured = {TRUE, FALSE}
  DrawPool = 1
  StatsTop = 2
  MaxPoints = 1
  MaxDay = 1
  MaxFaults = 1
SPECIFICATION Spec
SYMMETRY Symmetric
INVARIANTS DrawInv PointsCountOnce RecordedDrawIsHeard
CHECK_DEADLOCK FALSE

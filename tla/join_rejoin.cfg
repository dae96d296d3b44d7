CONSTANTS
  Members = {m}
  Emojis = {e1, e2}
  Handlers = {h1, h2}
  Sweeper = sweeper
  Captcha = {TRUE, FALSE}
  Greeting <- WithText
  Elsewhere = TRUE
  MaxJoins = 2
  MaxPresses = 1
  MaxFaults = 0
SPECIFICATION Spec
SYMMETRY Symmetric
INVARIANTS RowInv NewcomerCanAnswer GreetedOnce
CHECK_DEADLOCK FALSE

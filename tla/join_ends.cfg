CONSTANTS
  Members = {m}
  Emojis = {e1, e2}
  Handlers = {h1, h2}
  Sweeper = sweeper
  Captcha = {TRUE}
  Greeting <- WithoutText
  Elsewhere = FALSE
  MaxJoins = 1
  MaxPresses = 1
  MaxFaults = 1
SPECIFICATION FairSpec
INVARIANTS ClaimsInv
PROPERTIES NewcomerNotStuck
CHECK_DEADLOCK FALSE

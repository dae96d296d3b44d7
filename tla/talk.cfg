CONSTANTS
  u1 = u1
  u2 = u2
  bot = bot
  a = a
  b = b
  c = c
  e = e
  A = A
  q = q
  br = br
  sys = sys
  Updates = {m1, m2}
  Addressed = {m1}
  Users = {u1, u2}
  BotID = bot
  Bots = {bot}
  Words = {a, b, c, e, A, q}
  Utterances <- Written
  Past <- Earlier
  NoUpdate = NoUpdate
  Settings <- RowSettings
  System <- SystemPrompt
  ContextSizes <- Sizes
  ReplyBytes = 8
  Answer <- Said
  Capital <- CapitalOf
  Escaped <- EscapedOf
  SemSize = 1
  MaxFaults = 1
  Break = br
  Pause = Pause
  NoName = NoName
  RuneBytes = 1
  Null = Null
  AnyWord = AnyWord
  Enders = {e}
  SafetyCounter = 4
SPECIFICATION Spec
INVARIANTS TalkInv SaidOnce RequestFits ReplyIsOneSentence WalkFollowsSpeech StopLosesNothing
CHECK_DEADLOCK FALSE

SPECIFICATION Spec
CONSTANTS
  Bundle <- MCBundle
  FallbackLang = "en"
  Runes <- MCRunes
  SanitizeV2 <- Sanitized
  QuoteExpandableV2 <- QuoteExpandable
  Rows <- MCRows
  BotID = "bot"
  Names <- MCNames
  Standings <- MCStandings
  Labels <- MCLabels
  Langs = {"en", "xx"}
  SystemSizes = {0, 9, 20}
  Pieces <- MCPieces
  YearTops <- MCYearTops
  NoDraw = NoDraw
  MaxMessageRunes = 48
  MaxContext = 40
  DrawReserve = 10
  BudgetMargin = 2
  ScorerLimit = 1
  ScorerQuotes = 1
  ScorerQuoteRunes = 2
  MaxRows = 3
  MaxAnswer = 5
CHECK_DEADLOCK FALSE
INVARIANTS PromptIsSound ResultInv RepairIsFaithful CutFits SentAsPutTogether

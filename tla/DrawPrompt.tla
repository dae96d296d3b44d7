----------------------------- MODULE DrawPrompt -----------------------------
(***************************************************************************)
(* The prompt a winner announcement asks a model with: the prize, a line   *)
(* for each of the day's scorers with their words, and as much of the      *)
(* day's chat log as the context has room for (handlers/winner/chatlog.go, *)
(* announce.go).                                                           *)
(***************************************************************************)
EXTENDS Texts, Locale

CONSTANTS
  Rows,               \* what a message of the log may be: [user, text, isBot]
  BotID,              \* the bot itself
  Names,              \* user -> the name they go by, or none
  Standings,          \* the scorers of the day, best first
  Labels,             \* what /winner enable may have stored
  Langs,              \* chats.locale
  SystemSizes,        \* lengths of the system prompt
  MaxContext,         \* config.MaxSummaryContextBytes
  DrawReserve, BudgetMargin, ScorerLimit, ScorerQuotes, ScorerQuoteRunes,
  MaxRows             \* bound: the rows read

ASSUME PromptAssumption ==
  /\ {MaxContext, DrawReserve, BudgetMargin, ScorerLimit, ScorerQuotes, ScorerQuoteRunes,
      MaxRows} \subseteq Nat
  /\ SystemSizes \subseteq Nat
  /\ {" ", Newline, ":", ".", "/", "?", "L"} \subseteq Runes
  /\ Names \in [DOMAIN Names -> Seq(Runes)]
  /\ Rows \subseteq [user : DOMAIN Names, text : Seq(Runes), isBot : BOOLEAN]
  /\ Standings \in Seq(DOMAIN Names)
  /\ Labels \subseteq Seq(Runes)
  \* What the locales call somebody without a name is one line.
  /\ \A lang \in Langs : /\ T(lang, "default", <<>>) \in Seq(Runes)
                         /\ Newline \notin Range(T(lang, "default", <<>>))

VARIABLES
  rows,     \* the rows chatRows read, newest first, until they are rendered
  system    \* the length of the system prompt

promptVars == <<rows, system>>

-----------------------------------------------------------------------------
(* The log *)

LogHeader == <<"L", ":", Newline>>

\* oneLine: every line break becomes a blank.
OneLine(s) == Trimmed([i \in DOMAIN s |-> IF s[i] = Newline THEN " " ELSE s[i]])

\* utils.DisplayName: somebody without a name is "Unknown".
DisplayName(user) == IF Names[user] = <<>> THEN <<"?">> ELSE Names[user]

\* Mutant: the breaks in a message's text are kept.
MutantLogLine(row) == OneLine(DisplayName(row.user)) \o <<":", " ">> \o Trimmed(row.text)

LogLine(row) == OneLine(DisplayName(row.user)) \o <<":", " ">> \o OneLine(row.text)

\* The bot knows itself by its id, other bots by what is stored of them.
ByBot(row) == row.user = BotID \/ row.isBot

\* formatLog: one line for each thing a person said, oldest first.
FormatLog(read) ==
  LET lines[n \in 0 .. Len(read)] ==
        IF n = 0 THEN <<>>
        ELSE LET row == read[Len(read) - n + 1]
             IN  IF Trimmed(row.text) = <<>> \/ ByBot(row) THEN lines[n - 1]
                 ELSE Append(lines[n - 1], LogLine(row))
  IN  lines[Len(read)]

\* The size fitLog counts: every line with its break.
LogSize(lines) ==
  LET size[n \in 0 .. Len(lines)] == IF n = 0 THEN 0 ELSE size[n - 1] + Len(lines[n]) + 1
  IN  size[Len(lines)]

\* The newest n lines.
Newest(lines, n) == SubSeq(lines, Len(lines) - n + 1, Len(lines))

\* fitLog: as many of the newest lines as fit.
FitLog(lines, budget) ==
  Newest(lines, Max({0} \cup {n \in 1 .. Len(lines) : LogSize(Newest(lines, n)) <= budget}))

\* logBudget.
LogBudget == MaxContext - system - DrawReserve - Len(LogHeader) - BudgetMargin

\* The lines of the log a prompt carries.
PromptLog(read) == FitLog(FormatLog(read), LogBudget)

\* The shape of RecentByBytesSince's answers, apart from the time: rows within
\* the budget, or one row that exceeds it alone.
Readable(read) ==
  \/ read = <<>>
  \/ LogBudget > 0 /\ (Len(read) = 1
       \/ FoldLeft(LAMBDA sum, row : sum + Len(row.text), 0, read) <= LogBudget)

-----------------------------------------------------------------------------
(* The draw *)

\* The newest few things a scorer said.
Said(read, user) ==
  LET out[n \in 0 .. Len(read)] ==
        IF n = 0 THEN <<>>
        ELSE IF read[n].user # user \/ OneLine(read[n].text) = <<>> \/ Len(out[n - 1]) = ScorerQuotes
             THEN out[n - 1]
             ELSE Append(out[n - 1], Beginning(OneLine(read[n].text), ScorerQuoteRunes))
  IN  out[Len(read)]

ScorerExcerpt(read, user) == JoinedBy(<<" ", "/", " ">>, Said(read, user))

\* winnerLabel.
WinnerLabel(label, lang) == IF label = <<>> THEN T(lang, "default", <<>>) ELSE label

\* scorerName.
ScorerName(lang, user) == IF OneLine(Names[user]) = <<>> THEN T(lang, "default", <<>>)
                          ELSE OneLine(Names[user])

\* The head of the standings the announcement talks about.
Scorers == Beginning(Standings, ScorerLimit)

\* A scorer with their words of the day.
ScorerLine(lang, user, read) ==
  LET said == ScorerExcerpt(read, user)
      name == ScorerName(lang, user)
  IN  name \o (IF said = <<>> THEN <<>> ELSE <<".">> \o name \o said)

\* buildDraw: the prize, then a line per scorer.
DrawBlock(label, lang, read) ==
  Joined(<<OneLine(label)>> \o [i \in 1 .. Len(Scorers) |-> ScorerLine(lang, Scorers[i], read)])
    \o <<Newline>>

\* buildUserMessage.
UserMessage(draw, lines) ==
  draw \o (IF lines = <<>> THEN <<>> ELSE <<Newline>> \o LogHeader \o Joined(lines))

-----------------------------------------------------------------------------
\* The system prompt of the chain, then the rows within what it leaves.
PromptInit ==
  /\ system \in SystemSizes
  /\ rows \in BoundedSeq(Rows, MaxRows)
  /\ Readable(rows)

\* The prompt is built: the rows are not read again.
Rendered == rows' = <<>> /\ system' = 0

PromptSpec == PromptInit /\ [][Rendered]_promptVars

-----------------------------------------------------------------------------
(* Properties *)

\* A prompt has the lines the bot gave it: a message is one line of the log
\* whatever it says, and so is a scorer of the draw block, so nobody's text forges
\* a line in somebody's name.  And the log is cut to what the other parts leave: a
\* prompt that carries one stays below the context by the margin, as long as the
\* draw block keeps to its reserve.  formatLog, oneLine, logBudget, fitLog.
PromptIsSound ==
  \A label \in Labels, lang \in Langs :
    LET block   == DrawBlock(WinnerLabel(label, lang), lang, rows)
        log     == PromptLog(rows)
        message == UserMessage(block, log)
    IN  /\ Breaks(message) = 1 + Len(Scorers) + (IF log = <<>> THEN 0 ELSE Len(log) + 1)
        /\ log # <<>> /\ Len(block) <= DrawReserve
             => system + Len(message) <= MaxContext - BudgetMargin
=============================================================================

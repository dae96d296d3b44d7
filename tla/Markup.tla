-------------------------------- MODULE Markup --------------------------------
(***************************************************************************)
(* MarkdownV2 as the bot sends it: the parser that validates and repairs   *)
(* a text, and the quote it folds one into (telegram/markdown.go).         *)
(*                                                                         *)
(* A parse that may fail is the set of its results: empty, or one element. *)
(* Parsing descends into quotes and delimited bodies, so the operators are *)
(* RECURSIVE, and there are no theorems about them.                        *)
(***************************************************************************)
EXTENDS Texts

Back == "\\"
Tick == "backtick"

\* mdV2Special; the dot stands for the runes that are part of no markup.
Special == {"*", "_", "~", Tick, "[", "]", "(", ")", ">", "|", "."}

HasAt(s, i, mark) == /\ i + Len(mark) - 1 <= Len(s)
                     /\ SubSeq(s, i, i + Len(mark) - 1) = mark

LineStart(s, i) == i = 1 \/ s[i - 1] = Newline

\* strings.Split(s, "\n").
RECURSIVE Lines(_)
Lines(s) == IF \E i \in DOMAIN s : s[i] = Newline
            THEN LET i == SelectInSeq(s, LAMBDA r : r = Newline)
                 IN  <<SubSeq(s, 1, i - 1)>> \o Lines(SubSeq(s, i + 1, Len(s)))
            ELSE <<s>>

\* The lines of s, each opened with '>'.
QuotedLines(s) == Joined([i \in DOMAIN Lines(s) |-> <<">">> \o Lines(s)[i]])

\* The first position from i on where mark stands unescaped, 0 if there is none.
\* An escaped rune is passed over with its backslash.
RECURSIVE FindMark(_, _, _)
FindMark(s, i, mark) ==
  CASE i > Len(s)         -> 0
    [] s[i] = Back        -> FindMark(s, i + 2, mark)
    [] HasAt(s, i, mark)  -> i
    [] OTHER              -> FindMark(s, i + 1, mark)

-----------------------------------------------------------------------------
(* Quotes *)

\* Where the line from i on ends: an escaped newline does not end it.
EndOfLine(s, i) == Min(({FindMark(s, i, <<Newline>>)} \ {0}) \cup {Len(s) + 1})

\* quoteLines: the bodies of the lines opened with '>', the first of which stands
\* from i to end, and the position behind the last one.
RECURSIVE QuoteRun(_, _, _)
QuoteRun(s, i, end) ==
  LET body == SubSeq(s, i + 1, end - 1)
      rest == QuoteRun(s, end + 1, EndOfLine(s, end + 2))
  IN  IF HasAt(s, end + 1, <<">">>)
      THEN [lines |-> <<body>> \o rest.lines, next |-> rest.next]
      ELSE [lines |-> <<body>>, next |-> end]

\* The backslashes in front of position i.
SlashesBefore(s, i) ==
  Cardinality({j \in 1 .. i - 1 : \A k \in j .. i - 1 : s[k] = Back})

\* cutExpandMark: the line ends in '||', and an even number of backslashes
\* stands before it.
ExpandMarked(line) == /\ Len(line) >= 2
                      /\ IsSuffix(<<"|", "|">>, line)
                      /\ SlashesBefore(line, Len(line) - 1) % 2 = 0

WithoutMark(lines) ==
  [lines EXCEPT ![Len(lines)] = SubSeq(@, 1, Len(@) - 2)]

-----------------------------------------------------------------------------
(* The parser *)

RECURSIVE Plain(_, _, _)

\* parseV2.
Parse(s, sanitize) == Plain(s, 1, sanitize)

\* The quote made of the lines of run; opened says that '**' stands before it.
QuoteOf(run, opened, sanitize) ==
  LET folded == opened /\ ExpandMarked(Last(run.lines))
      lines  == IF folded THEN WithoutMark(run.lines) ELSE run.lines
      opens  == IF folded THEN <<"*", "*">> ELSE <<>>
      closes == IF folded THEN <<"|", "|">> ELSE <<>>
  IN  {[out |-> opens \o QuotedLines(body) \o closes, next |-> run.next] :
         body \in {b \in Parse(Joined(lines), sanitize) : ~Blank(b)}}

\* parseQuote at position i.
Quote(s, i, sanitize) ==
  LET opened == HasAt(s, i, <<"*", "*", ">">>)
      start  == IF opened THEN i + 2 ELSE i
  IN  IF HasAt(s, start, <<">">>)
      THEN QuoteOf(QuoteRun(s, start, EndOfLine(s, start + 1)), opened, sanitize)
      ELSE {}

\* The entity between two marks, the closing one at end if there is one.
Between(s, start, end, mark, sanitize) ==
  IF end = 0 THEN {}
  ELSE {[out |-> mark \o body \o mark, next |-> end + Len(mark)] :
          body \in Parse(SubSeq(s, start, end - 1), sanitize)}

\* parseDelimited: the first unescaped closing mark ends the body, whatever it is.
Delimited(s, i, mark, sanitize) ==
  LET start == i + Len(mark)
  IN  IF HasAt(s, i, mark) THEN Between(s, start, FindMark(s, start, mark), mark, sanitize)
      ELSE {}

\* parsePre: the body stays as it is.
Pre(s, i) ==
  LET fence == <<Tick, Tick, Tick>>
  IN  IF HasAt(s, i, fence)
      THEN {[out |-> SubSeq(s, i, end + 2), next |-> end + 3] :
              end \in {FindMark(s, i + 3, fence)} \ {0}}
      ELSE {}

\* A link with its middle and its end at these places.
LinkTo(s, i, middle, end) ==
  IF middle > i + 1 /\ HasAt(s, middle + 1, <<"(">>) /\ end > middle + 2
  THEN {[out |-> SubSeq(s, i, end), next |-> end + 1]}
  ELSE {}

\* parseLink.  Neither half holds an unescaped delimiter, so linkPart keeps both;
\* an empty one is no link.
Link(s, i) ==
  LET middle == FindMark(s, i + 1, <<"]">>)
  IN  IF s[i] = "[" THEN LinkTo(s, i, middle, FindMark(s, middle + 2, <<")">>)) ELSE {}

\* The first alternative that parses, of two.
Either(first, second) == IF first # {} THEN first ELSE second

\* tryEntity: a doubled mark is tried before the single one, if anything follows it.
Entity(s, i, sanitize) ==
  LET follows == i + 2 <= Len(s)
      double  == {m \in {<<"|", "|">>, <<"_", "_">>} : follows /\ HasAt(s, i, m)}
      wide    == UNION {Delimited(s, i, m, sanitize) : m \in double}
      narrow  == UNION {Delimited(s, i, <<m>>, sanitize) : m \in {"*", "_", "~", Tick} \cap {s[i]}}
  IN  Either(wide, Either(Pre(s, i), Either(narrow, Link(s, i))))

\* Mutant: the quote is looked for in any place, not only where a line starts.
MutantMarkupAt(s, i, sanitize) == Either(Quote(s, i, sanitize), Entity(s, i, sanitize))

MarkupAt(s, i, sanitize) ==
  Either(IF LineStart(s, i) THEN Quote(s, i, sanitize) ELSE {}, Entity(s, i, sanitize))

\* A rune that begins no markup.
PlainRune(rune, sanitize) ==
  CASE rune \notin Special -> {<<rune>>}
    [] sanitize            -> {<<Back, rune>>}
    [] OTHER               -> {}

\* What parsePlain writes for position i, and where it goes on.
Token(s, i, sanitize) ==
  IF s[i] # Back
  THEN Either(MarkupAt(s, i, sanitize),
              {[out |-> out, next |-> i + 1] : out \in PlainRune(s[i], sanitize)})
  ELSE CASE i < Len(s) -> {[out |-> <<Back, s[i + 1]>>, next |-> i + 2]}
         [] sanitize   -> {[out |-> <<Back, Back>>, next |-> i + 1]}
         [] OTHER      -> {}

\* parsePlain from position i on.
Plain(s, i, sanitize) ==
  IF i > Len(s) THEN {<<>>}
  ELSE UNION {{token.out \o rest : rest \in Plain(s, token.next, sanitize)} :
                token \in Token(s, i, sanitize)}

\* ValidateV2.
Valid(s) == Parse(s, FALSE) # {}

\* The repair of a text, which never fails.
Repaired(s) == CHOOSE out \in Parse(s, TRUE) : TRUE

\* bot.EscapeMarkdown, of the library: every special rune gets a backslash.
EscapeMarkdown(s) ==
  FlattenSeq([i \in DOMAIN s |-> IF s[i] \in Special THEN <<Back, s[i]>> ELSE <<s[i]>>])

\* SanitizeV2: the repaired text, unless it is not valid either.
Sanitized(s) ==
  CHOOSE out \in Either({r \in Parse(s, TRUE) : Valid(r)}, {EscapeMarkdown(s)}) : TRUE

\* QuoteExpandableV2.
QuoteExpandable(s) ==
  IF Blank(s) THEN <<>> ELSE <<"*", "*">> \o QuotedLines(s) \o <<"|", "|">>
=============================================================================

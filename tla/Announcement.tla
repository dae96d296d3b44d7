---------------------------- MODULE Announcement ----------------------------
(***************************************************************************)
(* The text of a winner announcement from the draw to the message: the     *)
(* prompt of DrawPrompt, the result block in the chat's language           *)
(* (handlers/winner/winner.go), and Delivery with the markup of Markup.    *)
(* SummaryQueue and WinnerDraw model when this happens; here it is what    *)
(* is said.                                                                *)
(*                                                                         *)
(* A state is one draw, first with the rows it read, then with an answer   *)
(* that grows: the model may say anything.  A byte is a rune.              *)
(***************************************************************************)
EXTENDS Markup, DrawPrompt, Delivery

CONSTANTS
  Pieces,   \* what the model may add to its answer
  YearTops  \* what TopOfYear may answer

ASSUME AnnouncementAssumption ==
  /\ {MaxMessageRunes, MaxAnswer} \subseteq Nat
  /\ YearTops \subseteq Seq(DOMAIN Names)
  \* EscapeMarkdown escapes no backslash: one at a label's end would escape the
  \* mark that follows it.
  /\ \A text \in Labels \cup Range(Names) : Back \notin Range(text)
  \* The repair and the quote of Delivery are those of Markup.
  /\ \A s \in BoundedSeq(Runes, 2) : /\ SanitizeV2(s) = Sanitized(s)
                                     /\ QuoteExpandableV2(s) = QuoteExpandable(s)

vars == <<rows, system, draw, answer>>

-----------------------------------------------------------------------------
(* The result block *)

\* Mutant: the label of the prize goes into the markup as it is.
MutantFormatPlain(s) == s

FormatPlain(s) == EscapeMarkdown(s)

\* utils.UserMarkdownLink.
UserLink(name) == <<"[">> \o FormatPlain(name) \o <<"]", "(", "u", ")">>

\* What the result block calls a person.
NameIn(lang, user) == IF Names[user] = <<>> THEN T(lang, "default", <<>>) ELSE Names[user]

\* FormatTop, with the place and the score as a rune each.
FormatTop(lang, users) ==
  Joined([i \in DOMAIN users |->
            <<"*", "n", Back, ".", "*">> \o FormatPlain(NameIn(lang, users[i])) \o <<"s">>])

YearBlock(lang, year) ==
  IF year = <<>> THEN <<>> ELSE Trimmed(T(lang, "year_top", [top |-> FormatTop(lang, year)]))

\* The half of render that does not wait for a model.
Result(label, lang, user, year) ==
  JoinBlock(T(lang, "winner", [name |-> FormatPlain(WinnerLabel(label, lang)),
                               user |-> UserLink(NameIn(lang, user))]),
            YearBlock(lang, year))

-----------------------------------------------------------------------------
Init == PromptInit /\ DeliveryInit

\* render: the snapshot is queued.  The winner is one of the best scorers; a
\* standing of the year that cannot be read is left out.
Render(label, lang, user) ==
  /\ \E year \in YearTops \cup {<<>>} : Queue(Result(label, lang, user, year))
  /\ Rendered

Answered(piece) == Answer(piece) /\ UNCHANGED <<rows, system>>

Next ==
  \/ \E label \in Labels, lang \in Langs, user \in Range(Scorers) : Render(label, lang, user)
  \/ \E piece \in Pieces : Answered(piece)

Spec == Init /\ [][Next]_vars

-----------------------------------------------------------------------------
(* Properties *)

\* A result block is text: in a language that lacks a key the block is in the
\* fallback language, and never shows the key itself.  locale.T.
TypeOK ==
  /\ rows \in BoundedSeq(Rows, MaxRows)
  /\ system \in SystemSizes \cup {0}
  /\ answer \in Seq(Runes)
  /\ \/ draw = NoDraw
     \/ draw.result \in Seq(Runes)

\* The result block goes out as it was rendered: names and labels are text in
\* it and open no markup, in whatever language.  FormatPlain, winner.go.
ResultNeedsNoRepair == draw # NoDraw => Sanitized(draw.result) = draw.result

\* A queued result block is finished text.
ResultInv == TypeOK /\ ResultNeedsNoRepair

\* No line of s ends in a backslash.  The quote splits its text at every
\* newline and the parser passes an escaped one over, so a line that ends in a
\* backslash is read two ways.
Calm(s) == \A i \in 1 .. Len(s) - 1 : ~(s[i] = Back /\ s[i + 1] = Newline)

\* Whatever the model writes is repaired to valid markup, wherever it is cut, what
\* was repaired is not changed any more when it is sent, and what needed no repair - a text /greeting
\* accepts, say - is shown with the markup it was written in: nothing of it is
\* escaped.  ValidateV2, SanitizeV2.
RepairIsFaithful ==
  Calm(answer) =>
    LET repaired  == Sanitized(answer)
        slashes(s) == Cardinality({i \in DOMAIN s : s[i] = Back})
    IN  /\ Valid(Repaired(answer))
        /\ \A n \in 0 .. MaxAnswer : Valid(FitV2(answer, n))
        /\ Sanitized(repaired) = repaired
        /\ Valid(answer) => slashes(repaired) = slashes(answer)

\* A text made for sending is sent as it is.
SentAsIs(text) == Outbound(text) = text

\* The whole of s is one folded quote.
IsFoldedQuote(s) ==
  /\ IsSuffix(<<"|", "|">>, s)
  /\ \E quote \in Quote(s, 1, FALSE) : quote = [out |-> s, next |-> Len(s) + 1]

\* The announcement is sent as Deliver put it together, and the model's words
\* are one folded quote in it: none of their marks pairs with one of the result
\* block, the quote keeps its closing mark and nothing is cut off it.  They do not
\* vanish because of the marks around them: a line is kept where there is room for
\* a rune with its escape and the marks of the quote.  fitCeremony, markdown_test.go.
SentAsPutTogether ==
  draw # NoDraw =>
    \A ceremony \in {Ceremony} :
      /\ Calm(answer) => /\ SentAsIs(Text(ceremony))
                         /\ ceremony # <<>> => IsFoldedQuote(ceremony)
      /\ ~Blank(answer) /\ Newline \notin Range(Trimmed(answer)) /\ Ceiling(draw.result) >= 7
           => ceremony # <<>>
=============================================================================

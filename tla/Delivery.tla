------------------------------ MODULE Delivery ------------------------------
(***************************************************************************)
(* How a text is made to fit a message: the cut of a repaired text to a    *)
(* limit (telegram/message.go), and the announcement put together from a   *)
(* result block and as much of a model's words as is left room for         *)
(* (handlers/winner/announce.go).  The repair and the quote of MarkdownV2  *)
(* are parameters here: Markup says what they are.                         *)
(***************************************************************************)
EXTENDS Texts

CONSTANTS
  SanitizeV2(_),         \* the repair of a text to valid MarkdownV2
  QuoteExpandableV2(_),  \* a text as a folded quote
  NoDraw,                \* nothing was rendered yet
  MaxMessageRunes,
  MaxAnswer              \* bound: the runes of the answer

VARIABLES
  draw,     \* the queued announcement: its result block
  answer    \* what the model has written

delivery == <<draw, answer>>

-----------------------------------------------------------------------------
(* The cut *)

\* Where FitV2 cuts next, after a cut at limit gave a text of that length.
NextLimit(limit, maxRunes, length) ==
  LET next == (limit * maxRunes) \div length
  IN  IF next >= limit THEN limit - 1 ELSE next

\* Mutant: one cut, as if a repair did not lengthen the text.
MutantCutFrom(s, limit, maxRunes) == SanitizeV2(SubSeq(s, 1, limit))

\* The loop of FitV2 from a cut at limit on.
CutFrom(s, limit, maxRunes) ==
  LET cut[n \in 0 .. limit] ==
        LET out == SanitizeV2(SubSeq(s, 1, n))
        IN  IF Len(out) <= maxRunes \/ n = 0 THEN out
            ELSE cut[NextLimit(n, maxRunes, Len(out))]
  IN  cut[limit]

\* The whole text if it fits, else what a prefix of the raw one gives.
FitV2(s, maxRunes) ==
  LET whole == SanitizeV2(s)
  IN  IF maxRunes <= 0 THEN <<>>
      ELSE IF Len(whole) <= maxRunes THEN whole
      ELSE CutFrom(s, Min({maxRunes, Len(s)}), maxRunes)

\* prepareOutboundText, on the way of every message.
Outbound(s) == FitV2(s, MaxMessageRunes)

-----------------------------------------------------------------------------
(* The announcement *)

JoinBlock(head, block) ==
  CASE head = <<>>  -> block
    [] block = <<>> -> head
    [] OTHER        -> head \o <<Newline, Newline>> \o block

\* What is left of the message beside the result block.
Ceiling(result) == MaxMessageRunes - Len(result) - 2

\* The loop of fitCeremony: what the quote is too long by comes off the cut.
FoldedIn(text, ceiling) ==
  LET folded[fit \in 0 .. ceiling] ==
        LET quote == QuoteExpandableV2(FitV2(text, fit))
            over  == Len(quote) - ceiling
        IN  IF fit = 0 THEN <<>>
            ELSE IF over <= 0 THEN quote
            ELSE folded[IF over < fit THEN fit - over ELSE 0]
  IN  IF ceiling > 0 THEN folded[ceiling] ELSE <<>>

\* Mutant: the cut is taken after the quote was built.
MutantFitCeremony(text, result) == FitV2(QuoteExpandableV2(text), Ceiling(result))

FitCeremony(text, result) == FoldedIn(text, Ceiling(result))

\* Deliver: the model's words, trimmed, under the result.
Ceremony == FitCeremony(Trimmed(answer), draw.result)
Text(ceremony) == JoinBlock(draw.result, ceremony)

-----------------------------------------------------------------------------
DeliveryInit ==
  /\ draw = NoDraw
  /\ answer = <<>>

\* An announcement is queued with its result block.
Queue(result) ==
  /\ draw = NoDraw
  /\ draw' = [result |-> result]
  /\ UNCHANGED answer

\* One more piece of the answer Deliver may get.
Answer(piece) ==
  /\ draw # NoDraw
  /\ Len(answer) + Len(piece) <= MaxAnswer
  /\ answer' = answer \o piece
  /\ UNCHANGED draw

DeliveryNext ==
  \/ \E result \in Seq(Runes) : Queue(result)
  \/ \E piece \in Seq(Runes) : Answer(piece)

DeliverySpec == DeliveryInit /\ [][DeliveryNext]_delivery

-----------------------------------------------------------------------------
(* Properties *)

\* What the constants are: a repair and a quote make texts of texts, and nothing of
\* nothing.
DeliveryTypes ==
  /\ {MaxMessageRunes, MaxAnswer} \subseteq Nat
  /\ \A s \in Seq(Runes) : SanitizeV2(s) \in Seq(Runes) /\ QuoteExpandableV2(s) \in Seq(Runes)
  /\ SanitizeV2(<<>>) = <<>>

\* The repaired beginnings of a text.
Beginnings(s) == {SanitizeV2(SubSeq(s, 1, k)) : k \in 0 .. Len(s)}

\* However much a repair lengthens a text, the cut fits what it is cut to, and is
\* the repair of a beginning: it is not cut once more behind the repair.  So are a
\* model's words, with the marks of their quote whole, and they fit what the result
\* block leaves: the announcement is one message.  FitV2, fitCeremony.
CutFits ==
  /\ \A n \in 1 .. MaxAnswer : FitV2(answer, n) \in {cut \in Beginnings(answer) : Len(cut) <= n}
  /\ draw # NoDraw =>
       \A ceremony \in {Ceremony} :
         /\ \/ ceremony = <<>>
            \/ ceremony \in {QuoteExpandableV2(cut) : cut \in Beginnings(Trimmed(answer))}
         /\ Len(draw.result) <= MaxMessageRunes
              => Len(Text(ceremony)) <= MaxMessageRunes
=============================================================================

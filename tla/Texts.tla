-------------------------------- MODULE Texts --------------------------------
(***************************************************************************)
(* What the bot does with texts, from Go's strings package.  A text is a   *)
(* sequence of runes, a rune the string of one character.  The loops are   *)
(* recursive functions on the positions of a sequence.                     *)
(***************************************************************************)
EXTENDS Integers, FiniteSets, SequencesExt

CONSTANT Runes  \* what texts are made of

Newline == "\n"

White == {" ", Newline}

\* strings.TrimSpace.
Trimmed(s) ==
  LET ink == {i \in DOMAIN s : s[i] \notin White}
  IN  IF ink = {} THEN <<>> ELSE SubSeq(s, Min(ink), Max(ink))

Blank(s) == Trimmed(s) = <<>>

\* strings.Join.
JoinedBy(separator, texts) ==
  LET joined[n \in 0 .. Len(texts)] ==
        CASE n = 0 -> <<>>
          [] n = 1 -> texts[1]
          [] OTHER -> joined[n - 1] \o separator \o texts[n]
  IN  joined[Len(texts)]

Joined(lines) == JoinedBy(<<Newline>>, lines)

\* The line breaks of a text: it has one line more.
Breaks(s) == Cardinality({i \in DOMAIN s : s[i] = Newline})

\* The beginning of s, n runes at most.
Beginning(s, n) == SubSeq(s, 1, Min({n, Len(s)}))
=============================================================================

-------------------------- MODULE AnnouncementProofs --------------------------
(***************************************************************************)
(* Theorems about the two halves of Announcement: the prompt, for every    *)
(* log, every name, every label and every size of the context; and the     *)
(* delivery, for every repair and quote of markup, every answer and every  *)
(* limit.                                                                  *)
(***************************************************************************)
EXTENDS DrawPrompt, Delivery, FiniteSetTheorems, WellFoundedInduction, TLAPS

(* Induction *)

LEMMA LeastNumber ==
  ASSUME NEW left \in SUBSET Nat, left # {}
  PROVE  \E x \in left : \A y \in left : x <= y
<1> DEFINE R == {p \in Nat \X Nat : p[1] < p[2]}
<1>1. IsWellFoundedOn(R, Nat)
  BY NatLessThanWellFounded DEF OpToRel
<1>2. \A x, y \in Nat : <<y, x>> \notin R => x <= y
  OBVIOUS
<1> HIDE DEF R
<1>3. PICK x \in left : \A y \in left : ~(<<y, x>> \in R)
  BY <1>1, WFMin
<1>4. QED
  BY <1>2, <1>3

\* Induction up to a number, over the set of numbers a fact holds of.
LEMMA CountUp ==
  ASSUME NEW n \in Nat, NEW S, 0 \in S, \A i \in 0 .. n - 1 : i \in S => i + 1 \in S
  PROVE  \A i \in 0 .. n : i \in S
<1> DEFINE left == {i \in 0 .. n : i \notin S}
<1>1. SUFFICES ASSUME left # {} PROVE FALSE
  OBVIOUS
<1>2. left \in SUBSET Nat
  OBVIOUS
<1>3. PICK i \in left : \A j \in left : i <= j
  <2> HIDE DEF left
  <2> QED
    BY <1>1, <1>2, LeastNumber
<1>4. i \in 1 .. n /\ i - 1 \notin left
  BY <1>3
<1>5. QED
  BY <1>4

\* A function that is given step by step, and that there is one.
AreSteps(n, S, step) == step \in [1 .. n -> [S -> S]]

Follows(n, S, base, step, f) ==
  /\ f \in [0 .. n -> S] /\ f[0] = base
  /\ \A i \in 1 .. n : f[i] = step[i][f[i - 1]]

LEMMA Steps ==
  ASSUME NEW n \in Nat, NEW S, NEW base \in S, NEW step, AreSteps(n, S, step)
  PROVE  \E f : Follows(n, S, base, step, f)
<1> USE DEF AreSteps
<1> DEFINE Upto(k, f) == /\ f \in [0 .. k -> S] /\ f[0] = base
                         /\ \A i \in 1 .. k : f[i] = step[i][f[i - 1]]
           D == {k \in Nat : \E f : Upto(k, f)}
<1>1. 0 \in D
  <2>1. Upto(0, [i \in 0 .. 0 |-> base])
    OBVIOUS
  <2> QED
    BY <2>1
<1>2. ASSUME NEW k \in 0 .. n - 1, k \in D
      PROVE  k + 1 \in D
  <2>1. PICK f : Upto(k, f)
    BY <1>2
  <2> DEFINE g == [i \in 0 .. k + 1 |-> IF i = k + 1 THEN step[k + 1][f[k]] ELSE f[i]]
  <2>2. step[k + 1] \in [S -> S] /\ f[k] \in S
    BY <2>1
  <2>3. g \in [0 .. k + 1 -> S] /\ g[0] = base
    BY <2>1, <2>2
  <2>4. ASSUME NEW i \in 1 .. k + 1
        PROVE  g[i] = step[i][g[i - 1]]
    BY <2>1
  <2>5. Upto(k + 1, g)
    BY <2>3, <2>4
  <2> HIDE DEF Upto, g
  <2> QED
    BY <2>5
<1>3. \A i \in 0 .. n : i \in D
  <2> HIDE DEF D
  <2> QED
    BY <1>1, <1>2, CountUp
<1>4. n \in D
  <2> HIDE DEF D
  <2> QED
    BY <1>3
<1>5. PICK f : Upto(n, f)
  <2> HIDE DEF Upto
  <2> QED
    BY <1>4
<1>6. Follows(n, S, base, step, f)
  BY <1>5 DEF Follows
<1> QED
  BY <1>6

-----------------------------------------------------------------------------
(* Texts *)

\* A text without a line break.
Inline == Seq(Runes \ {Newline})

LEMMA TextFacts ==
  ASSUME NEW R, NEW s \in Seq(R)
  PROVE  /\ Len(s) \in Nat /\ DOMAIN s = 1 .. Len(s)
         /\ \A i \in 1 .. Len(s) : s[i] \in R
OBVIOUS

LEMMA Concat ==
  ASSUME NEW R, NEW s \in Seq(R), NEW t \in Seq(R)
  PROVE  s \o t \in Seq(R) /\ Len(s \o t) = Len(s) + Len(t)
OBVIOUS

\* A part of a text.
LEMMA PartType ==
  ASSUME NEW R, NEW s \in Seq(R), NEW m \in 1 .. Len(s), NEW n \in 0 .. Len(s)
  PROVE  SubSeq(s, m, n) \in Seq(R)
OBVIOUS

LEMMA MinOfTwo ==
  ASSUME NEW m \in Nat, NEW n \in Nat
  PROVE  Min({m, n}) \in {m, n} /\ Min({m, n}) \in 0 .. m /\ Min({m, n}) \in 0 .. n
<1>1. \E x \in {m, n} : \A y \in {m, n} : x <= y
  <2>1. CASE m <= n
    BY <2>1
  <2>2. CASE n <= m
    BY <2>2
  <2> QED
    BY <2>1, <2>2
<1>2. Min({m, n}) \in {m, n} /\ \A y \in {m, n} : Min({m, n}) <= y
  BY <1>1 DEF Min
<1> QED
  BY <1>2

LEMMA BeginningType ==
  ASSUME NEW R, NEW s \in Seq(R), NEW n \in Nat
  PROVE  Beginning(s, n) \in Seq(R) /\ Len(Beginning(s, n)) <= n
<1>1. Len(s) \in Nat
  OBVIOUS
<1>2. PICK k \in 0 .. Len(s) : k = Min({n, Len(s)}) /\ k <= n
  BY <1>1, MinOfTwo
<1>3. SubSeq(s, 1, k) \in Seq(R) /\ Len(SubSeq(s, 1, k)) = k
  BY <1>1
<1> QED
  BY <1>2, <1>3 DEF Beginning

\* The least and the greatest of some positions.
LEMMA Ends ==
  ASSUME NEW n \in Nat, NEW S \in SUBSET (0 .. n), S # {}
  PROVE  Min(S) \in S /\ Max(S) \in S
<1>1. S \in SUBSET Nat
  OBVIOUS
<1>2. \E x \in S : \A y \in S : x <= y
  BY <1>1, LeastNumber
<1>3. \E x \in S : \A y \in S : y <= x
  <2> DEFINE D == {d \in 0 .. n : n - d \in S}
  <2>1. D \in SUBSET Nat /\ D # {}
    <3>1. PICK x \in S : TRUE
      OBVIOUS
    <3>2. n - x \in 0 .. n /\ n - (n - x) = x
      OBVIOUS
    <3>3. n - x \in D
      BY <3>2
    <3>4. D \in SUBSET Nat
      OBVIOUS
    <3> HIDE DEF D
    <3> QED
      BY <3>3, <3>4
  <2>2. PICK d \in D : \A e \in D : d <= e
    <3> HIDE DEF D
    <3> QED
      BY <2>1, LeastNumber
  <2>3. ASSUME NEW y \in S PROVE y <= n - d
    <3>1. n - y \in D
      OBVIOUS
    <3>2. d <= n - y
      BY <2>2, <3>1
    <3> QED
      BY <3>2
  <2>4. n - d \in S
    BY <2>2
  <2> QED
    BY <2>3, <2>4
<1> QED
  BY <1>2, <1>3 DEF Min, Max

\* What is left of a text that is trimmed has no new runes.
LEMMA TrimmedType ==
  ASSUME NEW R, NEW s \in Seq(R)
  PROVE  Trimmed(s) \in Seq(R)
<1> DEFINE ink == {i \in DOMAIN s : s[i] \notin White}
<1>1. CASE ink = {}
  BY <1>1 DEF Trimmed
<1>2. CASE ink # {}
  <2>1. Len(s) \in Nat /\ ink \in SUBSET (1 .. Len(s)) /\ ink \in SUBSET (0 .. Len(s))
    OBVIOUS
  <2>2. Min(ink) \in ink /\ Max(ink) \in ink
    <3> HIDE DEF ink
    <3> QED
      BY <1>2, <2>1, Ends
  <2>3. Trimmed(s) = SubSeq(s, Min(ink), Max(ink))
    BY <1>2 DEF Trimmed
  <2> HIDE DEF ink
  <2>4. Min(ink) \in 1 .. Len(s) /\ Max(ink) \in 0 .. Len(s)
    BY <2>1, <2>2
  <2>5. SubSeq(s, Min(ink), Max(ink)) \in Seq(R)
    BY <2>4, PartType
  <2> QED
    BY <2>3, <2>5
<1> QED
  BY <1>1, <1>2

\* oneLine returns a line.
LEMMA OneLineType ==
  ASSUME NEW s \in Seq(Runes)
  PROVE  OneLine(s) \in Inline
<1> DEFINE t == [i \in DOMAIN s |-> IF s[i] = Newline THEN " " ELSE s[i]]
<1>1. t \in Seq(Runes \ {Newline})
  <2>1. " " # Newline /\ " " \in Runes
    BY PromptAssumption DEF Newline
  <2>2. Len(s) \in Nat /\ DOMAIN s = 1 .. Len(s) /\ \A i \in 1 .. Len(s) : s[i] \in Runes
    OBVIOUS
  <2>3. t \in [1 .. Len(s) -> Runes \ {Newline}]
    BY <2>1, <2>2
  <2> HIDE DEF t
  <2> DEFINE R == Runes \ {Newline}
             n == Len(s)
  <2>4. n \in Nat /\ t \in [1 .. n -> R]
    BY <2>2, <2>3
  <2> HIDE DEF R, n
  <2>5. t \in Seq(R)
    BY <2>4
  <2> QED
    BY <2>5 DEF R
<1>2. Trimmed(t) \in Seq(Runes \ {Newline})
  <2> HIDE DEF t
  <2> QED
    BY <1>1, TrimmedType
<1> QED
  BY <1>2 DEF OneLine, Inline
-----------------------------------------------------------------------------
(* strings.Join *)

\* What is joined up to the n-th text.
JoinedUpTo(separator, texts, n, joined) ==
  CASE n = 0 -> <<>>
    [] n = 1 -> texts[1]
    [] OTHER -> joined[n - 1] \o separator \o texts[n]

JoinedStepwise(separator, texts, c) ==
  /\ JoinedBy(separator, texts) = c[Len(texts)] /\ c[0] = <<>>
  /\ \A i \in 1 .. Len(texts) :
       c[i] = IF i = 1 THEN texts[1] ELSE c[i - 1] \o separator \o texts[i]

LEMMA JoinedBySteps ==
  ASSUME NEW R, NEW separator \in Seq(R), NEW texts \in Seq(Seq(R))
  PROVE  \E c \in [0 .. Len(texts) -> Seq(R)] : JoinedStepwise(separator, texts, c)
<1> DEFINE N == Len(texts)
           S == Seq(R)
           step == [i \in 1 .. N |-> [s \in S |-> IF i = 1 THEN texts[1]
                                                ELSE s \o separator \o texts[i]]]
           F(g) == [n \in 0 .. N |-> JoinedUpTo(separator, texts, n, g)]
<1>1. N \in Nat /\ \A i \in 1 .. N : texts[i] \in S
  OBVIOUS
<1>2. step \in [1 .. N -> [S -> S]] /\ <<>> \in S
  <2>1. ASSUME NEW i \in 1 .. N, NEW s \in S
        PROVE  (IF i = 1 THEN texts[1] ELSE s \o separator \o texts[i]) \in S
    <3>1. texts[i] \in Seq(R) /\ 1 \in 1 .. N
      BY <1>1
    <3>2. s \o separator \in Seq(R)
      OBVIOUS
    <3>3. (s \o separator) \o texts[i] \in Seq(R)
      BY <3>1, <3>2
    <3> QED
      BY <1>1, <3>1, <3>3
  <2> HIDE DEF S, N
  <2>2. step \in [1 .. N -> [S -> S]]
    BY <2>1
  <2> QED
    BY <2>2 DEF S
<1>3. \E f : Follows(N, S, <<>>, step, f)
  <2> DEFINE base == <<>>
  <2>1. N \in Nat /\ base \in S /\ AreSteps(N, S, step)
    BY <1>1, <1>2 DEF AreSteps
  <2> HIDE DEF S, step, N, base
  <2>2. \E f : Follows(N, S, base, step, f)
    BY <2>1, Steps
  <2> QED
    BY <2>2 DEF base
<1>4. \E f : f = F(f)
  <2>1. PICK f \in [0 .. N -> S] : f[0] = <<>> /\ \A i \in 1 .. N : f[i] = step[i][f[i - 1]]
    BY <1>3 DEF Follows
  <2>2. \A i \in 1 .. N : f[i - 1] \in S
    <3> HIDE DEF S, N
    <3> QED
      BY <1>1, <2>1
  <2>3. \A i \in 1 .. N : f[i] = IF i = 1 THEN texts[1] ELSE f[i - 1] \o separator \o texts[i]
    <3> HIDE DEF S, N
    <3> QED
      BY <2>1, <2>2
  <2>4. ASSUME NEW i \in 0 .. N
        PROVE  f[i] = JoinedUpTo(separator, texts, i, f)
    <3>1. CASE i = 0
      BY <2>1, <3>1 DEF JoinedUpTo
    <3>2. CASE i # 0
      <4>1. i \in 1 .. N
        BY <1>1, <3>2
      <4> QED
        BY <2>3, <3>2, <4>1 DEF JoinedUpTo
    <3> QED
      BY <3>1, <3>2
  <2>5. f = [i \in 0 .. N |-> f[i]]
    BY <2>1
  <2>6. f = F(f)
    BY <2>4, <2>5
  <2> QED
    BY <2>6
<1> DEFINE c == CHOOSE g : g = F(g)
<1>5. JoinedBy(separator, texts) = c[N]
  BY DEF JoinedBy, JoinedUpTo
<1>6. c = F(c)
  BY <1>4
<1> HIDE DEF c
<1>7. c[0] = <<>> /\ \A i \in 1 .. N : c[i] = IF i = 1 THEN texts[1] ELSE c[i - 1] \o separator \o texts[i]
  <2>1. \A i \in 0 .. N : c[i] = JoinedUpTo(separator, texts, i, c)
    BY <1>6
  <2>2. 0 \in 0 .. N /\ \A i \in 1 .. N : i \in 0 .. N /\ i # 0
    BY <1>1
  <2> HIDE DEF N
  <2> QED
    BY <2>1, <2>2 DEF JoinedUpTo
<1>8. DOMAIN c = 0 .. N /\ c = [i \in 0 .. N |-> c[i]]
  <2>1. F(c) = [i \in 0 .. N |-> F(c)[i]] /\ DOMAIN F(c) = 0 .. N
    BY DEF F
  <2> HIDE DEF F
  <2> QED
    BY <1>6, <2>1
<1> HIDE DEF F
<1> DEFINE D == {n \in Nat : c[n] \in S}
<1>9. 0 \in D
  BY <1>2, <1>7
<1>10. ASSUME NEW i \in 0 .. N - 1, i \in D
       PROVE  i + 1 \in D
  <2>1. i + 1 \in 1 .. N /\ i + 1 - 1 = i
    BY <1>1
  <2>2. c[i + 1] = IF i + 1 = 1 THEN texts[1] ELSE c[i] \o separator \o texts[i + 1]
    BY <1>7, <2>1
  <2>3. texts[i + 1] \in S /\ c[i] \in S
    BY <1>1, <1>10, <2>1
  <2>4. c[i] \o separator \in Seq(R)
    BY <2>3
  <2>5. (c[i] \o separator) \o texts[i + 1] \in Seq(R)
    BY <2>3, <2>4
  <2>6. c[i + 1] \in S
    BY <2>2, <2>3, <2>5
  <2> QED
    BY <2>1, <2>6
<1>11. \A i \in 0 .. N : i \in D
  <2>1. N \in Nat
    BY <1>1
  <2> HIDE DEF D, N
  <2> QED
    BY <2>1, <1>9, <1>10, CountUp
<1>12. c \in [0 .. N -> S]
  <2>1. \A i \in 0 .. N : c[i] \in S
    BY <1>11
  <2> HIDE DEF S, N
  <2> QED
    BY <1>8, <2>1
<1>13. JoinedStepwise(separator, texts, c)
  BY <1>5, <1>7 DEF JoinedStepwise
<1> QED
  BY <1>12, <1>13
-----------------------------------------------------------------------------
(* The log *)

LEMMA LineTypes ==
  ASSUME NEW s \in Inline, NEW t \in Inline
  PROVE  /\ s \o t \in Inline /\ Len(s \o t) = Len(s) + Len(t) /\ Len(s) \in Nat
         /\ \A n \in Nat : Beginning(s, n) \in Inline
  BY BeginningType DEF Inline

LEMMA Bits ==
  /\ <<":", " ">> \in Inline /\ <<" ", "/", " ">> \in Inline /\ <<".">> \in Inline
  /\ <<"?">> \in Seq(Runes) /\ <<Newline>> \in Seq(Runes) /\ <<>> \in Inline
<1>1. {" ", ":", ".", "/"} \subseteq Runes \ {Newline}
  BY PromptAssumption DEF Newline
<1> DEFINE R == Runes \ {Newline}
<1>2. " " \in R /\ ":" \in R /\ "." \in R /\ "/" \in R
  BY <1>1
<1> HIDE DEF R
<1>3. ASSUME NEW Q, NEW a \in Q, NEW b \in Q
      PROVE  /\ <<a>> \in Seq(Q) /\ <<a, b>> \in Seq(Q) /\ <<a, b, a>> \in Seq(Q)
  OBVIOUS
<1>4. "?" \in Runes /\ Newline \in Runes
  BY PromptAssumption
<1>5. <<":", " ">> \in Seq(R) /\ <<" ", "/", " ">> \in Seq(R) /\ <<".">> \in Seq(R)
  BY <1>2, <1>3
<1>6. <<"?">> \in Seq(Runes) /\ <<Newline>> \in Seq(Runes)
  BY <1>3, <1>4
<1>7. <<>> \in Seq(R)
  OBVIOUS
<1> QED
  BY <1>5, <1>6, <1>7 DEF R, Inline

\* A row makes a line, and a scorer's words do.
LEMMA RowTypes ==
  ASSUME NEW read \in Seq(Rows)
  PROVE  /\ Len(read) \in Nat
         /\ \A i \in 1 .. Len(read) :
              /\ LogLine(read[i]) \in Inline
              /\ Beginning(OneLine(read[i].text), ScorerQuoteRunes) \in Inline
         /\ \A i \in 1 .. Len(read) : LogLine(read[Len(read) - i + 1]) \in Inline
<1>1. Len(read) \in Nat /\ \A i \in 1 .. Len(read) : read[i] \in Rows
  OBVIOUS
<1>2. ASSUME NEW row \in Rows
      PROVE  LogLine(row) \in Inline /\ Beginning(OneLine(row.text), ScorerQuoteRunes) \in Inline
  <2>1. row.user \in DOMAIN Names /\ row.text \in Seq(Runes)
    BY PromptAssumption
  <2>2. Names[row.user] \in Seq(Runes)
    BY <2>1, PromptAssumption
  <2>3. DisplayName(row.user) \in Seq(Runes)
    BY <2>2, Bits DEF DisplayName
  <2>4. OneLine(DisplayName(row.user)) \in Inline /\ OneLine(row.text) \in Inline
    BY <2>1, <2>3, OneLineType
  <2>5. OneLine(DisplayName(row.user)) \o <<":", " ">> \in Inline
    BY <2>4, Bits, LineTypes
  <2>6. LogLine(row) \in Inline
    BY <2>4, <2>5, LineTypes DEF LogLine
  <2>7. ScorerQuoteRunes \in Nat
    BY PromptAssumption
  <2> QED
    BY <2>4, <2>6, <2>7, LineTypes
<1>3. \A i \in 1 .. Len(read) : Len(read) - i + 1 \in 1 .. Len(read)
  BY <1>1
<1> QED
  BY <1>1, <1>2, <1>3

\* The size up to the n-th line.
SizeUpTo(lines, n, size) == IF n = 0 THEN 0 ELSE size[n - 1] + Len(lines[n]) + 1

LEMMA LogSizeSteps ==
  ASSUME NEW R, NEW lines \in Seq(Seq(R))
  PROVE  \E c \in [0 .. Len(lines) -> Nat] :
           /\ LogSize(lines) = c[Len(lines)] /\ c[0] = 0
           /\ \A i \in 1 .. Len(lines) : c[i] = c[i - 1] + Len(lines[i]) + 1
<1> DEFINE N == Len(lines)
           S == Nat
           step == [i \in 1 .. N |-> [s \in S |-> s + Len(lines[i]) + 1]]
           F(g) == [n \in 0 .. N |-> SizeUpTo(lines, n, g)]
<1>1. N \in Nat /\ \A i \in 1 .. N : Len(lines[i]) \in Nat
  OBVIOUS
<1>2. step \in [1 .. N -> [S -> S]] /\ 0 \in S
  <2>1. ASSUME NEW i \in 1 .. N, NEW s \in S
        PROVE  (s + Len(lines[i]) + 1) \in S
    BY <1>1
  <2>2. 0 \in S
    OBVIOUS
  <2> HIDE DEF S, N
  <2>3. step \in [1 .. N -> [S -> S]]
    BY <2>1
  <2> QED
    BY <2>2, <2>3
<1>3. \E f : Follows(N, S, 0, step, f)
  <2> DEFINE base == 0
  <2>1. N \in Nat /\ base \in S /\ AreSteps(N, S, step)
    BY <1>1, <1>2 DEF AreSteps
  <2> HIDE DEF S, step, N, base
  <2>2. \E f : Follows(N, S, base, step, f)
    BY <2>1, Steps
  <2> QED
    BY <2>2 DEF base
<1>4. \E f : f = F(f)
  <2>1. PICK f \in [0 .. N -> S] : f[0] = 0 /\ \A i \in 1 .. N : f[i] = step[i][f[i - 1]]
    <3> HIDE DEF S, N, step
    <3> QED
      BY <1>3 DEF Follows
  <2>2. \A i \in 1 .. N : f[i - 1] \in S
    <3> HIDE DEF S, N
    <3> QED
      BY <1>1, <2>1
  <2>3. \A i \in 1 .. N : f[i] = f[i - 1] + Len(lines[i]) + 1
    <3> HIDE DEF S, N
    <3> QED
      BY <2>1, <2>2
  <2>4. ASSUME NEW i \in 0 .. N
        PROVE  f[i] = SizeUpTo(lines, i, f)
    <3>1. CASE i = 0
      BY <2>1, <3>1 DEF SizeUpTo
    <3>2. CASE i # 0
      <4>1. i \in 1 .. N
        BY <1>1, <3>2
      <4> HIDE DEF S, N
      <4> QED
        BY <2>3, <3>2, <4>1 DEF SizeUpTo, N
    <3> QED
      BY <3>1, <3>2
  <2>5. f = [i \in 0 .. N |-> f[i]]
    <3> HIDE DEF S, N
    <3> QED
      BY <2>1
  <2>6. f = F(f)
    BY <2>4, <2>5
  <2> QED
    BY <2>6
<1> DEFINE c == CHOOSE g : g = F(g)
<1>5. LogSize(lines) = c[N]
  BY DEF SizeUpTo, LogSize
<1>6. c = F(c)
  BY <1>4
<1> HIDE DEF c
<1>7. c[0] = 0 /\ \A i \in 1 .. N : c[i] = c[i - 1] + Len(lines[i]) + 1
  <2>1. \A i \in 0 .. N : c[i] = SizeUpTo(lines, i, c)
    BY <1>6
  <2>2. 0 \in 0 .. N /\ \A i \in 1 .. N : i \in 0 .. N /\ i # 0
    BY <1>1
  <2> HIDE DEF N
  <2> QED
    BY <2>1, <2>2 DEF SizeUpTo, N
<1>8. DOMAIN c = 0 .. N /\ c = [i \in 0 .. N |-> c[i]]
  <2>1. F(c) = [i \in 0 .. N |-> F(c)[i]] /\ DOMAIN F(c) = 0 .. N
    BY DEF F
  <2> HIDE DEF F
  <2> QED
    BY <1>6, <2>1
<1> HIDE DEF F
<1> DEFINE D == {n \in Nat : c[n] \in S}
<1>9. 0 \in D
  BY <1>2, <1>7
<1>10. ASSUME NEW i \in 0 .. N - 1, i \in D
       PROVE  i + 1 \in D
  <2>1. i + 1 \in 1 .. N /\ i + 1 - 1 = i /\ c[i] \in S
    BY <1>1, <1>10
  <2>2. c[i + 1] = step[i + 1][c[i]]
    <3> HIDE DEF S, N
    <3> QED
      BY <1>7, <2>1
  <2>3. c[i + 1] \in S
    <3> HIDE DEF S, N, step
    <3> QED
      BY <1>2, <2>1, <2>2
  <2> QED
    BY <2>1, <2>3
<1>11. \A i \in 0 .. N : i \in D
  <2>1. N \in Nat
    BY <1>1
  <2> HIDE DEF D, N
  <2> QED
    BY <2>1, <1>9, <1>10, CountUp
<1>12. c \in [0 .. N -> S]
  <2>1. \A i \in 0 .. N : c[i] \in S
    BY <1>11
  <2> HIDE DEF S, N
  <2> QED
    BY <1>8, <2>1
<1> QED
  BY <1>5, <1>7, <1>12

\* The lines of the oldest n rows.
LogUpTo(read, n, lines) ==
  IF n = 0 THEN <<>>
  ELSE LET row == read[Len(read) - n + 1]
       IN  IF Trimmed(row.text) = <<>> \/ ByBot(row) THEN lines[n - 1]
           ELSE Append(lines[n - 1], LogLine(row))

LogStep(row, lines) == IF Trimmed(row.text) = <<>> \/ ByBot(row) THEN lines
                       ELSE Append(lines, LogLine(row))

LEMMA FormatLogSteps ==
  ASSUME NEW read \in Seq(Rows)
  PROVE  \E c \in [0 .. Len(read) -> Seq(Inline)] :
           /\ FormatLog(read) = c[Len(read)] /\ c[0] = <<>>
           /\ \A i \in 1 .. Len(read) : c[i] = LogStep(read[Len(read) - i + 1], c[i - 1])
<1> DEFINE N == Len(read)
           S == Seq(Inline)
           step == [i \in 1 .. N |-> [s \in S |-> LogStep(read[Len(read) - i + 1], s)]]
           F(g) == [n \in 0 .. N |-> LogUpTo(read, n, g)]
<1>1. N \in Nat /\ \A i \in 1 .. N : LogLine(read[N - i + 1]) \in Inline
  BY RowTypes
<1>2. step \in [1 .. N -> [S -> S]] /\ <<>> \in S
  <2>1. ASSUME NEW i \in 1 .. N, NEW s \in S
        PROVE  (LogStep(read[Len(read) - i + 1], s)) \in S
    BY <1>1 DEF LogStep
  <2>2. <<>> \in S
    OBVIOUS
  <2> HIDE DEF S, N
  <2>3. step \in [1 .. N -> [S -> S]]
    BY <2>1
  <2> QED
    BY <2>2, <2>3
<1>3. \E f : Follows(N, S, <<>>, step, f)
  <2> DEFINE base == <<>>
  <2>1. N \in Nat /\ base \in S /\ AreSteps(N, S, step)
    BY <1>1, <1>2 DEF AreSteps
  <2> HIDE DEF S, step, N, base
  <2>2. \E f : Follows(N, S, base, step, f)
    BY <2>1, Steps
  <2> QED
    BY <2>2 DEF base
<1>4. \E f : f = F(f)
  <2>1. PICK f \in [0 .. N -> S] : f[0] = <<>> /\ \A i \in 1 .. N : f[i] = step[i][f[i - 1]]
    <3> HIDE DEF S, N, step
    <3> QED
      BY <1>3 DEF Follows
  <2>2. \A i \in 1 .. N : f[i - 1] \in S
    <3> HIDE DEF S, N
    <3> QED
      BY <1>1, <2>1
  <2>3. \A i \in 1 .. N : f[i] = LogStep(read[Len(read) - i + 1], f[i - 1])
    <3> HIDE DEF S, N
    <3> QED
      BY <2>1, <2>2
  <2>4. ASSUME NEW i \in 0 .. N
        PROVE  f[i] = LogUpTo(read, i, f)
    <3>1. CASE i = 0
      BY <2>1, <3>1 DEF LogUpTo, LogStep
    <3>2. CASE i # 0
      <4>1. i \in 1 .. N
        BY <1>1, <3>2
      <4> HIDE DEF S, N
      <4> QED
        BY <2>3, <3>2, <4>1 DEF LogUpTo, LogStep, N
    <3> QED
      BY <3>1, <3>2
  <2>5. f = [i \in 0 .. N |-> f[i]]
    <3> HIDE DEF S, N
    <3> QED
      BY <2>1
  <2>6. f = F(f)
    BY <2>4, <2>5
  <2> QED
    BY <2>6
<1> DEFINE c == CHOOSE g : g = F(g)
<1>5. FormatLog(read) = c[N]
  BY DEF LogUpTo, LogStep, FormatLog
<1>6. c = F(c)
  BY <1>4
<1> HIDE DEF c
<1>7. c[0] = <<>> /\ \A i \in 1 .. N : c[i] = LogStep(read[Len(read) - i + 1], c[i - 1])
  <2>1. \A i \in 0 .. N : c[i] = LogUpTo(read, i, c)
    BY <1>6
  <2>2. 0 \in 0 .. N /\ \A i \in 1 .. N : i \in 0 .. N /\ i # 0
    BY <1>1
  <2> HIDE DEF N
  <2> QED
    BY <2>1, <2>2 DEF LogUpTo, LogStep, N
<1>8. DOMAIN c = 0 .. N /\ c = [i \in 0 .. N |-> c[i]]
  <2>1. F(c) = [i \in 0 .. N |-> F(c)[i]] /\ DOMAIN F(c) = 0 .. N
    BY DEF F
  <2> HIDE DEF F
  <2> QED
    BY <1>6, <2>1
<1> HIDE DEF F
<1> DEFINE D == {n \in Nat : c[n] \in S}
<1>9. 0 \in D
  BY <1>2, <1>7
<1>10. ASSUME NEW i \in 0 .. N - 1, i \in D
       PROVE  i + 1 \in D
  <2>1. i + 1 \in 1 .. N /\ i + 1 - 1 = i /\ c[i] \in S
    BY <1>1, <1>10
  <2>2. c[i + 1] = step[i + 1][c[i]]
    <3> HIDE DEF S, N
    <3> QED
      BY <1>7, <2>1
  <2>3. c[i + 1] \in S
    <3> HIDE DEF S, N, step
    <3> QED
      BY <1>2, <2>1, <2>2
  <2> QED
    BY <2>1, <2>3
<1>11. \A i \in 0 .. N : i \in D
  <2>1. N \in Nat
    BY <1>1
  <2> HIDE DEF D, N
  <2> QED
    BY <2>1, <1>9, <1>10, CountUp
<1>12. c \in [0 .. N -> S]
  <2>1. \A i \in 0 .. N : c[i] \in S
    BY <1>11
  <2> HIDE DEF S, N
  <2> QED
    BY <1>8, <2>1
<1> QED
  BY <1>5, <1>7, <1>12

\* The words of the newest n rows.
SaidUpTo(read, user, n, out) ==
  IF n = 0 THEN <<>>
  ELSE IF read[n].user # user \/ OneLine(read[n].text) = <<>> \/ Len(out[n - 1]) = ScorerQuotes
       THEN out[n - 1]
       ELSE Append(out[n - 1], Beginning(OneLine(read[n].text), ScorerQuoteRunes))

SaidStep(row, user, out) ==
  IF row.user # user \/ OneLine(row.text) = <<>> \/ Len(out) = ScorerQuotes THEN out
  ELSE Append(out, Beginning(OneLine(row.text), ScorerQuoteRunes))

LEMMA ScorerExcerptSteps ==
  ASSUME NEW read \in Seq(Rows), NEW user
  PROVE  \E c \in [0 .. Len(read) -> Seq(Inline)] :
           /\ Said(read, user) = c[Len(read)] /\ c[0] = <<>>
           /\ \A i \in 1 .. Len(read) : c[i] = SaidStep(read[i], user, c[i - 1])
<1> DEFINE N == Len(read)
           S == Seq(Inline)
           step == [i \in 1 .. N |-> [s \in S |-> SaidStep(read[i], user, s)]]
           F(g) == [n \in 0 .. N |-> SaidUpTo(read, user, n, g)]
<1>1. N \in Nat /\ \A i \in 1 .. N : Beginning(OneLine(read[i].text), ScorerQuoteRunes) \in Inline
  BY RowTypes
<1>2. step \in [1 .. N -> [S -> S]] /\ <<>> \in S
  <2>1. ASSUME NEW i \in 1 .. N, NEW s \in S
        PROVE  (SaidStep(read[i], user, s)) \in S
    BY <1>1 DEF SaidStep
  <2>2. <<>> \in S
    OBVIOUS
  <2> HIDE DEF S, N
  <2>3. step \in [1 .. N -> [S -> S]]
    BY <2>1
  <2> QED
    BY <2>2, <2>3
<1>3. \E f : Follows(N, S, <<>>, step, f)
  <2> DEFINE base == <<>>
  <2>1. N \in Nat /\ base \in S /\ AreSteps(N, S, step)
    BY <1>1, <1>2 DEF AreSteps
  <2> HIDE DEF S, step, N, base
  <2>2. \E f : Follows(N, S, base, step, f)
    BY <2>1, Steps
  <2> QED
    BY <2>2 DEF base
<1>4. \E f : f = F(f)
  <2>1. PICK f \in [0 .. N -> S] : f[0] = <<>> /\ \A i \in 1 .. N : f[i] = step[i][f[i - 1]]
    <3> HIDE DEF S, N, step
    <3> QED
      BY <1>3 DEF Follows
  <2>2. \A i \in 1 .. N : f[i - 1] \in S
    <3> HIDE DEF S, N
    <3> QED
      BY <1>1, <2>1
  <2>3. \A i \in 1 .. N : f[i] = SaidStep(read[i], user, f[i - 1])
    <3> HIDE DEF S, N
    <3> QED
      BY <2>1, <2>2
  <2>4. ASSUME NEW i \in 0 .. N
        PROVE  f[i] = SaidUpTo(read, user, i, f)
    <3>1. CASE i = 0
      BY <2>1, <3>1 DEF SaidUpTo, SaidStep
    <3>2. CASE i # 0
      <4>1. i \in 1 .. N
        BY <1>1, <3>2
      <4> HIDE DEF S, N
      <4> QED
        BY <2>3, <3>2, <4>1 DEF SaidUpTo, SaidStep, N
    <3> QED
      BY <3>1, <3>2
  <2>5. f = [i \in 0 .. N |-> f[i]]
    <3> HIDE DEF S, N
    <3> QED
      BY <2>1
  <2>6. f = F(f)
    BY <2>4, <2>5
  <2> QED
    BY <2>6
<1> DEFINE c == CHOOSE g : g = F(g)
<1>5. Said(read, user) = c[N]
  BY DEF SaidUpTo, SaidStep, Said
<1>6. c = F(c)
  BY <1>4
<1> HIDE DEF c
<1>7. c[0] = <<>> /\ \A i \in 1 .. N : c[i] = SaidStep(read[i], user, c[i - 1])
  <2>1. \A i \in 0 .. N : c[i] = SaidUpTo(read, user, i, c)
    BY <1>6
  <2>2. 0 \in 0 .. N /\ \A i \in 1 .. N : i \in 0 .. N /\ i # 0
    BY <1>1
  <2> HIDE DEF N
  <2> QED
    BY <2>1, <2>2 DEF SaidUpTo, SaidStep, N
<1>8. DOMAIN c = 0 .. N /\ c = [i \in 0 .. N |-> c[i]]
  <2>1. F(c) = [i \in 0 .. N |-> F(c)[i]] /\ DOMAIN F(c) = 0 .. N
    BY DEF F
  <2> HIDE DEF F
  <2> QED
    BY <1>6, <2>1
<1> HIDE DEF F
<1> DEFINE D == {n \in Nat : c[n] \in S}
<1>9. 0 \in D
  BY <1>2, <1>7
<1>10. ASSUME NEW i \in 0 .. N - 1, i \in D
       PROVE  i + 1 \in D
  <2>1. i + 1 \in 1 .. N /\ i + 1 - 1 = i /\ c[i] \in S
    BY <1>1, <1>10
  <2>2. c[i + 1] = step[i + 1][c[i]]
    <3> HIDE DEF S, N
    <3> QED
      BY <1>7, <2>1
  <2>3. c[i + 1] \in S
    <3> HIDE DEF S, N, step
    <3> QED
      BY <1>2, <2>1, <2>2
  <2> QED
    BY <2>1, <2>3
<1>11. \A i \in 0 .. N : i \in D
  <2>1. N \in Nat
    BY <1>1
  <2> HIDE DEF D, N
  <2> QED
    BY <2>1, <1>9, <1>10, CountUp
<1>12. c \in [0 .. N -> S]
  <2>1. \A i \in 0 .. N : c[i] \in S
    BY <1>11
  <2> HIDE DEF S, N
  <2> QED
    BY <1>8, <2>1
<1> QED
  BY <1>5, <1>7, <1>12

-----------------------------------------------------------------------------
(* Line breaks *)

\* Where the breaks of a text are.
Places(s) == {i \in 1 .. Len(s) : s[i] = Newline}

LEMMA PlacesAreBreaks ==
  ASSUME NEW R, NEW s \in Seq(R)
  PROVE  /\ Breaks(s) = Cardinality(Places(s)) /\ Breaks(s) \in Nat
         /\ IsFiniteSet(Places(s)) /\ Places(s) \in SUBSET (1 .. Len(s)) /\ Len(s) \in Nat
<1>1. Len(s) \in Nat /\ DOMAIN s = 1 .. Len(s)
  OBVIOUS
<1>2. IsFiniteSet(1 .. Len(s))
  BY <1>1, FS_Interval
<1>3. Places(s) \in SUBSET (1 .. Len(s))
  BY DEF Places
<1>4. IsFiniteSet(Places(s))
  BY <1>2, <1>3, FS_Subset
<1>5. Breaks(s) = Cardinality(Places(s))
  BY <1>1 DEF Breaks, Places
<1> QED
  BY <1>1, <1>3, <1>4, <1>5, FS_CardinalityType

\* Two texts have the breaks of both.
LEMMA BreaksOfBoth ==
  ASSUME NEW R, NEW s \in Seq(R), NEW t \in Seq(R)
  PROVE  Breaks(s \o t) = Breaks(s) + Breaks(t)
<1> DEFINE n == Len(s)
           A == Places(s)
           B == Places(t)
           C == {j \in n + 1 .. n + Len(t) : t[j - n] = Newline}
           f == [i \in B |-> i + n]
<1>1. /\ n \in Nat /\ Len(t) \in Nat /\ s \o t \in Seq(R) /\ Len(s \o t) = n + Len(t)
      /\ \A i \in 1 .. n : (s \o t)[i] = s[i]
      /\ \A j \in n + 1 .. n + Len(t) : (s \o t)[j] = t[j - n]
  OBVIOUS
<1>2. /\ IsFiniteSet(A) /\ A \in SUBSET (1 .. n) /\ IsFiniteSet(B) /\ B \in SUBSET (1 .. Len(t))
      /\ Breaks(s) = Cardinality(A) /\ Breaks(t) = Cardinality(B)
      /\ Breaks(s \o t) = Cardinality(Places(s \o t))
  BY <1>1, PlacesAreBreaks
<1>3. Places(s \o t) = A \cup C
  <2>1. ASSUME NEW i
        PROVE  i \in Places(s \o t) <=> i \in A \cup C
    <3>1. i \in 1 .. n + Len(t) <=> i \in 1 .. n \/ i \in n + 1 .. n + Len(t)
      BY <1>1
    <3> QED
      BY <1>1, <3>1 DEF Places
  <2> QED
    BY <2>1
<1>4. A \cap C = {}
  BY <1>1, <1>2
<1>5. f \in Bijection(B, C)
  <2>1. ASSUME NEW i \in B
        PROVE  i + n \in C
    <3>1. i \in 1 .. Len(t) /\ t[i] = Newline
      BY DEF Places
    <3>2. i + n \in n + 1 .. n + Len(t) /\ i + n - n = i
      BY <1>1, <3>1
    <3> QED
      BY <3>1, <3>2
  <2>2. ASSUME NEW j \in C
        PROVE  j - n \in B /\ (j - n) + n = j
    <3>1. j - n \in 1 .. Len(t) /\ (j - n) + n = j
      BY <1>1
    <3> QED
      BY <3>1 DEF Places
  <2>3. f \in [B -> C]
    <3> HIDE DEF B, C
    <3> QED
      BY <2>1
  <2>4. \A i, j \in B : i + n = j + n => i = j
    BY <1>1, <1>2
  <2>5. f \in Injection(B, C)
    <3> HIDE DEF B, C
    <3> QED
      BY <2>3, <2>4 DEF Injection, IsInjective
  <2>6. \A j \in C : \E i \in B : f[i] = j
    <3> HIDE DEF B, C
    <3> QED
      BY <2>2
  <2>7. f \in Surjection(B, C)
    <3> HIDE DEF B, C, f
    <3> QED
      BY <2>3, <2>6 DEF Surjection
  <2> HIDE DEF B, C, f
  <2> QED
    BY <2>5, <2>7 DEF Bijection
<1>6. IsFiniteSet(C) /\ Cardinality(C) = Cardinality(B)
  <2> HIDE DEF B, C, f
  <2>1. ExistsBijection(B, C)
    BY <1>5 DEF ExistsBijection
  <2> QED
    BY <1>2, <2>1, FS_Bijection
<1> HIDE DEF A, B, C
<1>7. Cardinality(A \cup C) = Cardinality(A) + Cardinality(C) - Cardinality(A \cap C)
  BY <1>2, <1>6, FS_Union
<1>8. Cardinality(A \cap C) = 0 /\ Cardinality(A) \in Nat /\ Cardinality(C) \in Nat
  BY <1>2, <1>4, <1>6, FS_EmptySet, FS_CardinalityType
<1> QED
  BY <1>2, <1>3, <1>6, <1>7, <1>8

LEMMA NoBreaks ==
  ASSUME NEW s \in Inline
  PROVE  Breaks(s) = 0
<1>1. s \in Seq(Runes \ {Newline})
  BY DEF Inline
<1>2. Places(s) = {}
  <2>1. \A i \in 1 .. Len(s) : s[i] # Newline
    <3> DEFINE R == Runes \ {Newline}
    <3>1. \A i \in 1 .. Len(s) : s[i] \in R
      <4> HIDE DEF R
      <4>1. s \in Seq(R)
        BY <1>1 DEF R
      <4> QED
        BY <4>1
    <3> QED
      BY <3>1
  <2> QED
    BY <2>1 DEF Places
<1>3. Breaks(s) = Cardinality(Places(s))
  BY <1>1, PlacesAreBreaks
<1> QED
  BY <1>2, <1>3, FS_EmptySet

\* The bot's own breaks.
LEMMA OneBreak ==
  /\ Breaks(<<Newline>>) = 1 /\ <<Newline>> \in Seq(Runes) /\ Len(<<Newline>>) = 1
  /\ Breaks(LogHeader) = 1 /\ LogHeader \in Seq(Runes) /\ Len(LogHeader) = 3
<1>1. <<Newline>> \in Seq(Runes) /\ Len(<<Newline>>) = 1
  BY Bits
<1>2. Places(<<Newline>>) = {1}
  BY DEF Places
<1>3. LogHeader \in Seq(Runes) /\ Len(LogHeader) = 3
  <2>1. ASSUME NEW Q, NEW a \in Q, NEW b \in Q, NEW c \in Q
        PROVE  <<a, b, c>> \in Seq(Q) /\ Len(<<a, b, c>>) = 3
    OBVIOUS
  <2>2. "L" \in Runes /\ ":" \in Runes /\ Newline \in Runes
    BY PromptAssumption
  <2> HIDE DEF Newline
  <2> QED
    BY <2>1, <2>2 DEF LogHeader
<1>4. Places(LogHeader) = {3}
  <2>1. "L" # Newline /\ ":" # Newline
    BY DEF Newline
  <2>2. \A i \in 1 .. 3 : LogHeader[i] = Newline <=> i = 3
    BY <2>1 DEF LogHeader
  <2> QED
    BY <1>3, <2>2 DEF Places
<1>5. Breaks(<<Newline>>) = Cardinality({1}) /\ Breaks(LogHeader) = Cardinality({3})
  <2> DEFINE nl == <<Newline>>
  <2>1. nl \in Seq(Runes) /\ Places(nl) = {1}
    BY <1>1, <1>2
  <2> HIDE DEF nl
  <2>2. Breaks(nl) = Cardinality({1})
    BY <2>1, PlacesAreBreaks
  <2>3. Breaks(LogHeader) = Cardinality({3})
    BY <1>3, <1>4, PlacesAreBreaks
  <2> QED
    BY <2>2, <2>3 DEF nl
<1> QED
  BY <1>1, <1>3, <1>5, FS_Singleton

LEMMA InlineIsText ==
  /\ \A s \in Inline : s \in Seq(Runes)
  /\ \A lines \in Seq(Inline) : lines \in Seq(Seq(Runes))
<1>1. ASSUME NEW R, NEW P \in SUBSET R, NEW s \in Seq(P)
      PROVE  s \in Seq(R)
  BY <1>1
<1>2. Runes \ {Newline} \in SUBSET Runes
  OBVIOUS
<1>3. \A s \in Inline : s \in Seq(Runes)
  BY <1>1, <1>2 DEF Inline
<1>4. Inline \in SUBSET Seq(Runes)
  BY <1>3
<1> QED
  BY <1>1, <1>3, <1>4

-----------------------------------------------------------------------------
(* Joined lines *)

\* As many lines as were joined, and the size fitLog counts but for the last break.
LEMMA JoinedLines ==
  ASSUME NEW lines \in Seq(Inline), lines # <<>>
  PROVE  /\ Joined(lines) \in Seq(Runes)
         /\ Breaks(Joined(lines)) = Len(lines) - 1
         /\ Len(Joined(lines)) = LogSize(lines) - 1 /\ LogSize(lines) \in Nat
<1> DEFINE N == Len(lines)
           S == Seq(Runes)
           nl == <<Newline>>
<1>1. /\ N \in Nat /\ N >= 1 /\ lines \in Seq(Seq(Runes)) /\ nl \in Seq(Runes)
      /\ \A i \in 1 .. N : lines[i] \in Inline
  BY InlineIsText, OneBreak
<1>2. PICK c \in [0 .. N -> S] : JoinedStepwise(nl, lines, c)
  <2> HIDE DEF nl
  <2> QED
    BY <1>1, JoinedBySteps
<1>3. PICK d \in [0 .. N -> Nat] :
        /\ LogSize(lines) = d[N] /\ d[0] = 0
        /\ \A i \in 1 .. N : d[i] = d[i - 1] + Len(lines[i]) + 1
  BY <1>1, LogSizeSteps
<1> DEFINE Sound(n) == Breaks(c[n]) = n - 1 /\ Len(c[n]) = d[n] - 1
           D == {n \in Nat : n = 0 \/ Sound(n)}
<1>4. 0 \in D
  OBVIOUS
<1>5. ASSUME NEW i \in 0 .. N - 1, i \in D
      PROVE  i + 1 \in D
  <2> DEFINE line == lines[i + 1]
  <2>1. i \in Nat /\ i + 1 \in 1 .. N /\ i + 1 - 1 = i /\ i \in 0 .. N
    BY <1>1
  <2>2. line \in Inline /\ line \in Seq(Runes) /\ Breaks(line) = 0 /\ Len(line) \in Nat
    BY <1>1, <2>1, NoBreaks, InlineIsText
  <2>3. d[i + 1] = d[i] + Len(line) + 1 /\ d[i] \in Nat
    BY <1>3, <2>1
  <2>4. CASE i = 0
    <3>1. c[i + 1] = line
      BY <1>2, <2>1, <2>4 DEF JoinedStepwise
    <3>2. d[i + 1] = Len(line) + 1
      BY <1>3, <2>3, <2>2, <2>4
    <3> QED
      BY <2>1, <2>2, <2>4, <3>1, <3>2
  <2>5. CASE i # 0
    <3>1. c[i + 1] = (c[i] \o nl) \o line
      <4>1. PICK k \in 1 .. Len(lines) : k = i + 1 /\ k # 1 /\ k - 1 = i
        BY <2>1, <2>5
      <4>2. \A m \in 1 .. Len(lines) :
              c[m] = IF m = 1 THEN lines[1] ELSE c[m - 1] \o nl \o lines[m]
        BY <1>2, Zenon DEF JoinedStepwise
      <4>3. c[k] = c[k - 1] \o nl \o lines[k]
        BY <4>1, <4>2, Zenon
      <4> QED
        BY <4>1, <4>3, Zenon
    <3>2. Sound(i) /\ c[i] \in Seq(Runes)
      BY <1>5, <1>2, <2>1, <2>5
    <3>3. Breaks(nl) = 1 /\ Len(nl) = 1
      BY OneBreak
    <3> HIDE DEF nl, line
    <3>a. nl \in Seq(Runes)
      BY <1>1
    <3> HIDE DEF S, N
    <3> DEFINE sofar == c[i]
    <3>b. sofar \in Seq(Runes) /\ Breaks(sofar) = i - 1 /\ Len(sofar) = d[i] - 1
      BY <3>2
    <3> HIDE DEF sofar
    <3>4. sofar \o nl \in Seq(Runes) /\ Len(sofar \o nl) = Len(sofar) + 1
      <4>1. sofar \o nl \in Seq(Runes) /\ Len(sofar \o nl) = Len(sofar) + Len(nl)
        BY <3>b, <3>a, Concat
      <4> QED
        BY <4>1, <3>3
    <3>5. Breaks(sofar \o nl) = Breaks(sofar) + 1
      BY <3>b, <3>3, <3>a, BreaksOfBoth
    <3> DEFINE begun == sofar \o nl
    <3>c. begun \in Seq(Runes) /\ Len(begun) = d[i] - 1 + 1 /\ Breaks(begun) = i - 1 + 1
      BY <3>4, <3>5, <3>b
    <3> HIDE DEF begun
    <3>6. Breaks(begun \o line) = i - 1 + 1
      BY <2>2, <2>1, <3>c, BreaksOfBoth
    <3>7. Len(begun \o line) = d[i] + Len(line)
      <4>1. Len(begun \o line) = Len(begun) + Len(line)
        BY <2>2, <3>c, Concat
      <4> QED
        BY <2>2, <2>3, <3>c, <4>1
    <3>d. c[i + 1] = begun \o line
      BY <3>1 DEF begun, sofar
    <3>8. Sound(i + 1)
      BY <2>1, <2>2, <2>3, <3>d, <3>6, <3>7
    <3> QED
      BY <2>1, <3>8
  <2> QED
    BY <2>4, <2>5
<1>6. \A i \in 0 .. N : i \in D
  <2>1. N \in Nat
    BY <1>1
  <2> HIDE DEF D, N
  <2> QED
    BY <2>1, <1>4, <1>5, CountUp
<1>7. Sound(N)
  BY <1>1, <1>6
<1>8. c[N] \in Seq(Runes) /\ d[N] \in Nat
  BY <1>1, <1>2, <1>3
<1> QED
  BY <1>2, <1>3, <1>7, <1>8 DEF Joined, JoinedStepwise

-----------------------------------------------------------------------------
(* The prompt *)

\* formatLog makes lines.
LEMMA LogLines ==
  ASSUME NEW read \in Seq(Rows)
  PROVE  FormatLog(read) \in Seq(Inline)
<1>1. PICK c \in [0 .. Len(read) -> Seq(Inline)] : FormatLog(read) = c[Len(read)]
  BY FormatLogSteps
<1>2. Len(read) \in 0 .. Len(read)
  BY RowTypes
<1> QED
  BY <1>1, <1>2

\* What fitLog keeps are lines, and it fits.
LEMMA FitLogFits ==
  ASSUME NEW lines \in Seq(Inline), NEW budget \in Int
  PROVE  /\ FitLog(lines, budget) \in Seq(Inline)
         /\ FitLog(lines, budget) # <<>> => LogSize(FitLog(lines, budget)) <= budget
<1> DEFINE N == Len(lines)
           fitting == {0} \cup {n \in 1 .. Len(lines) : LogSize(Newest(lines, n)) <= budget}
<1>1. N \in Nat /\ fitting \in SUBSET (0 .. N) /\ fitting # {}
  OBVIOUS
<1>2. Max(fitting) \in fitting
  <2> HIDE DEF fitting, N
  <2> QED
    BY <1>1, Ends
<1>3. PICK n \in fitting : FitLog(lines, budget) = Newest(lines, n)
  <2>1. FitLog(lines, budget) = Newest(lines, Max(fitting))
    BY DEF FitLog
  <2> HIDE DEF fitting
  <2> QED
    BY <1>2, <2>1
<1>4. CASE n = 0
  <2>1. Newest(lines, 0) = <<>>
    <3>1. SubSeq(lines, N + 1, N) = <<>>
      BY <1>1
    <3>2. Len(lines) - 0 + 1 = N + 1
      BY <1>1
    <3> QED
      BY <3>1, <3>2 DEF Newest
  <2>2. <<>> \in Seq(Inline)
    OBVIOUS
  <2> QED
    BY <1>3, <1>4, <2>1, <2>2
<1>5. CASE n # 0
  <2>1. n \in 1 .. N /\ LogSize(Newest(lines, n)) <= budget
    BY <1>5
  <2>2. N - n + 1 \in 1 .. N /\ N \in 0 .. N
    BY <1>1, <2>1
  <2>3. Newest(lines, n) \in Seq(Inline)
    BY <2>2, PartType DEF Newest
  <2> QED
    BY <1>3, <2>1, <2>3
<1> QED
  BY <1>4, <1>5

\* A scorer's words are on the scorer's line.
LEMMA ExcerptType ==
  ASSUME NEW read \in Seq(Rows), NEW user
  PROVE  ScorerExcerpt(read, user) \in Inline
<1> DEFINE quotes == Said(read, user)
           slash == <<" ", "/", " ">>
           R == Runes \ {Newline}
<1>1. quotes \in Seq(Inline)
  <2>1. PICK c \in [0 .. Len(read) -> Seq(Inline)] : Said(read, user) = c[Len(read)]
    BY ScorerExcerptSteps
  <2>2. Len(read) \in 0 .. Len(read)
    BY RowTypes
  <2> QED
    BY <2>1, <2>2
<1>2. slash \in Seq(R) /\ quotes \in Seq(Seq(R))
  BY <1>1, Bits DEF Inline
<1> HIDE DEF quotes, slash
<1>3. PICK c \in [0 .. Len(quotes) -> Seq(R)] : JoinedStepwise(slash, quotes, c)
  <2> HIDE DEF R
  <2> QED
    BY <1>2, JoinedBySteps
<1>4. Len(quotes) \in 0 .. Len(quotes)
  BY <1>1
<1>5. JoinedBy(slash, quotes) \in Seq(R)
  BY <1>3, <1>4 DEF JoinedStepwise
<1> QED
  BY <1>5 DEF Inline, ScorerExcerpt, quotes, slash

LEMMA ScorerLineType ==
  ASSUME NEW read \in Seq(Rows), NEW lang \in Langs, NEW user \in DOMAIN Names
  PROVE  ScorerLine(lang, user, read) \in Inline
<1> DEFINE said == ScorerExcerpt(read, user)
           name == ScorerName(lang, user)
<1>1. said \in Inline
  BY ExcerptType
<1>2. name \in Inline
  <2>1. OneLine(Names[user]) \in Inline
    BY PromptAssumption, OneLineType
  <2>2. T(lang, "default", <<>>) \in Inline
    <3> DEFINE t == T(lang, "default", <<>>)
    <3>1. t \in Seq(Runes) /\ Newline \notin Range(t)
      BY PromptAssumption
    <3> HIDE DEF t
    <3>2. Len(t) \in Nat /\ DOMAIN t = 1 .. Len(t) /\ \A i \in 1 .. Len(t) : t[i] \in Runes
      BY <3>1
    <3>3. \A i \in 1 .. Len(t) : t[i] # Newline
      BY <3>1, <3>2 DEF Range
    <3>4. ASSUME NEW Q, \A i \in 1 .. Len(t) : t[i] \in Q
          PROVE  t \in Seq(Q)
      <4>1. t = [i \in 1 .. Len(t) |-> t[i]]
        BY <3>1
      <4>2. t \in [1 .. Len(t) -> Q]
        BY <3>2, <3>4, <4>1
      <4> QED
        BY <3>2, <4>2
    <3>5. t \in Seq(Runes \ {Newline})
      <4> DEFINE Q == Runes \ {Newline}
      <4>1. \A i \in 1 .. Len(t) : t[i] \in Q
        BY <3>2, <3>3
      <4> HIDE DEF Q
      <4>2. t \in Seq(Q)
        BY <3>4, <4>1
      <4> QED
        BY <4>2 DEF Q
    <3> QED
      BY <3>5 DEF Inline, t
  <2> QED
    BY <2>1, <2>2 DEF ScorerName
<1> HIDE DEF said, name
<1>3. <<".">> \o name \in Inline
  BY <1>2, Bits, LineTypes
<1>4. (<<".">> \o name) \o said \in Inline
  BY <1>1, <1>3, LineTypes
<1>5. name \o ((<<".">> \o name) \o said) \in Inline
  BY <1>2, <1>4, LineTypes
<1>6. name \o <<>> \in Inline
  BY <1>2, Bits, LineTypes
<1>7. ScorerLine(lang, user, read) = name \o (IF said = <<>> THEN <<>> ELSE (<<".">> \o name) \o said)
  BY DEF ScorerLine, said, name
<1> QED
  BY <1>5, <1>6, <1>7

\* The draw block has the prize's line and one for each scorer.
LEMMA DrawLines ==
  ASSUME NEW read \in Seq(Rows), NEW lang \in Langs, NEW label \in Seq(Runes)
  PROVE  /\ DrawBlock(label, lang, read) \in Seq(Runes)
         /\ Breaks(DrawBlock(label, lang, read)) = 1 + Len(Scorers)
         /\ Len(Scorers) \in Nat
<1> DEFINE nl == <<Newline>>
           prize == <<OneLine(label)>>
           others == [i \in 1 .. Len(Scorers) |-> ScorerLine(lang, Scorers[i], read)]
           lines == prize \o others
<1>1. Scorers \in Seq(DOMAIN Names)
  <2>1. Standings \in Seq(DOMAIN Names) /\ ScorerLimit \in Nat
    BY PromptAssumption
  <2> QED
    BY <2>1, BeginningType DEF Scorers
<1>2. Len(Scorers) \in Nat /\ \A i \in 1 .. Len(Scorers) : Scorers[i] \in DOMAIN Names
  BY <1>1
<1>3. prize \in Seq(Inline) /\ Len(prize) = 1
  <2>1. OneLine(label) \in Inline
    BY OneLineType
  <2>2. ASSUME NEW Q, NEW x \in Q
        PROVE  <<x>> \in Seq(Q) /\ Len(<<x>>) = 1
    OBVIOUS
  <2> QED
    BY <2>1, <2>2
<1>4. others \in Seq(Inline) /\ Len(others) = Len(Scorers)
  <2> DEFINE n == Len(Scorers)
  <2>1. \A i \in 1 .. n : ScorerLine(lang, Scorers[i], read) \in Inline
    BY <1>2, ScorerLineType
  <2>2. n \in Nat
    BY <1>2
  <2>3. others \in [1 .. n -> Inline]
    BY <2>1
  <2> HIDE DEF n, others
  <2> QED
    BY <2>2, <2>3 DEF n
<1> HIDE DEF prize, others
<1>5. lines \in Seq(Inline) /\ Len(lines) = 1 + Len(Scorers)
  <2>1. prize \o others \in Seq(Inline) /\ Len(prize \o others) = Len(prize) + Len(others)
    BY <1>3, <1>4, Concat
  <2> QED
    BY <1>2, <1>3, <1>4, <2>1
<1>6. DrawBlock(label, lang, read) = Joined(lines) \o nl
  BY DEF DrawBlock, prize, others
<1> HIDE DEF lines
<1>7. Joined(lines) \in Seq(Runes) /\ Breaks(Joined(lines)) = Len(lines) - 1
  <2>1. lines # <<>>
    BY <1>2, <1>5
  <2> QED
    BY <1>5, <2>1, JoinedLines
<1>8. nl \in Seq(Runes) /\ Breaks(nl) = 1
  BY OneBreak
<1> HIDE DEF nl
<1>9. Joined(lines) \o nl \in Seq(Runes) /\ Breaks(Joined(lines) \o nl) = Breaks(Joined(lines)) + Breaks(nl)
  BY <1>7, <1>8, Concat, BreaksOfBoth
<1> QED
  BY <1>2, <1>5, <1>6, <1>7, <1>8, <1>9

\* A log appended to a block: its header and lines, and the sizes added up.
LEMMA MessageFacts ==
  ASSUME NEW block \in Seq(Runes), NEW log \in Seq(Inline)
  PROVE  /\ log = <<>> => UserMessage(block, log) = block
         /\ log # <<>> =>
              /\ Breaks(UserMessage(block, log)) = Breaks(block) + Len(log) + 1
              /\ Len(UserMessage(block, log)) = Len(block) + Len(LogHeader) + LogSize(log)
<1>1. ASSUME log = <<>> PROVE UserMessage(block, log) = block
  <2>1. block \o <<>> = block
    OBVIOUS
  <2> QED
    BY <1>1, <2>1 DEF UserMessage
<1>2. ASSUME log # <<>>
      PROVE  /\ Breaks(UserMessage(block, log)) = Breaks(block) + Len(log) + 1
             /\ Len(UserMessage(block, log)) = Len(block) + Len(LogHeader) + LogSize(log)
  <2> DEFINE nl == <<Newline>>
             body == Joined(log)
             head == nl \o LogHeader
             rest == head \o body
  <2>1. /\ body \in Seq(Runes) /\ Breaks(body) = Len(log) - 1 /\ Len(body) = LogSize(log) - 1
        /\ LogSize(log) \in Nat
    BY <1>2, JoinedLines
  <2>2. /\ nl \in Seq(Runes) /\ Breaks(nl) = 1 /\ Len(nl) = 1
        /\ LogHeader \in Seq(Runes) /\ Breaks(LogHeader) = 1 /\ Len(LogHeader) = 3
    BY OneBreak
  <2>3. UserMessage(block, log) = block \o rest
    BY <1>2 DEF UserMessage
  <2> HIDE DEF body, nl
  <2>4. head \in Seq(Runes) /\ Breaks(head) = 2 /\ Len(head) = 4
    <3>1. /\ head \in Seq(Runes) /\ Len(head) = Len(nl) + Len(LogHeader)
          /\ Breaks(head) = Breaks(nl) + Breaks(LogHeader)
      BY <2>2, Concat, BreaksOfBoth
    <3> HIDE DEF head
    <3> QED
      BY <2>2, <3>1
  <2> HIDE DEF head
  <2>5. rest \in Seq(Runes) /\ Breaks(rest) = Breaks(head) + Breaks(body) /\ Len(rest) = Len(head) + Len(body)
    BY <2>1, <2>4, Concat, BreaksOfBoth
  <2> HIDE DEF rest
  <2>6. Breaks(block \o rest) = Breaks(block) + Breaks(rest) /\ Len(block \o rest) = Len(block) + Len(rest)
    BY <2>5, Concat, BreaksOfBoth
  <2>7. Breaks(block) \in Nat /\ Len(block) \in Nat /\ Len(log) \in Nat
    BY PlacesAreBreaks
  <2>8. Breaks(rest) = Len(log) + 1 /\ Len(rest) = 3 + LogSize(log)
    BY <2>1, <2>4, <2>5, <2>7
  <2>9. Len(LogHeader) = 3
    BY <2>2
  <2> QED
    BY <2>1, <2>3, <2>6, <2>7, <2>8, <2>9
<1> QED
  BY <1>1, <1>2

PromptTypes == rows \in Seq(Rows) /\ system \in Nat

\* Whatever rows were read, and whatever the length of the system prompt.
LEMMA PromptOfRows ==
  ASSUME PromptTypes
  PROVE  PromptIsSound
<1> DEFINE log == PromptLog(rows)
<1>1. /\ rows \in Seq(Rows) /\ system \in Nat
      /\ MaxContext \in Nat /\ DrawReserve \in Nat /\ BudgetMargin \in Nat /\ Len(LogHeader) = 3
  BY PromptAssumption, OneBreak DEF PromptTypes
<1>2. LogBudget \in Int /\ LogBudget = MaxContext - system - DrawReserve - 3 - BudgetMargin
  BY <1>1 DEF LogBudget
<1>3. log \in Seq(Inline) /\ (log # <<>> => LogSize(log) <= LogBudget)
  BY <1>1, <1>2, LogLines, FitLogFits DEF PromptLog
<1>4. SUFFICES ASSUME NEW label \in Labels, NEW lang \in Langs,
                      NEW block, block = DrawBlock(WinnerLabel(label, lang), lang, rows)
               PROVE  /\ Breaks(UserMessage(block, log))
                           = 1 + Len(Scorers) + (IF log = <<>> THEN 0 ELSE Len(log) + 1)
                      /\ log # <<>> /\ Len(block) <= DrawReserve
                           => system + Len(UserMessage(block, log)) <= MaxContext - BudgetMargin
  BY DEF PromptIsSound
<1>5. WinnerLabel(label, lang) \in Seq(Runes)
  BY PromptAssumption DEF WinnerLabel
<1>6. block \in Seq(Runes) /\ Breaks(block) = 1 + Len(Scorers) /\ Len(Scorers) \in Nat
  BY <1>1, <1>4, <1>5, DrawLines
<1>7. Len(block) \in Nat /\ Len(log) \in Nat
  BY <1>3, <1>6
<1> HIDE DEF log
<1>8. CASE log = <<>>
  <2>1. UserMessage(block, log) = block
    BY <1>3, <1>6, <1>8, MessageFacts
  <2> QED
    BY <1>6, <1>8, <2>1
<1>9. CASE log # <<>>
  <2>1. /\ Breaks(UserMessage(block, log)) = Breaks(block) + Len(log) + 1
        /\ Len(UserMessage(block, log)) = Len(block) + 3 + LogSize(log)
    BY <1>1, <1>3, <1>6, <1>9, MessageFacts
  <2>2. LogSize(log) \in Nat
    BY <1>3, <1>9, JoinedLines
  <2>3. ASSUME Len(block) <= DrawReserve
        PROVE  system + Len(UserMessage(block, log)) <= MaxContext - BudgetMargin
    BY <1>1, <1>2, <1>3, <1>7, <1>9, <2>1, <2>2, <2>3
  <2> QED
    BY <1>6, <1>7, <1>9, <2>1, <2>3
<1> QED
  BY <1>8, <1>9

\* Nobody's text forges a line of the prompt, and a prompt with a log stays below
\* the context: for every log, name, label, language and size.
THEOREM PromptsAreSound == PromptSpec => []PromptIsSound
<1>1. PromptInit => PromptTypes
  <2>1. ASSUME NEW n, NEW s \in BoundedSeq(Rows, n), n \in Nat
        PROVE  s \in Seq(Rows)
    <3>1. PICK m \in 0 .. n : s \in [1 .. m -> Rows]
      BY DEF BoundedSeq, SeqOf
    <3> QED
      BY <2>1, <3>1
  <2>2. MaxRows \in Nat /\ SystemSizes \subseteq Nat
    BY PromptAssumption
  <2> QED
    BY <2>1, <2>2 DEF PromptInit, PromptTypes
<1>2. PromptTypes /\ [Rendered]_promptVars => PromptTypes'
  <2> SUFFICES ASSUME PromptTypes, [Rendered]_promptVars PROVE PromptTypes'
    OBVIOUS
  <2>1. <<>> \in Seq(Rows) /\ 0 \in Nat
    OBVIOUS
  <2> QED
    BY <2>1 DEF PromptTypes, Rendered, promptVars
<1>3. PromptTypes => PromptIsSound
  BY PromptOfRows
<1> QED
  BY <1>1, <1>2, <1>3, PTL DEF PromptSpec

-----------------------------------------------------------------------------
(* A loop that jumps down *)

\* The loop's value at n: it stops, or goes on at a smaller number.
Jump(out, stop, next, n, f) == IF n = 0 \/ n \in stop THEN out[n] ELSE f[next[n]]

JumpsDown(N, stop, next) == \A i \in 1 .. N : i \notin stop => next[i] \in 0 .. i - 1

\* A function that is the loop's result from every n up to N.
IsLoop(N, out, stop, next, f) == f = [n \in 0 .. N |-> Jump(out, stop, next, n, f)]

LEMMA JumpsExist ==
  ASSUME NEW N \in Nat, NEW out, NEW stop, NEW next, JumpsDown(N, stop, next)
  PROVE  \E f : IsLoop(N, out, stop, next, f)
<1> USE DEF IsLoop
<1> DEFINE D == {k \in Nat : \E f : IsLoop(k, out, stop, next, f)}
<1>1. 0 \in D
  <2> DEFINE f == [n \in 0 .. 0 |-> out[0]]
  <2>1. \A n \in 0 .. 0 : n = 0
    OBVIOUS
  <2>2. f = [n \in 0 .. 0 |-> Jump(out, stop, next, n, f)]
    BY <2>1 DEF Jump
  <2> QED
    BY <2>2
<1>2. ASSUME NEW k \in 0 .. N - 1, k \in D
      PROVE  k + 1 \in D
  <2>1. PICK f : IsLoop(k, out, stop, next, f)
    BY <1>2
  <2> DEFINE last == Jump(out, stop, next, k + 1, f)
             g == [n \in 0 .. k + 1 |-> IF n = k + 1 THEN last ELSE f[n]]
  <2>2. k \in Nat /\ \A n \in 0 .. k + 1 : n \in 0 .. k \/ n = k + 1
    OBVIOUS
  <2>3. \A n \in 0 .. k : f[n] = Jump(out, stop, next, n, f)
    BY <2>1
  <2>4. \A n \in 0 .. k : g[n] = f[n]
    BY <2>2
  <2>5. ASSUME NEW n \in 0 .. k + 1
        PROVE  Jump(out, stop, next, n, f) = Jump(out, stop, next, n, g)
    <3>1. CASE n = 0 \/ n \in stop
      BY <3>1 DEF Jump
    <3>2. CASE ~(n = 0 \/ n \in stop)
      <4>1. n \in 1 .. N
        BY <3>2
      <4>2. next[n] \in 0 .. n - 1
        BY <3>2, <4>1 DEF JumpsDown
      <4>3. next[n] \in 0 .. k
        BY <4>2, <2>2
      <4>4. g[next[n]] = f[next[n]]
        BY <2>4, <4>3
      <4> QED
        BY <3>2, <4>4 DEF Jump
    <3> QED
      BY <3>1, <3>2
  <2>6. ASSUME NEW n \in 0 .. k + 1
        PROVE  g[n] = Jump(out, stop, next, n, g)
    <3>1. CASE n \in 0 .. k
      <4> HIDE DEF g
      <4> QED
        BY <2>3, <2>4, <2>5, <3>1
    <3>2. CASE n = k + 1
      <4>1. g[k + 1] = last
        BY <2>2
      <4> HIDE DEF g
      <4> QED
        BY <2>5, <3>2, <4>1
    <3> QED
      BY <2>2, <3>1, <3>2
  <2>7. g = [n \in 0 .. k + 1 |-> g[n]]
    OBVIOUS
  <2> HIDE DEF g
  <2>8. g = [n \in 0 .. k + 1 |-> Jump(out, stop, next, n, g)]
    BY <2>6, <2>7
  <2> QED
    BY <2>2, <2>8
<1>3. \A k \in 0 .. N : k \in D
  <2> HIDE DEF D
  <2> QED
    BY <1>1, <1>2, CountUp
<1>4. N \in D
  <2> HIDE DEF D
  <2> QED
    BY <1>3
<1> QED
  BY <1>4

\* Whatever satisfies the loop's equation ends at a number it stops at.
LEMMA JumpsLand ==
  ASSUME NEW N \in Nat, NEW out, NEW stop, NEW next, JumpsDown(N, stop, next),
         NEW f, IsLoop(N, out, stop, next, f)
  PROVE  \E m \in 0 .. N : f[N] = out[m] /\ (m = 0 \/ m \in stop)
<1> DEFINE Lands(n) == \E m \in 0 .. n : f[n] = out[m] /\ (m = 0 \/ m \in stop)
           D == {k \in Nat : \A n \in 0 .. k : Lands(n)}
<1>0. \A n \in 0 .. N : f[n] = Jump(out, stop, next, n, f)
  BY DEF IsLoop
<1>1. ASSUME NEW n \in 0 .. N, n = 0 \/ n \in stop
      PROVE  Lands(n)
  <2>1. f[n] = out[n]
    BY <1>0, <1>1 DEF Jump
  <2> QED
    BY <1>1, <2>1
<1>2. 0 \in D
  <2>1. \A n \in 0 .. 0 : n = 0 /\ n \in 0 .. N
    OBVIOUS
  <2>2. \A n \in 0 .. 0 : Lands(n)
    <3> HIDE DEF Lands
    <3> QED
      BY <1>1, <2>1
  <2> QED
    BY <2>2
<1>3. ASSUME NEW k \in 0 .. N - 1, k \in D
      PROVE  k + 1 \in D
  <2>1. k \in Nat /\ k + 1 \in 0 .. N /\ \A n \in 0 .. k + 1 : n \in 0 .. k \/ n = k + 1
    OBVIOUS
  <2>2. Lands(k + 1)
    <3>1. CASE k + 1 \in stop
      <4> HIDE DEF Lands
      <4> QED
        BY <1>1, <2>1, <3>1
    <3>2. CASE k + 1 \notin stop
      <4>1. next[k + 1] \in 0 .. k
        <5>1. k + 1 \in 1 .. N /\ k + 1 - 1 = k
          OBVIOUS
        <5> QED
          BY <3>2, <5>1 DEF JumpsDown
      <4>2. f[k + 1] = f[next[k + 1]]
        BY <1>0, <2>1, <3>2 DEF Jump
      <4>3. PICK m \in 0 .. next[k + 1] : f[next[k + 1]] = out[m] /\ (m = 0 \/ m \in stop)
        BY <1>3, <4>1
      <4>4. m \in 0 .. k + 1
        BY <4>1
      <4> QED
        BY <4>2, <4>3, <4>4
    <3> QED
      BY <3>1, <3>2
  <2>3. \A n \in 0 .. k + 1 : Lands(n)
    <3>1. \A n \in 0 .. k : Lands(n)
      BY <1>3
    <3> HIDE DEF Lands
    <3> QED
      BY <2>1, <2>2, <3>1
  <2> HIDE DEF Lands
  <2> QED
    BY <2>1, <2>3
<1>4. \A k \in 0 .. N : k \in D
  <2> HIDE DEF D
  <2> QED
    BY <1>2, <1>3, CountUp
<1>5. N \in D /\ N \in 0 .. N
  <2> HIDE DEF D
  <2> QED
    BY <1>4
<1>6. Lands(N)
  <2> HIDE DEF Lands
  <2> QED
    BY <1>5
<1> QED
  BY <1>6

-----------------------------------------------------------------------------
(* The cut *)

\* The cut steps down.
LEMMA NextIsLess ==
  ASSUME NEW limit \in Nat, NEW maxRunes \in Nat, NEW length \in Nat,
         limit > 0, length > 0
  PROVE  NextLimit(limit, maxRunes, length) \in 0 .. limit - 1
<1>1. limit * maxRunes \in Nat
  OBVIOUS
<1>2. ASSUME NEW x \in Nat
      PROVE  x \div length \in Nat
  OBVIOUS
<1>3. (limit * maxRunes) \div length \in Nat
  BY <1>1, <1>2
<1> DEFINE next == (limit * maxRunes) \div length
<1>4. next \in Nat
  BY <1>3
<1>5. NextLimit(limit, maxRunes, length) = IF next >= limit THEN limit - 1 ELSE next
  BY DEF NextLimit
<1> HIDE DEF next
<1> QED
  BY <1>4, <1>5

\* A part of the loop of FitV2.
CutAt(s, maxRunes, n, cut) ==
  LET out == SanitizeV2(SubSeq(s, 1, n))
  IN  IF Len(out) <= maxRunes \/ n = 0 THEN out
      ELSE cut[NextLimit(n, maxRunes, Len(out))]

LEMMA BeginningTypes ==
  ASSUME DeliveryTypes, NEW s \in Seq(Runes)
  PROVE  /\ Len(s) \in Nat /\ SubSeq(s, 1, 0) = <<>> /\ SubSeq(s, 1, Len(s)) = s
         /\ SanitizeV2(<<>>) = <<>>
         /\ \A k \in 0 .. Len(s) : /\ SanitizeV2(SubSeq(s, 1, k)) \in Seq(Runes)
                                   /\ Len(SanitizeV2(SubSeq(s, 1, k))) \in Nat
<1>1. Len(s) \in Nat /\ SubSeq(s, 1, 0) = <<>>
  OBVIOUS
<1>2. SubSeq(s, 1, Len(s)) = s
  OBVIOUS
<1>3. ASSUME NEW k \in 0 .. Len(s)
      PROVE  SanitizeV2(SubSeq(s, 1, k)) \in Seq(Runes)
  <2>1. SubSeq(s, 1, k) \in Seq(Runes)
    BY <1>1
  <2> QED
    BY <2>1 DEF DeliveryTypes
<1>4. \A t \in Seq(Runes) : Len(t) \in Nat
  OBVIOUS
<1> QED
  BY <1>1, <1>2, <1>3, <1>4 DEF DeliveryTypes

LEMMA CutIsABeginning ==
  ASSUME DeliveryTypes, NEW s \in Seq(Runes), NEW limit \in 0 .. Len(s), NEW maxRunes \in Nat
  PROVE  /\ Len(CutFrom(s, limit, maxRunes)) <= maxRunes
         /\ CutFrom(s, limit, maxRunes) \in Beginnings(s)
<1> DEFINE out == [n \in 0 .. limit |-> SanitizeV2(SubSeq(s, 1, n))]
           stop == {n \in 0 .. limit : Len(out[n]) <= maxRunes}
           next == [n \in 1 .. limit |-> NextLimit(n, maxRunes, Len(out[n]))]
           F(g) == [n \in 0 .. limit |-> CutAt(s, maxRunes, n, g)]
<1>1. limit \in Nat /\ \A n \in 0 .. limit : n \in 0 .. Len(s) /\ n \in Nat
  OBVIOUS
<1>2. \A n \in 0 .. limit : out[n] = SanitizeV2(SubSeq(s, 1, n)) /\ Len(out[n]) \in Nat
  BY <1>1, BeginningTypes
<1> HIDE DEF out
<1>3. ASSUME NEW n \in 1 .. limit, n \notin stop
      PROVE  next[n] \in 0 .. n - 1
  <2>1. n \in 0 .. limit /\ n \in Nat /\ n > 0
    OBVIOUS
  <2>2. Len(out[n]) > maxRunes /\ Len(out[n]) \in Nat
    BY <1>2, <1>3, <2>1
  <2>3. next[n] = NextLimit(n, maxRunes, Len(out[n]))
    OBVIOUS
  <2> DEFINE length == Len(out[n])
  <2>4. length \in Nat /\ length > 0
    BY <2>2
  <2> HIDE DEF next, length
  <2>5. NextLimit(n, maxRunes, length) \in 0 .. n - 1
    BY <2>1, <2>4, NextIsLess
  <2> QED
    BY <2>3, <2>5 DEF length
<1>4. JumpsDown(limit, stop, next)
  <2> HIDE DEF stop, next
  <2> QED
    BY <1>3 DEF JumpsDown
<1>5. ASSUME NEW g, NEW n \in 0 .. limit
      PROVE  CutAt(s, maxRunes, n, g) = Jump(out, stop, next, n, g)
  <2>1. n \in stop <=> Len(out[n]) <= maxRunes
    OBVIOUS
  <2>2. out[n] = SanitizeV2(SubSeq(s, 1, n))
    BY <1>2
  <2>3. n # 0 => next[n] = NextLimit(n, maxRunes, Len(out[n]))
    BY <1>1
  <2> HIDE DEF stop, next
  <2> QED
    BY <2>1, <2>2, <2>3 DEF CutAt, Jump
<1> HIDE DEF stop, next
<1>6. \E f : f = F(f)
  <2>1. PICK f : IsLoop(limit, out, stop, next, f)
    BY <1>1, <1>4, JumpsExist
  <2>2. f = F(f)
    BY <1>5, <2>1 DEF IsLoop
  <2> QED
    BY <2>2
<1> DEFINE c == CHOOSE g : g = F(g)
<1>7. CutFrom(s, limit, maxRunes) = c[limit]
  BY DEF CutFrom, CutAt
<1>8. c = F(c)
  BY <1>6
<1> HIDE DEF c
<1>9. IsLoop(limit, out, stop, next, c)
  BY <1>5, <1>8 DEF IsLoop
<1> HIDE DEF F
<1>10. PICK m \in 0 .. limit : c[limit] = out[m] /\ (m = 0 \/ m \in stop)
  BY <1>1, <1>4, <1>9, JumpsLand
<1>11. Len(out[m]) <= maxRunes
  <2>1. CASE m = 0
    <3>1. out[0] = <<>>
      BY <1>1, <1>2, <2>1, BeginningTypes
    <3> QED
      BY <2>1, <3>1
  <2>2. CASE m \in stop
    BY <2>2 DEF stop
  <2> QED
    BY <1>10, <2>1, <2>2
<1>12. out[m] \in Beginnings(s)
  BY <1>1, <1>2 DEF Beginnings
<1> QED
  BY <1>7, <1>10, <1>11, <1>12

\* FitV2, of every text and limit.
LEMMA FitIsABeginning ==
  ASSUME DeliveryTypes, NEW s \in Seq(Runes), NEW n \in Nat, n > 0
  PROVE  Len(FitV2(s, n)) <= n /\ FitV2(s, n) \in Beginnings(s)
<1>1. Len(s) \in Nat /\ SubSeq(s, 1, Len(s)) = s
  BY BeginningTypes
<1>2. CASE Len(SanitizeV2(s)) <= n
  <2>1. FitV2(s, n) = SanitizeV2(s)
    BY <1>2 DEF FitV2
  <2>2. Len(s) \in 0 .. Len(s)
    BY <1>1
  <2>3. SanitizeV2(SubSeq(s, 1, Len(s))) \in Beginnings(s)
    BY <2>2 DEF Beginnings
  <2> QED
    BY <1>1, <1>2, <2>1, <2>3
<1>3. CASE ~(Len(SanitizeV2(s)) <= n)
  <2>1. FitV2(s, n) = CutFrom(s, Min({n, Len(s)}), n)
    BY <1>3 DEF FitV2
  <2>2. Min({n, Len(s)}) \in 0 .. Len(s)
    BY <1>1, MinOfTwo
  <2> QED
    BY <2>1, <2>2, CutIsABeginning
<1> QED
  BY <1>2, <1>3

\* A beginning's repair is a text.
LEMMA BeginningsAreTexts ==
  ASSUME DeliveryTypes, NEW s \in Seq(Runes), NEW cut \in Beginnings(s)
  PROVE  cut \in Seq(Runes) /\ QuoteExpandableV2(cut) \in Seq(Runes)
<1>1. PICK k \in 0 .. Len(s) : cut = SanitizeV2(SubSeq(s, 1, k))
  BY DEF Beginnings
<1>2. cut \in Seq(Runes)
  BY <1>1, BeginningTypes
<1> QED
  BY <1>2 DEF DeliveryTypes

-----------------------------------------------------------------------------
(* The announcement *)

\* A turn of the loop of fitCeremony.
FoldedAt(text, ceiling, fit, folded) ==
  LET quote == QuoteExpandableV2(FitV2(text, fit))
      over  == Len(quote) - ceiling
  IN  IF fit = 0 THEN <<>>
      ELSE IF over <= 0 THEN quote
      ELSE folded[IF over < fit THEN fit - over ELSE 0]

LEMMA FoldIsAQuote ==
  ASSUME DeliveryTypes, NEW text \in Seq(Runes), NEW ceiling \in Int
  PROVE  \/ FoldedIn(text, ceiling) = <<>>
         \/ /\ FoldedIn(text, ceiling) \in {QuoteExpandableV2(cut) : cut \in Beginnings(text)}
            /\ Len(FoldedIn(text, ceiling)) <= ceiling
<1>1. CASE ~(ceiling > 0)
  BY <1>1 DEF FoldedIn
<1>2. CASE ceiling > 0
  <2> DEFINE quote(n) == QuoteExpandableV2(FitV2(text, n))
             out == [n \in 0 .. ceiling |-> IF n = 0 THEN <<>> ELSE quote(n)]
             stop == {n \in 1 .. ceiling : Len(quote(n)) - ceiling <= 0}
             next == [n \in 1 .. ceiling |->
                       IF Len(quote(n)) - ceiling < n THEN n - (Len(quote(n)) - ceiling) ELSE 0]
             F(g) == [n \in 0 .. ceiling |-> FoldedAt(text, ceiling, n, g)]
  <2>1. ceiling \in Nat
    BY <1>2
  <2>2. ASSUME NEW n \in 1 .. ceiling
        PROVE  /\ quote(n) \in {QuoteExpandableV2(cut) : cut \in Beginnings(text)}
               /\ Len(quote(n)) \in Nat
    <3>1. n \in Nat /\ n > 0
      BY <2>1
    <3>2. FitV2(text, n) \in Beginnings(text)
      BY <3>1, FitIsABeginning
    <3>3. quote(n) \in Seq(Runes)
      BY <3>2, BeginningsAreTexts
    <3>4. \A t \in Seq(Runes) : Len(t) \in Nat
      OBVIOUS
    <3> QED
      BY <3>2, <3>3, <3>4
  <2> HIDE DEF quote
  <2>3. ASSUME NEW n \in 1 .. ceiling, n \notin stop
        PROVE  next[n] \in 0 .. n - 1
    <3>1. next[n] = IF Len(quote(n)) - ceiling < n THEN n - (Len(quote(n)) - ceiling) ELSE 0
      OBVIOUS
    <3>2. Len(quote(n)) - ceiling > 0 /\ Len(quote(n)) \in Nat
      BY <2>1, <2>2, <2>3
    <3> HIDE DEF next
    <3> QED
      BY <2>1, <3>1, <3>2
  <2>4. JumpsDown(ceiling, stop, next)
    <3> HIDE DEF stop, next
    <3> QED
      BY <2>3 DEF JumpsDown
  <2>5. ASSUME NEW g, NEW n \in 0 .. ceiling
        PROVE  FoldedAt(text, ceiling, n, g) = Jump(out, stop, next, n, g)
    <3>1. CASE n = 0
      BY <3>1 DEF FoldedAt, Jump
    <3>2. CASE n # 0
      <4>1. n \in 1 .. ceiling
        BY <2>1, <3>2
      <4>2. out[n] = quote(n) /\ (n \in stop <=> Len(quote(n)) - ceiling <= 0)
        BY <4>1, <3>2
      <4>3. next[n] = IF Len(quote(n)) - ceiling < n THEN n - (Len(quote(n)) - ceiling) ELSE 0
        BY <4>1
      <4> HIDE DEF out, stop, next
      <4> QED
        BY <3>2, <4>2, <4>3 DEF FoldedAt, Jump, quote
    <3> QED
      BY <3>1, <3>2
  <2>6. \A n \in 1 .. ceiling : out[n] = quote(n)
    BY <2>1
  <2>7. out[0] = <<>>
    BY <2>1
  <2>8. \A n \in stop : n \in 1 .. ceiling /\ Len(quote(n)) <= ceiling
    <3>1. ASSUME NEW n \in stop PROVE Len(quote(n)) <= ceiling
      <4>1. n \in 1 .. ceiling /\ Len(quote(n)) - ceiling <= 0
        OBVIOUS
      <4>2. Len(quote(n)) \in Nat
        BY <2>2, <4>1
      <4> HIDE DEF stop
      <4> QED
        BY <2>1, <4>1, <4>2
    <3> QED
      BY <3>1
  <2> HIDE DEF out, stop, next
  <2>9. \E f : f = F(f)
    <3>1. PICK f : IsLoop(ceiling, out, stop, next, f)
      BY <2>1, <2>4, JumpsExist
    <3>2. f = F(f)
      BY <2>5, <3>1 DEF IsLoop
    <3> QED
      BY <3>2
  <2> DEFINE c == CHOOSE g : g = F(g)
  <2>10. FoldedIn(text, ceiling) = c[ceiling]
    BY <1>2 DEF FoldedIn, FoldedAt
  <2>11. c = F(c)
    BY <2>9
  <2> HIDE DEF c
  <2>12. IsLoop(ceiling, out, stop, next, c)
    BY <2>5, <2>11 DEF IsLoop
  <2> HIDE DEF F
  <2>13. PICK m \in 0 .. ceiling : c[ceiling] = out[m] /\ (m = 0 \/ m \in stop)
    BY <2>1, <2>4, <2>12, JumpsLand
  <2>14. CASE m = 0
    BY <2>7, <2>10, <2>13, <2>14
  <2>15. CASE m \in stop
    <3>1. FoldedIn(text, ceiling) = quote(m) /\ m \in 1 .. ceiling /\ Len(quote(m)) <= ceiling
      BY <2>6, <2>8, <2>10, <2>13, <2>15
    <3> QED
      BY <2>2, <3>1
  <2> QED
    BY <2>13, <2>14, <2>15
<1> QED
  BY <1>1, <1>2

DeliveryInv == answer \in Seq(Runes) /\ (draw = NoDraw \/ draw \in [result : Seq(Runes)])

LEMMA AnnouncementFits ==
  ASSUME DeliveryTypes, DeliveryInv
  PROVE  CutFits
<1>1. \A n \in 1 .. MaxAnswer : Len(FitV2(answer, n)) <= n /\ FitV2(answer, n) \in Beginnings(answer)
  <2> SUFFICES ASSUME NEW n \in 1 .. MaxAnswer
               PROVE  Len(FitV2(answer, n)) <= n /\ FitV2(answer, n) \in Beginnings(answer)
    OBVIOUS
  <2>1. n \in Nat /\ n > 0
    BY DEF DeliveryTypes
  <2> QED
    BY <2>1, FitIsABeginning DEF DeliveryInv
<1>2. ASSUME draw # NoDraw
      PROVE  /\ \/ Ceremony = <<>>
                \/ Ceremony \in {QuoteExpandableV2(cut) : cut \in Beginnings(Trimmed(answer))}
             /\ Len(draw.result) <= MaxMessageRunes
                  => Len(JoinBlock(draw.result, Ceremony)) <= MaxMessageRunes
  <2> DEFINE words == Trimmed(answer)
             result == draw.result
             ceremony == Ceremony
  <2>1. words \in Seq(Runes) /\ result \in Seq(Runes) /\ Len(result) \in Nat /\ MaxMessageRunes \in Nat
    BY <1>2, TrimmedType DEF DeliveryInv, DeliveryTypes
  <2>2. Ceiling(result) \in Int /\ Ceiling(result) = MaxMessageRunes - Len(result) - 2
    BY <2>1 DEF Ceiling
  <2>3. ceremony = FoldedIn(words, Ceiling(result))
    BY DEF Ceremony, FitCeremony
  <2> HIDE DEF words, result, ceremony
  <2>4. \/ ceremony = <<>>
        \/ /\ ceremony \in {QuoteExpandableV2(cut) : cut \in Beginnings(words)}
           /\ Len(ceremony) <= Ceiling(result)
    BY <2>1, <2>2, <2>3, FoldIsAQuote
  <2>5. ceremony # <<>> => ceremony \in Seq(Runes)
    BY <2>1, <2>4, BeginningsAreTexts
  <2>6. ASSUME Len(result) <= MaxMessageRunes
        PROVE  Len(JoinBlock(result, ceremony)) <= MaxMessageRunes
    <3>1. CASE result = <<>> /\ ceremony = <<>>
      BY <2>6, <3>1 DEF JoinBlock
    <3>2. CASE result # <<>> /\ ceremony = <<>>
      BY <2>6, <3>2 DEF JoinBlock
    <3>3. CASE result = <<>> /\ ceremony # <<>>
      <4>1. JoinBlock(result, ceremony) = ceremony /\ Len(ceremony) \in Nat
        BY <2>5, <3>3 DEF JoinBlock
      <4> QED
        BY <2>1, <2>2, <2>4, <3>3, <4>1
    <3>4. CASE result # <<>> /\ ceremony # <<>>
      <4> DEFINE gap == <<Newline, Newline>>
      <4>1. JoinBlock(result, ceremony) = (result \o gap) \o ceremony
        BY <3>4 DEF JoinBlock
      <4>2. gap \in Seq({Newline}) /\ Len(gap) = 2
        OBVIOUS
      <4> HIDE DEF gap
      <4> DEFINE S == Runes \cup {Newline}
      <4>3. ASSUME NEW t \in Seq(Runes) PROVE t \in Seq(S)
        OBVIOUS
      <4>4. gap \in Seq(S)
        BY <4>2
      <4>5. result \in Seq(S) /\ ceremony \in Seq(S) /\ Len(ceremony) \in Nat
        BY <2>1, <2>5, <3>4, <4>3
      <4> HIDE DEF S
      <4>6. Len(result \o gap) = Len(result) + 2 /\ result \o gap \in Seq(S)
        BY <4>2, <4>4, <4>5, Concat
      <4>7. Len((result \o gap) \o ceremony) = Len(result \o gap) + Len(ceremony)
        BY <4>5, <4>6, Concat
      <4> QED
        BY <2>1, <2>2, <2>4, <3>4, <4>1, <4>5, <4>6, <4>7
    <3> QED
      BY <3>1, <3>2, <3>3, <3>4
  <2> QED
    BY <2>4, <2>6 DEF words, result, ceremony
<1> QED
  BY <1>1, <1>2 DEF CutFits, Text

\* Whatever repair and quote do to a text, the loops around them end with something
\* that fits: for every answer, result block and limit.
THEOREM CutsFit == ASSUME DeliveryTypes PROVE DeliverySpec => []CutFits
<1>1. DeliveryInit => DeliveryInv
  BY DEF DeliveryInit, DeliveryInv
<1>2. ASSUME DeliveryInv, [DeliveryNext]_delivery
      PROVE  DeliveryInv'
  <2>1. ASSUME NEW result \in Seq(Runes), Queue(result)
        PROVE  DeliveryInv'
    BY <1>2, <2>1 DEF DeliveryInv, Queue
  <2>2. ASSUME NEW piece \in Seq(Runes), Answer(piece)
        PROVE  DeliveryInv'
    <3>1. answer' = answer \o piece /\ draw' = draw /\ answer \in Seq(Runes)
      BY <1>2, <2>2 DEF DeliveryInv, Answer
    <3>2. answer \o piece \in Seq(Runes)
      BY <3>1, Concat
    <3> QED
      BY <1>2, <3>1, <3>2 DEF DeliveryInv
  <2>3. CASE UNCHANGED delivery
    BY <1>2, <2>3 DEF DeliveryInv, delivery
  <2> QED
    BY <1>2, <2>1, <2>2, <2>3 DEF DeliveryNext
<1>3. DeliveryInv => CutFits
  BY AnnouncementFits
<1> QED
  BY <1>1, <1>2, <1>3, PTL DEF DeliverySpec
=============================================================================

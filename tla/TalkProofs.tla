------------------------------ MODULE TalkProofs ------------------------------
(***************************************************************************)
(* Theorems about Talk for every number of messages, every text, every     *)
(* history and every chain of providers.                                   *)
(*                                                                         *)
(* The operators on texts are recursive functions.  That each is defined   *)
(* (Steps), and what it returns, is shown by induction on the text, which  *)
(* is done over the set of the lengths a fact holds of (CountUp).          *)
(***************************************************************************)
EXTENDS Talk, FiniteSetTheorems, WellFoundedInduction, TLAPS

(* Induction *)

LEMMA LeastNumber ==
  ASSUME NEW T \in SUBSET Nat, T # {}
  PROVE  \E x \in T : \A y \in T : x <= y
<1> DEFINE R == {p \in Nat \X Nat : p[1] < p[2]}
<1>1. IsWellFoundedOn(R, Nat)
  BY NatLessThanWellFounded DEF OpToRel
<1>2. \A x, y \in Nat : <<y, x>> \notin R => x <= y
  OBVIOUS
<1> HIDE DEF R
<1>3. PICK x \in T : \A y \in T : ~(<<y, x>> \in R)
  BY <1>1, WFMin
<1>4. QED
  BY <1>2, <1>3

\* Induction up to a number, over the set of numbers a fact holds of.
LEMMA CountUp ==
  ASSUME NEW n \in Nat, NEW S, 0 \in S, \A i \in 0 .. n - 1 : i \in S => i + 1 \in S
  PROVE  \A i \in 0 .. n : i \in S
<1> DEFINE T == {i \in 0 .. n : i \notin S}
<1>1. SUFFICES ASSUME T # {} PROVE FALSE
  OBVIOUS
<1>2. T \in SUBSET Nat
  OBVIOUS
<1>3. PICK i \in T : \A j \in T : i <= j
  <2> HIDE DEF T
  <2> QED
    BY <1>1, <1>2, LeastNumber
<1>4. i \in 1 .. n /\ i - 1 \notin T
  BY <1>3
<1>5. QED
  BY <1>4

\* A function that is given step by step, and that there is one.
AreSteps(n, S, step) == step \in [1 .. n -> [S -> S]]

Follows(n, S, base, step, f) ==
  /\ f \in [0 .. n -> S] /\ f[0] = base
  /\ \A i \in 1 .. n : f[i] = step[i][f[i - 1]]

LEMMA Steps ==
  ASSUME NEW n \in Nat, NEW S, NEW base \in S, NEW step, AreSteps(n, S, step)
  PROVE  \E f : Follows(n, S, base, step, f)
<1> USE DEF AreSteps
<1> DEFINE Upto(k, f) == /\ f \in [0 .. k -> S] /\ f[0] = base
                         /\ \A i \in 1 .. k : f[i] = step[i][f[i - 1]]
           D == {k \in Nat : \E f : Upto(k, f)}
<1>1. 0 \in D
  <2>1. Upto(0, [i \in 0 .. 0 |-> base])
    OBVIOUS
  <2> QED
    BY <2>1
<1>2. ASSUME NEW k \in 0 .. n - 1, k \in D
      PROVE  k + 1 \in D
  <2>1. PICK f : Upto(k, f)
    BY <1>2
  <2> DEFINE g == [i \in 0 .. k + 1 |-> IF i = k + 1 THEN step[k + 1][f[k]] ELSE f[i]]
  <2>2. step[k + 1] \in [S -> S] /\ f[k] \in S
    BY <2>1
  <2>3. g \in [0 .. k + 1 -> S] /\ g[0] = base
    BY <2>1, <2>2
  <2>4. ASSUME NEW i \in 1 .. k + 1
        PROVE  g[i] = step[i][g[i - 1]]
    BY <2>1
  <2>5. Upto(k + 1, g)
    BY <2>3, <2>4
  <2> HIDE DEF Upto, g
  <2> QED
    BY <2>5
<1>3. \A i \in 0 .. n : i \in D
  <2> HIDE DEF D
  <2> QED
    BY <1>1, <1>2, CountUp
<1>4. n \in D
  <2> HIDE DEF D
  <2> QED
    BY <1>3
<1>5. PICK f : Upto(n, f)
  <2> HIDE DEF Upto
  <2> QED
    BY <1>4
<1>6. Follows(n, S, base, step, f)
  BY <1>5 DEF Follows
<1> QED
  BY <1>6

-----------------------------------------------------------------------------
(* Words *)

Texts == Seq(Words \cup {Break})

\* The words of a text, up to the n-th symbol.
Kept(text, n, kept) == IF n = 0 THEN <<>>
                       ELSE IF text[n] = Break THEN kept[n - 1] ELSE Append(kept[n - 1], text[n])

LEMMA FieldsType ==
  ASSUME NEW text \in Texts
  PROVE  Fields(text) \in Seq(Words)
<1> DEFINE N == Len(text)
           S == Seq(Words)
           step == [i \in 1 .. N |-> [s \in S |-> IF text[i] = Break THEN s ELSE Append(s, text[i])]]
           F(g) == [n \in 0 .. N |-> Kept(text, n, g)]
<1>1. N \in Nat /\ \A i \in 1 .. N : text[i] \in Words \cup {Break}
  BY DEF Texts
<1>2. step \in [1 .. N -> [S -> S]] /\ <<>> \in S
  BY <1>1
<1>3. \E f : Follows(N, S, <<>>, step, f)
  <2> DEFINE base == <<>>
  <2>1. N \in Nat /\ base \in S /\ AreSteps(N, S, step)
    BY <1>1, <1>2 DEF AreSteps
  <2> HIDE DEF S, step, N, base
  <2>2. \E f : Follows(N, S, base, step, f)
    BY <2>1, Steps
  <2> QED
    BY <2>2 DEF base
<1>4. \E f : f = F(f)
  <2>1. PICK f \in [0 .. N -> S] : f[0] = <<>> /\ \A i \in 1 .. N : f[i] = step[i][f[i - 1]]
    BY <1>3 DEF Follows
  <2>2. \A i \in 1 .. N : f[i - 1] \in S
    BY <1>1, <2>1
  <2>3. \A i \in 1 .. N : f[i] = IF text[i] = Break THEN f[i - 1] ELSE Append(f[i - 1], text[i])
    BY <2>1, <2>2
  <2>4. ASSUME NEW i \in 0 .. N
        PROVE  f[i] = Kept(text, i, f)
    <3>1. CASE i = 0
      BY <2>1, <3>1 DEF Kept
    <3>2. CASE i # 0
      <4>1. i \in 1 .. N
        BY <1>1, <3>2
      <4> QED
        BY <2>3, <3>2, <4>1 DEF Kept
    <3> QED
      BY <3>1, <3>2
  <2>5. f = [i \in 0 .. N |-> f[i]]
    BY <2>1
  <2>6. f = F(f)
    BY <2>4, <2>5
  <2> QED
    BY <2>6
<1> DEFINE c == CHOOSE g : g = F(g)
<1>5. Fields(text) = c[N]
  BY DEF Fields, Kept
<1>6. c = F(c)
  BY <1>4
<1> HIDE DEF c
<1>7. c[0] = <<>> /\ \A i \in 1 .. N : c[i] = IF text[i] = Break THEN c[i - 1] ELSE Append(c[i - 1], text[i])
  <2>1. \A i \in 0 .. N : c[i] = Kept(text, i, c)
    BY <1>6
  <2>2. 0 \in 0 .. N /\ \A i \in 1 .. N : i \in 0 .. N /\ i # 0
    BY <1>1
  <2> HIDE DEF N
  <2> QED
    BY <2>1, <2>2 DEF Kept
<1> HIDE DEF F
<1> DEFINE D == {n \in Nat : c[n] \in S}
<1>8. 0 \in D
  BY <1>2, <1>7
<1>9. ASSUME NEW i \in 0 .. N - 1, i \in D
      PROVE  i + 1 \in D
  <2>1. i + 1 \in 1 .. N /\ i + 1 - 1 = i
    BY <1>1
  <2>2. c[i + 1] = IF text[i + 1] = Break THEN c[i] ELSE Append(c[i], text[i + 1])
    BY <1>7, <2>1
  <2>3. text[i + 1] \in Words \cup {Break}
    BY <1>1, <2>1
  <2>4. c[i] \in S
    BY <1>9
  <2>5. c[i + 1] \in S
    BY <2>2, <2>3, <2>4
  <2> QED
    BY <2>1, <2>5
<1>10. \A i \in 0 .. N : i \in D
  <2>1. N \in Nat
    BY <1>1
  <2> HIDE DEF D, N
  <2> QED
    BY <2>1, <1>8, <1>9, CountUp
<1> QED
  BY <1>1, <1>5, <1>10

-----------------------------------------------------------------------------
(* What is learned of a text *)

Symbols == Words \cup {Null}

\* The padded words up to the n-th; at[i] is which word stands at i, or 0.
Upto(tokens, n, upTo) == IF n = 0 THEN <<Null>>
                         ELSE IF tokens[n] \in Enders THEN upTo[n - 1] \o <<tokens[n], Null>>
                         ELSE Append(upTo[n - 1], tokens[n])

InOrder(tokens, n, seq, at) ==
  /\ seq \in Seq(Symbols) /\ at \in [1 .. Len(seq) -> 0 .. n] /\ Len(seq) > 0
  /\ \A i \in 1 .. Len(seq) : at[i] = 0 => seq[i] = Null
  /\ \A i \in 1 .. Len(seq) : at[i] > 0 => seq[i] = tokens[at[i]]
  /\ \A i \in 1 .. Len(seq) - 1 : at[i] > 0 /\ at[i + 1] > 0 => at[i + 1] = at[i] + 1
  /\ \A i \in 1 .. Len(seq) - 1 : seq[i] \in Enders => seq[i + 1] = Null

\* Nothing is said after the last word, and an ender has its NULL.
Open(n, seq, at) == seq[Len(seq)] \notin Enders /\ at[Len(seq)] \in {0, n}

(* Putting two symbols after a walk at once is putting them there one by     *)
(* one (the ender and the closing nil of markov.go's padding).               *)
LEMMA TwoMore ==
  ASSUME NEW S, NEW s \in Seq(S), NEW x \in S, NEW y \in S
  PROVE  s \o <<x, y>> = Append(Append(s, x), y)
  OBVIOUS

LEMMA AppendFacts ==
  ASSUME NEW S, NEW s \in Seq(S), NEW e \in S
  PROVE  /\ Append(s, e) \in Seq(S) /\ Len(Append(s, e)) = Len(s) + 1
         /\ Append(s, e)[Len(s) + 1] = e
         /\ \A i \in 1 .. Len(s) : Append(s, e)[i] = s[i]
OBVIOUS

\* A word more keeps the order.
LEMMA WordMore ==
  ASSUME NEW tokens \in Seq(Words), NEW n \in 1 .. Len(tokens), NEW seq, NEW at,
         InOrder(tokens, n - 1, seq, at), Open(n - 1, seq, at)
  PROVE  \E to : /\ InOrder(tokens, n, Append(seq, tokens[n]), to)
                 /\ to[Len(seq) + 1] = n
<1> DEFINE new == Append(seq, tokens[n])
           L == Len(seq)
           to == [i \in 1 .. L + 1 |-> IF i = L + 1 THEN n ELSE at[i]]
<1>1. tokens[n] \in Words /\ tokens[n] \in Symbols /\ n \in Nat /\ n > 0
  BY DEF Symbols
<1>2. seq \in Seq(Symbols) /\ L \in Nat /\ L > 0 /\ at \in [1 .. L -> 0 .. n - 1]
  BY DEF InOrder
<1>a. /\ \A i \in 1 .. L : at[i] = 0 => seq[i] = Null
      /\ \A i \in 1 .. L : at[i] > 0 => seq[i] = tokens[at[i]]
      /\ \A i \in 1 .. L - 1 : at[i] > 0 /\ at[i + 1] > 0 => at[i + 1] = at[i] + 1
      /\ \A i \in 1 .. L - 1 : seq[i] \in Enders => seq[i + 1] = Null
  BY DEF InOrder
<1>3. /\ new \in Seq(Symbols) /\ Len(new) = L + 1 /\ new[L + 1] = tokens[n]
      /\ \A i \in 1 .. L : new[i] = seq[i]
  BY <1>1, <1>2, AppendFacts
<1>4. to \in [1 .. L + 1 -> 0 .. n] /\ to[L + 1] = n /\ \A i \in 1 .. L : to[i] = at[i]
  BY <1>1, <1>2
<1> HIDE DEF new, to, L
<1>5. ASSUME NEW i \in 1 .. L + 1
      PROVE  /\ to[i] = 0 => new[i] = Null
             /\ to[i] > 0 => new[i] = tokens[to[i]]
  <2>1. CASE i = L + 1
    BY <1>1, <1>3, <1>4, <2>1
  <2>2. CASE i \in 1 .. L
    BY <1>3, <1>4, <1>a, <2>2
  <2> QED
    BY <1>2, <2>1, <2>2
<1>6. ASSUME NEW i \in 1 .. L
      PROVE  /\ to[i] > 0 /\ to[i + 1] > 0 => to[i + 1] = to[i] + 1
             /\ new[i] \in Enders => new[i + 1] = Null
  <2>1. CASE i = L
    <3>1. to[i] = at[L] /\ to[i + 1] = n /\ new[i] = seq[L]
      BY <1>2, <1>3, <1>4, <2>1
    <3>2. seq[L] \notin Enders /\ at[L] \in {0, n - 1}
      BY DEF Open, L
    <3> QED
      BY <1>1, <3>1, <3>2
  <2>2. CASE i \in 1 .. L - 1
    <3>1. i + 1 \in 1 .. L
      BY <1>2, <2>2
    <3> QED
      BY <1>3, <1>4, <1>a, <2>2, <3>1
  <2> QED
    BY <1>2, <2>1, <2>2
<1>7. InOrder(tokens, n, new, to)
  <2>1. Len(new) > 0 /\ Len(new) - 1 = L
    BY <1>2, <1>3
  <2>2. new \in Seq(Symbols) /\ to \in [1 .. Len(new) -> 0 .. n]
    BY <1>3, <1>4
  <2>3. \A i \in 1 .. Len(new) : to[i] = 0 => new[i] = Null
    BY <1>3, <1>5
  <2>4. \A i \in 1 .. Len(new) : to[i] > 0 => new[i] = tokens[to[i]]
    BY <1>3, <1>5
  <2>5. \A i \in 1 .. Len(new) - 1 : to[i] > 0 /\ to[i + 1] > 0 => to[i + 1] = to[i] + 1
    BY <1>6, <2>1
  <2>6. \A i \in 1 .. Len(new) - 1 : new[i] \in Enders => new[i + 1] = Null
    BY <1>6, <2>1
  <2> QED
    BY <2>1, <2>2, <2>3, <2>4, <2>5, <2>6 DEF InOrder
<1> QED
  BY <1>4, <1>7 DEF new, L

\* And so does a NULL.
LEMMA NullMore ==
  ASSUME NEW tokens \in Seq(Words), NEW n \in 0 .. Len(tokens), NEW seq, NEW at,
         InOrder(tokens, n, seq, at)
  PROVE  \E to : /\ InOrder(tokens, n, Append(seq, Null), to)
                 /\ to[Len(seq) + 1] = 0
<1> DEFINE new == Append(seq, Null)
           L == Len(seq)
           to == [i \in 1 .. L + 1 |-> IF i = L + 1 THEN 0 ELSE at[i]]
<1>1. Null \in Symbols /\ n \in Nat
  BY DEF Symbols
<1>2. seq \in Seq(Symbols) /\ L \in Nat /\ L > 0 /\ at \in [1 .. L -> 0 .. n]
  BY DEF InOrder
<1>a. /\ \A i \in 1 .. L : at[i] = 0 => seq[i] = Null
      /\ \A i \in 1 .. L : at[i] > 0 => seq[i] = tokens[at[i]]
      /\ \A i \in 1 .. L - 1 : at[i] > 0 /\ at[i + 1] > 0 => at[i + 1] = at[i] + 1
      /\ \A i \in 1 .. L - 1 : seq[i] \in Enders => seq[i + 1] = Null
  BY DEF InOrder
<1>3. /\ new \in Seq(Symbols) /\ Len(new) = L + 1 /\ new[L + 1] = Null
      /\ \A i \in 1 .. L : new[i] = seq[i]
  BY <1>1, <1>2, AppendFacts
<1>4. to \in [1 .. L + 1 -> 0 .. n] /\ to[L + 1] = 0 /\ \A i \in 1 .. L : to[i] = at[i]
  BY <1>1, <1>2
<1> HIDE DEF new, to, L
<1>5. ASSUME NEW i \in 1 .. L + 1
      PROVE  /\ to[i] = 0 => new[i] = Null
             /\ to[i] > 0 => new[i] = tokens[to[i]]
  <2>1. CASE i = L + 1
    BY <1>1, <1>3, <1>4, <2>1
  <2>2. CASE i \in 1 .. L
    BY <1>3, <1>4, <1>a, <2>2
  <2> QED
    BY <1>2, <2>1, <2>2
<1>6. ASSUME NEW i \in 1 .. L
      PROVE  /\ to[i] > 0 /\ to[i + 1] > 0 => to[i + 1] = to[i] + 1
             /\ new[i] \in Enders => new[i + 1] = Null
  <2>1. CASE i = L
    BY <1>2, <1>3, <1>4, <2>1
  <2>2. CASE i \in 1 .. L - 1
    <3>1. i + 1 \in 1 .. L
      BY <1>2, <2>2
    <3> QED
      BY <1>3, <1>4, <1>a, <2>2, <3>1
  <2> QED
    BY <1>2, <2>1, <2>2
<1>7. InOrder(tokens, n, new, to)
  <2>1. Len(new) > 0 /\ Len(new) - 1 = L
    BY <1>2, <1>3
  <2>2. new \in Seq(Symbols) /\ to \in [1 .. Len(new) -> 0 .. n]
    BY <1>3, <1>4
  <2>3. \A i \in 1 .. Len(new) : to[i] = 0 => new[i] = Null
    BY <1>3, <1>5
  <2>4. \A i \in 1 .. Len(new) : to[i] > 0 => new[i] = tokens[to[i]]
    BY <1>3, <1>5
  <2>5. \A i \in 1 .. Len(new) - 1 : to[i] > 0 /\ to[i + 1] > 0 => to[i + 1] = to[i] + 1
    BY <1>6, <2>1
  <2>6. \A i \in 1 .. Len(new) - 1 : new[i] \in Enders => new[i + 1] = Null
    BY <1>6, <2>1
  <2> QED
    BY <2>1, <2>2, <2>3, <2>4, <2>5, <2>6 DEF InOrder
<1> QED
  BY <1>4, <1>7 DEF new, L

LEMMA PaddedInOrder ==
  ASSUME NEW tokens \in Seq(Words)
  PROVE  \E at : InOrder(tokens, Len(tokens), Padded(tokens), at)
<1> DEFINE N == Len(tokens)
           S == Seq(Symbols)
           step == [i \in 1 .. N |-> [s \in S |-> IF tokens[i] \in Enders THEN s \o <<tokens[i], Null>>
                                                  ELSE Append(s, tokens[i])]]
           F(g) == [n \in 0 .. N |-> Upto(tokens, n, g)]
<1>1. N \in Nat /\ \A i \in 1 .. N : tokens[i] \in Words /\ tokens[i] \in Symbols
  BY DEF Symbols
<1>2. <<Null>> \in S /\ \A w \in Symbols, s \in S : s \o <<w, Null>> \in S /\ Append(s, w) \in S
  BY DEF Symbols
<1>3. \E f : Follows(N, S, <<Null>>, step, f)
  <2> DEFINE base == <<Null>>
  <2>1. N \in Nat /\ base \in S
    BY <1>1, <1>2
  <2>2. AreSteps(N, S, step)
    <3> HIDE DEF S, N
    <3> QED
      BY <1>1, <1>2 DEF AreSteps
  <2> HIDE DEF S, step, N, base
  <2>3. \E f : Follows(N, S, base, step, f)
    BY <2>1, <2>2, Steps
  <2> QED
    BY <2>3 DEF base
<1>4. \E f : f = F(f)
  <2>1. PICK f \in [0 .. N -> S] : f[0] = <<Null>> /\ \A i \in 1 .. N : f[i] = step[i][f[i - 1]]
    BY <1>3 DEF Follows
  <2>2. \A i \in 1 .. N : f[i - 1] \in S
    BY <1>1, <2>1
  <2>3. \A i \in 1 .. N : f[i] = IF tokens[i] \in Enders THEN f[i - 1] \o <<tokens[i], Null>>
                                 ELSE Append(f[i - 1], tokens[i])
    <3> HIDE DEF S, N
    <3> QED
      BY <2>1, <2>2
  <2>4. ASSUME NEW i \in 0 .. N
        PROVE  f[i] = Upto(tokens, i, f)
    <3>1. CASE i = 0
      BY <2>1, <3>1 DEF Upto
    <3>2. CASE i # 0
      <4>1. i \in 1 .. N
        BY <1>1, <3>2
      <4> QED
        BY <2>3, <3>2, <4>1 DEF Upto
    <3> QED
      BY <3>1, <3>2
  <2>5. f = [i \in 0 .. N |-> f[i]]
    BY <2>1
  <2>6. f = F(f)
    BY <2>4, <2>5
  <2> QED
    BY <2>6
<1> DEFINE c == CHOOSE g : g = F(g)
<1>5. Padded(tokens) = IF Last(c[N]) = Null THEN c[N] ELSE Append(c[N], Null)
  BY DEF Padded, Upto
<1>6. c = F(c)
  BY <1>4
<1> HIDE DEF c
<1>7. c[0] = <<Null>> /\ \A i \in 1 .. N : c[i] = IF tokens[i] \in Enders THEN c[i - 1] \o <<tokens[i], Null>>
                                                  ELSE Append(c[i - 1], tokens[i])
  <2>1. \A i \in 0 .. N : c[i] = Upto(tokens, i, c)
    BY <1>6
  <2>2. 0 \in 0 .. N /\ \A i \in 1 .. N : i \in 0 .. N /\ i # 0
    BY <1>1
  <2> HIDE DEF N
  <2> QED
    BY <2>1, <2>2 DEF Upto
<1> HIDE DEF F
<1> DEFINE Is(n, at) == InOrder(tokens, n, c[n], at) /\ Open(n, c[n], at)
           D == {n \in Nat : \E at : Is(n, at)}
<1>8. 0 \in D
  <2> DEFINE at == [i \in 1 .. 1 |-> 0]
  <2>1. <<Null>> \in Seq(Symbols) /\ Len(<<Null>>) = 1 /\ <<Null>>[1] = Null
    BY DEF Symbols
  <2>2. at \in [1 .. Len(<<Null>>) -> 0 .. 0] /\ at[1] = 0
    BY <2>1
  <2>3. InOrder(tokens, 0, <<Null>>, at)
    BY <2>1, <2>2 DEF InOrder
  <2>4. Open(0, <<Null>>, at)
    BY <2>1, <2>2, MarkovAssumption DEF Open
  <2>5. Is(0, at)
    BY <1>7, <2>3, <2>4
  <2> HIDE DEF Is
  <2> QED
    BY <2>5
<1>9. ASSUME NEW i \in 0 .. N - 1, i \in D
      PROVE  i + 1 \in D
  <2> DEFINE w == tokens[i + 1]
  <2>0. i + 1 \in 1 .. N /\ i + 1 - 1 = i /\ i \in Nat /\ w \in Words /\ w \in Symbols
    BY <1>1
  <2>a. i + 1 \in 0 .. Len(tokens)
    BY <1>1, <2>0
  <2>b. c[i + 1] = IF w \in Enders THEN c[i] \o <<w, Null>> ELSE Append(c[i], w)
    <3> DEFINE k == i + 1
    <3>1. c[k] = IF tokens[k] \in Enders THEN c[k - 1] \o <<tokens[k], Null>> ELSE Append(c[k - 1], tokens[k])
      <4> HIDE DEF k
      <4> QED
        BY <1>7, <2>0 DEF k
    <3> QED
      BY <2>0, <3>1
  <2>1. PICK at : Is(i, at)
    <3> HIDE DEF Is
    <3> QED
      BY <1>9
  <2>2. PICK to : InOrder(tokens, i + 1, Append(c[i], w), to) /\ to[Len(c[i]) + 1] = i + 1
    <3>1. InOrder(tokens, i, c[i], at) /\ Open(i, c[i], at)
      BY <2>1
    <3> QED
      BY <2>0, <3>1, WordMore
  <2>3. c[i] \in Seq(Symbols)
    BY <2>1 DEF InOrder
  <2>4. CASE w \in Enders
    <3>1. PICK more : /\ InOrder(tokens, i + 1, Append(Append(c[i], w), Null), more)
                      /\ more[Len(Append(c[i], w)) + 1] = 0
      BY <2>a, <2>2, NullMore
    <3>2. c[i + 1] = c[i] \o <<w, Null>>
      BY <2>b, <2>4
    <3>3. c[i] \o <<w, Null>> = Append(Append(c[i], w), Null)
      <4>1. w \in Symbols /\ Null \in Symbols
        BY <2>0 DEF Symbols
      <4> DEFINE s == c[i]
      <4>2. s \in Seq(Symbols)
        BY <2>3
      <4> HIDE DEF s, w
      <4>3. s \o <<w, Null>> = Append(Append(s, w), Null)
        BY ONLY <4>1, <4>2, TwoMore
      <4> QED
        BY <4>3 DEF s, w
    <3>4. Open(i + 1, Append(Append(c[i], w), Null), more)
      <4>1. Append(c[i], w) \in Seq(Symbols) /\ Null \in Symbols
        BY <2>0, <2>3 DEF Symbols
      <4>2. /\ Len(Append(Append(c[i], w), Null)) = Len(Append(c[i], w)) + 1
            /\ Append(Append(c[i], w), Null)[Len(Append(c[i], w)) + 1] = Null
        BY <4>1, AppendFacts
      <4> QED
        BY <3>1, <4>2, MarkovAssumption DEF Open
    <3>5. Is(i + 1, more)
      BY <3>1, <3>2, <3>3, <3>4
    <3> HIDE DEF Is
    <3> QED
      BY <2>0, <3>5
  <2>5. CASE w \notin Enders
    <3>1. c[i + 1] = Append(c[i], w)
      BY <2>b, <2>5
    <3>2. Len(Append(c[i], w)) = Len(c[i]) + 1 /\ Append(c[i], w)[Len(c[i]) + 1] = w
      BY <2>0, <2>3, AppendFacts
    <3>3. Open(i + 1, Append(c[i], w), to)
      BY <2>2, <2>5, <3>2 DEF Open
    <3>4. Is(i + 1, to)
      BY <2>2, <3>1, <3>3
    <3> HIDE DEF Is
    <3> QED
      BY <2>0, <3>4
  <2> QED
    BY <2>4, <2>5
<1>10. \A i \in 0 .. N : i \in D
  <2>1. N \in Nat
    BY <1>1
  <2> HIDE DEF D, N
  <2> QED
    BY <2>1, <1>8, <1>9, CountUp
<1>11. PICK at : Is(N, at)
  <2>1. N \in D
    <3> HIDE DEF D
    <3> QED
      BY <1>1, <1>10
  <2> HIDE DEF Is
  <2> QED
    BY <2>1
<1>12. InOrder(tokens, N, c[N], at)
  BY <1>11
<1>13. CASE Last(c[N]) = Null
  BY <1>5, <1>12, <1>13
<1>14. CASE Last(c[N]) # Null
  <2>1. \E to : InOrder(tokens, N, Append(c[N], Null), to)
    BY <1>1, <1>12, NullMore
  <2> QED
    BY <1>5, <1>14, <2>1
<1> QED
  BY <1>13, <1>14

Window(seq, i) == <<seq[i], At(seq, i + 1), At(seq, i + 2)>>

\* The loop of Learn over the symbols from the i-th on.
From(seq, i, from) ==
  IF i > Len(seq) THEN {}
  ELSE IF seq[i] = Null /\ At(seq, i + 2) = Null /\ i + 2 <= Len(seq) THEN from[i + 3]
  ELSE {Window(seq, i)} \cup from[i + 1]

Windows(seq) == {Window(seq, i) : i \in 1 .. Len(seq)}

LEMMA LoopExists ==
  ASSUME NEW seq \in Seq(Symbols)
  PROVE  \E f : f = [i \in 1 .. Len(seq) + 3 |-> From(seq, i, f)]
<1> DEFINE L == Len(seq)
           Is(k, f) == f = [i \in k .. L + 3 |-> From(seq, i, f)]
           D == {n \in Nat : \E f : Is(L + 1 - n, f)}
<1>1. L \in Nat
  OBVIOUS
<1>2. 0 \in D
  <2> DEFINE f == [i \in L + 1 .. L + 3 |-> {}]
  <2>1. \A i \in L + 1 .. L + 3 : From(seq, i, f) = {}
    BY <1>1 DEF From
  <2>2. Is(L + 1, f)
    BY <2>1
  <2>3. L + 1 - 0 = L + 1
    BY <1>1
  <2> HIDE DEF Is
  <2> QED
    BY <2>2, <2>3
<1>3. ASSUME NEW n \in 0 .. L - 1, n \in D
      PROVE  n + 1 \in D
  <2> DEFINE k == L + 1 - (n + 1)
  <2>0. k \in 1 .. L /\ k + 1 = L + 1 - n
    BY <1>1
  <2>1. PICK f : Is(k + 1, f)
    <3> HIDE DEF Is, k
    <3> QED
      BY <1>3, <2>0
  <2> HIDE DEF k
  <2> DEFINE g == [i \in k .. L + 3 |-> IF i = k THEN From(seq, k, f) ELSE f[i]]
  <2>2. \A i \in k + 1 .. L + 3 : f[i] = From(seq, i, f)
    BY <2>1
  <2>3. \A i \in k + 1 .. L + 3 : g[i] = f[i]
    BY <2>0
  <2>4. ASSUME NEW i \in k .. L + 3
        PROVE  From(seq, i, g) = From(seq, i, f)
    <3>1. i \in Int /\ k \in Int /\ i >= k
      BY <1>1, <2>0
    <3>2. CASE i > L
      BY <3>2 DEF From
    <3>3. CASE ~(i > L)
      <4>1. i + 1 \in k + 1 .. L + 3 /\ i + 3 \in k + 1 .. L + 3
        BY <1>1, <3>1, <3>3
      <4>2. g[i + 1] = f[i + 1] /\ g[i + 3] = f[i + 3]
        BY <2>3, <4>1
      <4> QED
        BY <4>2 DEF From
    <3> QED
      BY <3>2, <3>3
  <2>5. ASSUME NEW i \in k .. L + 3
        PROVE  g[i] = From(seq, i, g)
    <3>1. CASE i = k
      BY <2>4, <3>1
    <3>2. CASE i # k
      <4>1. i \in k + 1 .. L + 3
        BY <1>1, <2>0, <3>2
      <4> QED
        BY <2>2, <2>3, <2>4, <4>1
    <3> QED
      BY <3>1, <3>2
  <2>6. g = [i \in k .. L + 3 |-> g[i]]
    OBVIOUS
  <2>7. Is(k, g)
    <3> HIDE DEF g
    <3> QED
      BY <2>5, <2>6
  <2> HIDE DEF Is, g
  <2> QED
    BY <2>7 DEF k
<1>4. \A n \in 0 .. L : n \in D
  <2> HIDE DEF D
  <2> QED
    BY <1>1, <1>2, <1>3, CountUp
<1>5. PICK f : Is(1, f)
  <2>1. L \in D /\ L + 1 - L = 1
    <3> HIDE DEF D
    <3> QED
      BY <1>1, <1>4
  <2> HIDE DEF Is
  <2> QED
    BY <2>1
<1> QED
  BY <1>5

\* What the loop learns is windows of the padded words.
LEMMA TrigramsAreWindows ==
  ASSUME NEW tokens \in Seq(Words)
  PROVE  Trigrams(tokens) \subseteq Windows(Padded(tokens))
<1> DEFINE seq == Padded(tokens)
           L == Len(seq)
           F(g) == [i \in 1 .. L + 3 |-> From(seq, i, g)]
           c == CHOOSE g : g = F(g)
<1>1. seq \in Seq(Symbols) /\ L \in Nat
  BY PaddedInOrder DEF InOrder
<1>2. Trigrams(tokens) = IF tokens = <<>> THEN {} ELSE c[1]
  BY DEF Trigrams, From, Window
<1>3. c = F(c)
  <2>1. \E f : f = F(f)
    <3> HIDE DEF seq
    <3> QED
      BY <1>1, LoopExists
  <2> QED
    BY <2>1
<1> HIDE DEF c
<1>4. \A i \in 1 .. L + 3 : c[i] = From(seq, i, c)
  BY <1>3
<1> HIDE DEF F, seq
<1> DEFINE W == Windows(seq)
           D == {n \in Nat : \A i \in 1 .. L + 3 : L + 1 - n <= i => c[i] \subseteq W}
<1>5. 0 \in D
  <2>1. ASSUME NEW i \in 1 .. L + 3, L + 1 - 0 <= i
        PROVE  c[i] \subseteq W
    <3>1. i > L
      BY <1>1, <2>1
    <3>2. c[i] = {}
      BY <1>4, <3>1 DEF From
    <3> QED
      BY <3>2
  <2> HIDE DEF W
  <2> QED
    BY <2>1
<1>6. ASSUME NEW n \in 0 .. L - 1, n \in D
      PROVE  n + 1 \in D
  <2> DEFINE k == L + 1 - (n + 1)
  <2>0. k \in 1 .. L /\ k + 1 = L + 1 - n
    BY <1>1
  <2>1. \A i \in 1 .. L + 3 : k + 1 <= i => c[i] \subseteq W
    BY <1>6, <2>0
  <2>2. c[k] \subseteq W
    <3>1. /\ k \in 1 .. L + 3 /\ k + 1 \in 1 .. L + 3 /\ k + 3 \in 1 .. L + 3
          /\ k + 1 <= k + 3 /\ k + 1 <= k + 1 /\ ~(k > L)
      BY <1>1, <2>0
    <3>2. c[k + 1] \subseteq W /\ c[k + 3] \subseteq W
      BY <2>1, <3>1
    <3>3. Window(seq, k) \in W
      BY <2>0 DEF Windows
    <3>4. c[k] = From(seq, k, c)
      BY <1>4, <3>1
    <3> HIDE DEF W, k
    <3> QED
      BY <3>1, <3>2, <3>3, <3>4 DEF From
  <2>3. \A i \in 1 .. L + 3 : k <= i => i = k \/ k + 1 <= i
    BY <1>1, <2>0
  <2>4. \A i \in 1 .. L + 3 : k <= i => c[i] \subseteq W
    <3> HIDE DEF W, k, L
    <3> QED
      BY <2>1, <2>2, <2>3
  <2>5. n + 1 \in Nat
    BY <1>1
  <2> HIDE DEF W, L
  <2> QED
    BY <2>4, <2>5
<1>7. \A n \in 0 .. L : n \in D
  <2>1. L \in Nat
    BY <1>1
  <2> HIDE DEF D, L
  <2> QED
    BY <2>1, <1>5, <1>6, CountUp
<1>8. c[1] \subseteq W
  <2>1. L \in D /\ L + 1 - L <= 1 /\ 1 \in 1 .. L + 3
    <3> HIDE DEF D
    <3> QED
      BY <1>1, <1>7
  <2> QED
    BY <2>1
<1> QED
  BY <1>2, <1>8 DEF seq

LEMMA Pieces ==
  ASSUME NEW s \in Seq(Words), NEW p \in 1 .. Len(s)
  PROVE  /\ p + 1 \in 1 .. Len(s) => <<s[p], s[p + 1]>> \in SubSeqs(s)
         /\ p + 2 \in 1 .. Len(s) => <<s[p], s[p + 1], s[p + 2]>> \in SubSeqs(s)
<1>1. \A q \in Seq(Words) : /\ Len(q) = 2 => q = <<q[1], q[2]>>
                            /\ Len(q) = 3 => q = <<q[1], q[2], q[3]>>
  OBVIOUS
<1>2. \A a, b \in 0 .. Len(s) : SubSeq(s, a + 1, b) \in SubSeqs(s)
  BY DEF SubSeqs
<1>3. \A b \in p .. Len(s) : /\ SubSeq(s, p, b) \in Seq(Words) /\ Len(SubSeq(s, p, b)) = b - p + 1
                             /\ \A i \in 1 .. b - p + 1 : SubSeq(s, p, b)[i] = s[p + i - 1]
  OBVIOUS
<1>4. p - 1 \in 0 .. Len(s) /\ (p - 1) + 1 = p /\ p \in Nat /\ Len(s) \in Nat
  OBVIOUS
<1>5. ASSUME NEW b \in p .. Len(s)
      PROVE  SubSeq(s, p, b) \in SubSeqs(s)
  <2>1. b \in 0 .. Len(s)
    BY <1>4
  <2>2. SubSeq(s, (p - 1) + 1, b) \in SubSeqs(s)
    BY <1>2, <1>4, <2>1
  <2> QED
    BY <1>4, <2>2
<1>6. ASSUME p + 1 \in 1 .. Len(s)
      PROVE  <<s[p], s[p + 1]>> \in SubSeqs(s)
  <2> DEFINE q == SubSeq(s, p, p + 1)
  <2>1. q \in Seq(Words) /\ Len(q) = 2 /\ q[1] = s[p] /\ q[2] = s[p + 1] /\ q \in SubSeqs(s)
    BY <1>3, <1>4, <1>5, <1>6
  <2> HIDE DEF q
  <2> QED
    BY <1>1, <2>1
<1>7. ASSUME p + 2 \in 1 .. Len(s)
      PROVE  <<s[p], s[p + 1], s[p + 2]>> \in SubSeqs(s)
  <2> DEFINE q == SubSeq(s, p, p + 2)
  <2>1. /\ q \in Seq(Words) /\ Len(q) = 3 /\ q[1] = s[p] /\ q[2] = s[p + 1] /\ q[3] = s[p + 2]
        /\ q \in SubSeqs(s)
    BY <1>3, <1>4, <1>5, <1>7
  <2> HIDE DEF q
  <2> QED
    BY <1>1, <2>1
<1> QED
  BY <1>6, <1>7

\* The trigrams of a text: symbols, NULL after an ender, and what is not NULL stands
\* beside each other in the text.
LEMMA TrigramFacts ==
  ASSUME NEW tokens \in Seq(Words), NEW t \in Trigrams(tokens)
  PROVE  /\ t \in Symbols \X Symbols \X Symbols
         /\ t[2] \in Enders => t[3] = Null
         /\ t[2] \in Words /\ t[3] \in Words => <<t[2], t[3]>> \in SubSeqs(tokens)
         /\ t[1] \in Words /\ t[2] \in Words /\ t[3] \in Words => <<t[1], t[2], t[3]>> \in SubSeqs(tokens)
<1> DEFINE seq == Padded(tokens)
           L == Len(seq)
<1>1. PICK at : InOrder(tokens, Len(tokens), seq, at)
  BY PaddedInOrder
<1>2. PICK i \in 1 .. L : t = Window(seq, i)
  BY TrigramsAreWindows DEF Windows
<1>3. /\ seq \in Seq(Symbols) /\ L \in Nat /\ L > 0 /\ at \in [1 .. L -> 0 .. Len(tokens)]
      /\ Len(tokens) \in Nat
  BY <1>1 DEF InOrder
<1>4. /\ \A k \in 1 .. L : at[k] = 0 => seq[k] = Null
      /\ \A k \in 1 .. L : at[k] > 0 => seq[k] = tokens[at[k]]
      /\ \A k \in 1 .. L - 1 : at[k] > 0 /\ at[k + 1] > 0 => at[k + 1] = at[k] + 1
      /\ \A k \in 1 .. L - 1 : seq[k] \in Enders => seq[k + 1] = Null
  BY <1>1 DEF InOrder
<1>5. \A k \in 1 .. L : seq[k] \in Symbols /\ At(seq, k) = seq[k]
  BY <1>3 DEF At
<1>6. \A k \in Nat : k > L => At(seq, k) = Null
  BY <1>3 DEF At
<1> HIDE DEF seq, L
<1>7. i \in Nat /\ i + 1 \in Nat /\ i + 2 \in Nat /\ (i + 1) + 1 = i + 2
  BY <1>3
<1>8. t[1] = seq[i] /\ t[2] = At(seq, i + 1) /\ t[3] = At(seq, i + 2)
  BY <1>2 DEF Window
<1>9. Null \notin Words /\ Null \notin Enders
  BY TalkAssumption, MarkovAssumption
<1>10. t \in Symbols \X Symbols \X Symbols
  <2>1. \A k \in Nat \ {0} : At(seq, k) \in Symbols
    BY <1>3, <1>5, <1>6 DEF Symbols
  <2>2. seq[i] \in Symbols
    BY <1>5
  <2> QED
    BY <1>2, <1>7, <2>1, <2>2 DEF Window
<1>11. ASSUME t[2] \in Enders
       PROVE  t[3] = Null
  <2>1. i + 1 \in 1 .. L
    BY <1>3, <1>6, <1>7, <1>8, <1>9, <1>11
  <2>2. CASE i + 1 = L
    BY <1>3, <1>6, <1>7, <1>8, <2>2
  <2>3. CASE i + 1 # L
    <3>1. i + 1 \in 1 .. L - 1 /\ i + 2 \in 1 .. L
      BY <1>3, <2>1, <2>3
    <3>2. seq[i + 1] \in Enders => seq[(i + 1) + 1] = Null
      BY <1>4, <3>1
    <3> QED
      BY <1>5, <1>7, <1>8, <1>11, <2>1, <3>1, <3>2
  <2> QED
    BY <2>2, <2>3
<1>12. ASSUME t[2] \in Words, t[3] \in Words
       PROVE  /\ <<t[2], t[3]>> \in SubSeqs(tokens)
              /\ t[1] \in Words => <<t[1], t[2], t[3]>> \in SubSeqs(tokens)
  <2>1. i + 1 \in 1 .. L /\ i + 2 \in 1 .. L /\ i \in 1 .. L - 1 /\ i + 1 \in 1 .. L - 1
    BY <1>3, <1>6, <1>7, <1>8, <1>9, <1>12
  <2>2. t[2] = seq[i + 1] /\ t[3] = seq[i + 2]
    BY <1>5, <1>8, <2>1
  <2> DEFINE p == at[i + 1]
  <2>3. p \in 1 .. Len(tokens) /\ at[i + 2] \in 1 .. Len(tokens)
    BY <1>3, <1>4, <1>9, <1>12, <2>1, <2>2
  <2>4. at[i + 2] = p + 1
    <3>1. at[i + 1] > 0 /\ at[(i + 1) + 1] > 0 => at[(i + 1) + 1] = at[i + 1] + 1
      BY <1>4, <2>1
    <3> QED
      BY <1>7, <2>3, <3>1
  <2>5. t[2] = tokens[p] /\ t[3] = tokens[p + 1]
    BY <1>4, <2>1, <2>2, <2>3, <2>4
  <2> HIDE DEF p
  <2>6. <<t[2], t[3]>> \in SubSeqs(tokens)
    <3>1. p + 1 \in 1 .. Len(tokens)
      BY <2>3, <2>4
    <3> QED
      BY <2>3, <2>5, <3>1, Pieces
  <2>7. ASSUME t[1] \in Words
        PROVE  <<t[1], t[2], t[3]>> \in SubSeqs(tokens)
    <3>1. at[i] \in 1 .. Len(tokens) /\ i \in 1 .. L
      BY <1>3, <1>4, <1>8, <1>9, <2>1, <2>7
    <3>2. p = at[i] + 1
      BY <1>4, <2>1, <2>3, <3>1 DEF p
    <3>3. t[1] = tokens[p - 1] /\ p - 1 \in 1 .. Len(tokens)
      BY <1>4, <1>8, <3>1, <3>2
    <3>4. (p - 1) + 1 = p /\ (p - 1) + 2 = p + 1 /\ p + 1 \in 1 .. Len(tokens)
      BY <1>3, <2>3, <2>4
    <3> DEFINE o == p - 1
    <3>5. o \in 1 .. Len(tokens) /\ o + 1 = p /\ o + 2 = p + 1 /\ o + 2 \in 1 .. Len(tokens)
      BY <3>3, <3>4
    <3>6. t[1] = tokens[o]
      BY <3>3
    <3> HIDE DEF o
    <3>7. <<tokens[o], tokens[o + 1], tokens[o + 2]>> \in SubSeqs(tokens)
      BY <3>5, Pieces
    <3> QED
      BY <2>5, <3>5, <3>6, <3>7
  <2> QED
    BY <2>6, <2>7
<1> QED
  BY <1>10, <1>11, <1>12

-----------------------------------------------------------------------------
(* The rows a handler reads *)

LEMMA ReadRowsType ==
  ASSUME NEW S, NEW rows \in Seq(S)
  PROVE  Reverse(rows) \in Seq(S) /\ Latest(rows) \in Seq(S)
         /\ \A i \in Nat : SubSeq(rows, i + 1, Len(rows)) \in Seq(S)
<1>1. Reverse(rows) \in Seq(S)
  <2>1. ASSUME NEW i \in 1 .. Len(rows)
        PROVE  rows[(Len(rows) - i) + 1] \in S
    <3>1. (Len(rows) - i) + 1 \in 1 .. Len(rows)
      OBVIOUS
    <3> QED
      BY <3>1
  <2> QED
    BY <2>1 DEF Reverse
<1>2. Latest(rows) \in Seq(S)
  <2>1. rows # <<>> => Head(rows) \in S
    OBVIOUS
  <2> QED
    BY <2>1 DEF Latest
<1> QED
  BY <1>1, <1>2

\* There is a longest part that fits, be it none of the rows.
LEMMA FittingType ==
  ASSUME NEW S, NEW rows \in Seq(S)
  PROVE  Fitting(rows) \in Seq(S)
<1> DEFINE fits(k) == BytesOf(FlattenSeq([i \in 1 .. k |-> rows[i].text])) <= ReplyBytes
           N == Len(rows)
           P(k) == fits(k) /\ (k = N \/ ~fits(k + 1))
           c == CHOOSE k \in 0 .. N : P(k)
<1>1. N \in Nat
  OBVIOUS
<1>2. fits(0)
  <2> DEFINE none == [i \in 1 .. 0 |-> rows[i].text]
  <2>1. none = <<>>
    OBVIOUS
  <2>2. FlattenSeq(none) = <<>>
    BY <2>1 DEF FlattenSeq
  <2>3. BytesOf(<<>>) = 0
    BY PromptAssumption DEF BytesOf
  <2> HIDE DEF none
  <2>4. BytesOf(FlattenSeq(none)) <= ReplyBytes
    BY <2>2, <2>3, TalkAssumption
  <2> QED
    BY <2>4 DEF none
<1> HIDE DEF fits
<1>3. \E k \in 0 .. N : P(k)
  <2> DEFINE T == {k \in 0 .. N : k = N \/ ~fits(k + 1)}
  <2>1. N \in T /\ T \in SUBSET Nat
    BY <1>1
  <2>2. PICK k \in T : \A j \in T : k <= j
    <3> HIDE DEF T
    <3> QED
      BY <2>1, LeastNumber
  <2>3. fits(k)
    <3>1. CASE k = 0
      BY <1>2, <3>1
    <3>2. CASE k # 0
      <4>1. k \in 0 .. N
        BY <2>2
      <4>2. k - 1 \in 0 .. N /\ ~(k <= k - 1) /\ (k - 1) + 1 = k
        BY <1>1, <3>2, <4>1
      <4>3. k - 1 \notin T
        <5> HIDE DEF T
        <5> QED
          BY <2>2, <4>2
      <4> QED
        BY <4>2, <4>3
    <3> QED
      BY <3>1, <3>2
  <2> QED
    BY <2>2, <2>3
<1>4. c \in 0 .. N
  <2> HIDE DEF P
  <2> QED
    BY <1>3
<1>5. Fitting(rows) = SubSeq(rows, 1, c)
  BY DEF Fitting, fits
<1> HIDE DEF c
<1> QED
  BY <1>1, <1>4, <1>5

LEMMA NewestFirstType ==
  ASSUME NEW S, history \in Seq(S), NEW since \in Nat
  PROVE  NewestFirst(since) \in Seq(S)
BY ReadRowsType DEF NewestFirst

LEMMA WordsType ==
  ASSUME TypeOK
  PROVE  /\ \A u \in Updates : Spoken(u) \in Seq(Words)
         /\ ContextWords \subseteq Words
<1>1. \A u \in Updates : said[u].text \in Texts
  BY DEF TypeOK, Texts
<1>2. ASSUME NEW rows \in Seq(Row)
      PROVE  UNION {ToSet(Fields(rows[i].text)) : i \in DOMAIN rows} \subseteq Words
  <2>1. ASSUME NEW i \in DOMAIN rows
        PROVE  ToSet(Fields(rows[i].text)) \subseteq Words
    <3>1. rows[i].text \in Texts
      <4>1. rows[i] \in Row
        OBVIOUS
      <4> QED
        BY <4>1 DEF Row, Texts
    <3>2. Fields(rows[i].text) \in Seq(Words)
      BY <3>1, FieldsType
    <3> QED
      BY <3>2 DEF ToSet
  <2> QED
    BY <2>1
<1>3. history \in Seq(Row)
  BY DEF TypeOK
<1>4. NewestFirst(0) \in Seq(Row)
  BY <1>3, NewestFirstType
<1>5. Fitting(NewestFirst(0)) \in Seq(Row) /\ Latest(NewestFirst(0)) \in Seq(Row)
  BY <1>4, FittingType, ReadRowsType
<1>6. ContextWords \subseteq Words
  <2> DEFINE fitting == Fitting(NewestFirst(0))
             rows == IF fitting = <<>> THEN Latest(NewestFirst(0)) ELSE fitting
  <2>1. rows \in Seq(Row)
    BY <1>5
  <2>2. ContextWords = UNION {ToSet(Fields(rows[i].text)) : i \in DOMAIN rows}
    BY DEF ContextWords
  <2> HIDE DEF rows
  <2> QED
    BY <1>2, <2>1, <2>2
<1> QED
  BY <1>1, <1>6, FieldsType DEF Spoken

-----------------------------------------------------------------------------
(* Types *)

\* Who is asked is a provider of the chain, and it was the first when there was no
\* telling yet whether anybody is asked.
Fits(h) ==
  /\ h.at \in {"new", "ensure", "register", "decide"} => h.provider = 1
  /\ h.at \in {"read", "latest", "ask"} => h.provider \in DOMAIN ContextSizes

Sound(h) == h \in Handler /\ Len(h.walk.words) <= SafetyCounter /\ Fits(h)

HandlersOK == handler \in [Updates -> Handler] /\ \A u \in Updates : Sound(handler[u])

TablesOK ==
  /\ history \in Seq(Row)
  /\ known \subseteq Words
  /\ pairs \subseteq Symbols \X Symbols \X Symbols

SaidOK == said \in [Updates -> [user : Users \cup {BotID}, text : Texts]]

StatsOK ==
  /\ stats \in [Updates -> {"none", "spawned", "words", "pairs", "append", "score", "done"}]
  /\ main \in {"serving", "cron", "waiting", "leaving", "closed"}
  /\ timedOut \in BOOLEAN /\ late \cup failed \subseteq Updates

TypeInv == HandlersOK /\ TablesOK /\ SaidOK /\ StatsOK

LEMMA TypeInvImplies ==
  TypeInv => TypeOK
<1> SUFFICES ASSUME TypeInv
             PROVE  TypeOK
  OBVIOUS
<1>1. \A u \in Updates : /\ handler[u].at = "ask" => handler[u].provider \in DOMAIN ContextSizes
                         /\ Len(handler[u].walk.words) <= SafetyCounter
  BY DEF TypeInv, HandlersOK, Sound, Fits
<1>2. /\ history \in Seq(Row) /\ known \subseteq Words
      /\ pairs \subseteq (Words \cup {Null}) \X (Words \cup {Null}) \X (Words \cup {Null})
  BY DEF TypeInv, TablesOK, Symbols
<1>3. said \in [Updates -> [user : Users \cup {BotID}, text : Seq(Words \cup {Break})]]
  BY DEF TypeInv, SaidOK, Texts
<1>4. handler \in [Updates -> Handler]
  BY DEF TypeInv, HandlersOK
<1>5. /\ stats \in [Updates -> {"none", "spawned", "words", "pairs", "append", "score", "done"}]
      /\ main \in {"serving", "cron", "waiting", "leaving", "closed"}
      /\ timedOut \in BOOLEAN /\ late \cup failed \subseteq Updates
  BY DEF TypeInv, StatsOK
<1> QED
  BY <1>1, <1>2, <1>3, <1>4, <1>5 DEF TypeOK

LEMMA NewIsSound ==
  /\ Sound(New)
  /\ \A e \in BOOLEAN : Sound([New EXCEPT !.at = "done", !.enabled = e])
<1>1. StartAt({}) \in [words : Seq(Words), first : Words \cup {Null, AnyWord}, second : SUBSET Words]
  BY DEF StartAt
<1>2. New \in Handler
  BY <1>1 DEF New, Handler
<1>3. Len(New.walk.words) = 0 /\ 0 <= SafetyCounter
  BY MarkovAssumption DEF New, StartAt
<1>4. Sound(New)
  BY <1>2, <1>3 DEF New, Sound, Fits
<1>5. ASSUME NEW e \in BOOLEAN
      PROVE  Sound([New EXCEPT !.at = "done", !.enabled = e])
  <2> DEFINE h == [New EXCEPT !.at = "done", !.enabled = e]
  <2>1. h \in Handler
    BY <1>2 DEF Handler
  <2>2. h.walk = New.walk /\ h.at = "done"
    BY DEF New
  <2> HIDE DEF h
  <2>3. Fits(h)
    BY <2>2 DEF Fits
  <2>4. Len(h.walk.words) <= SafetyCounter
    BY <1>3, <2>2
  <2>5. Sound(h)
    BY <2>1, <2>3, <2>4 DEF Sound
  <2> QED
    BY <2>5 DEF h
<1> QED
  BY <1>4, <1>5

\* A goroutine goes from a sound state to a sound state.
LEMMA GoesOn ==
  ASSUME HandlersOK, NEW u \in Updates, NEW h, Sound(h), Goes(u, h)
  PROVE  HandlersOK'
<1>1. handler' = [handler EXCEPT ![u] = h] /\ handler \in [Updates -> Handler] /\ h \in Handler
  BY DEF Goes, HandlersOK, Sound
<1>2. handler' \in [Updates -> Handler]
  BY <1>1
<1>3. \A v \in Updates : Sound(handler'[v])
  BY <1>1 DEF HandlersOK
<1> QED
  BY <1>2, <1>3 DEF HandlersOK

LEMMA GetsDone ==
  ASSUME HandlersOK, NEW u \in Updates, Done(u)
  PROVE  HandlersOK'
<1>1. handler[u].enabled \in BOOLEAN
  BY DEF HandlersOK, Handler
<1> QED
  BY <1>1, NewIsSound, GoesOn DEF Done

\* Where the goroutine is changes, and what it goes on with does not.
LEMMA SoundAt ==
  ASSUME NEW h, Sound(h), NEW a, Fits([h EXCEPT !.at = a]),
         a \in {"new", "ensure", "register", "decide", "read", "latest", "ask", "send", "persist", "done"}
                 \cup Generating
  PROVE  Sound([h EXCEPT !.at = a])
<1>1. [h EXCEPT !.at = a] \in Handler /\ [h EXCEPT !.at = a].walk = h.walk
  BY DEF Sound, Handler
<1> QED
  BY <1>1 DEF Sound

LEMMA TypeStart ==
  Init => TypeInv
<1> SUFFICES ASSUME Init
             PROVE  TypeInv
  OBVIOUS
<1>1. HandlersOK
  BY NewIsSound DEF Init, HandlersOK, Sound
<1>2. Past \in Seq(Row)
  <2> DEFINE T == [user : Users \cup Bots, text : Seq(Words \cup {Break}), update : {NoUpdate}]
  <2>1. Past \in Seq(T)
    BY TalkAssumption
  <2>2. ASSUME NEW i \in 1 .. Len(Past)
        PROVE  Past[i] \in Row
    <3>1. Past[i] \in T
      <4> HIDE DEF T
      <4> QED
        BY <2>1
    <3> QED
      BY <3>1 DEF Row
  <2>3. Past \in [1 .. Len(Past) -> Row] /\ Len(Past) \in Nat
    <3> HIDE DEF T, Row
    <3> QED
      BY <2>1, <2>2
  <2> HIDE DEF Row
  <2> QED
    BY <2>3
<1>3. \A i \in DOMAIN Past : Fields(Past[i].text) \in Seq(Words)
  <2>1. ASSUME NEW i \in DOMAIN Past
        PROVE  Past[i].text \in Texts
    <3>1. Past[i] \in Row
      BY <1>2
    <3> QED
      BY <3>1 DEF Row, Texts
  <2> QED
    BY <2>1, FieldsType
<1>4. known \subseteq Words
  <2>1. \A i \in DOMAIN Past : ToSet(Fields(Past[i].text)) \subseteq Words
    BY <1>3 DEF ToSet
  <2> QED
    BY <2>1 DEF Init
<1>5. pairs \subseteq Symbols \X Symbols \X Symbols
  <2>1. \A i \in DOMAIN Past : Trigrams(Fields(Past[i].text)) \subseteq Symbols \X Symbols \X Symbols
    BY <1>3, TrigramFacts
  <2> QED
    BY <2>1 DEF Init
<1>6. TablesOK
  BY <1>2, <1>4, <1>5 DEF Init, TablesOK
<1>7. SaidOK
  <2>1. <<>> \in Texts
    BY DEF Texts
  <2> QED
    BY <2>1 DEF Init, SaidOK
<1>8. StatsOK
  BY DEF Init, StatsOK
<1> QED
  BY <1>1, <1>6, <1>7, <1>8 DEF TypeInv

WalkType == [words : Seq(Words), first : Words \cup {Null, AnyWord}, second : SUBSET Words]

\* A step of a walk adds a word, or the first two, and ends it at a NULL.
LEMMA WalkGoesOn ==
  ASSUME NEW walk \in WalkType, Len(walk.words) < SafetyCounter,
         pairs \subseteq Symbols \X Symbols \X Symbols, NEW t \in Candidates(pairs, walk), NEW simplified \in BOOLEAN
  PROVE  /\ t[2] \in Words
         /\ Extended(walk, t) \in Seq(Words)
         /\ t[3] # Null => /\ t[3] \in Words
                           /\ Following(walk, t, simplified) \in WalkType
                           /\ Len(Following(walk, t, simplified).words) <= SafetyCounter
<1> DEFINE begun == IF walk.words = <<>> THEN <<t[2]>> ELSE walk.words
<1>1. t \in pairs /\ t[2] \in walk.second
  BY DEF Candidates
<1>2. t[2] \in Words
  BY <1>1 DEF WalkType
<1>3. t[3] \in Symbols
  BY <1>1
<1>4. begun \in Seq(Words) /\ Len(begun) + 1 <= SafetyCounter
  <2>1. CASE walk.words = <<>>
    <3>1. begun = <<t[2]>>
      BY <2>1
    <3>2. <<t[2]>> \in Seq(Words) /\ Len(<<t[2]>>) = 1
      BY <1>2
    <3>3. 1 + 1 <= SafetyCounter
      BY MarkovAssumption
    <3> HIDE DEF begun
    <3> QED
      BY <3>1, <3>2, <3>3
  <2>2. CASE walk.words # <<>>
    <3>1. walk.words \in Seq(Words) /\ Len(walk.words) \in Nat
      BY DEF WalkType
    <3> QED
      BY <2>2, <3>1, MarkovAssumption
  <2> QED
    BY <2>1, <2>2
<1>5. Extended(walk, t) = IF t[3] = Null THEN begun ELSE Append(begun, t[3])
  BY DEF Extended
<1> HIDE DEF begun
<1>6. ASSUME t[3] # Null
      PROVE  t[3] \in Words
  BY <1>3, <1>6 DEF Symbols
<1>7. Extended(walk, t) \in Seq(Words)
  <2>1. CASE t[3] = Null
    BY <1>4, <1>5, <2>1
  <2>2. CASE t[3] # Null
    BY <1>4, <1>5, <1>6, <2>2, AppendFacts
  <2> QED
    BY <2>1, <2>2
<1>8. ASSUME t[3] # Null
      PROVE  /\ Following(walk, t, simplified) \in WalkType
             /\ Len(Following(walk, t, simplified).words) <= SafetyCounter
  <2>1. Following(walk, t, simplified).words = Extended(walk, t)
    BY DEF Following
  <2>2. Following(walk, t, simplified) \in WalkType
    BY <1>2, <1>6, <1>7, <1>8 DEF Following, WalkType
  <2>3. Len(Extended(walk, t)) = Len(begun) + 1
    BY <1>4, <1>5, <1>6, <1>8, AppendFacts
  <2> QED
    BY <1>4, <2>1, <2>2, <2>3
<1> QED
  BY <1>2, <1>6, <1>7, <1>8

\* The capital letter makes a word of a word.
LEMMA SentenceType ==
  ASSUME NEW words \in Seq(Words)
  PROVE  Sentence(words) \in Seq(Words)
<1>1. Capital \in [Words -> Words]
  BY TalkAssumption
<1>2. ASSUME NEW i \in 1 .. Len(words)
      PROVE  (IF i = 1 THEN Capital[words[1]] ELSE words[i]) \in Words
  <2>1. words[i] \in Words /\ words[1] \in Words
    BY Len(words) \in Nat
  <2> QED
    BY <1>1, <2>1
<1>3. DOMAIN words = 1 .. Len(words) /\ Len(words) \in Nat
  OBVIOUS
<1> QED
  BY <1>2, <1>3 DEF Sentence

LEMMA HandlersKept ==
  TypeInv /\ [Next]_vars => HandlersOK'
<1> SUFFICES ASSUME TypeInv, [Next]_vars
             PROVE  HandlersOK'
  OBVIOUS
<1>1. /\ HandlersOK /\ TablesOK /\ SaidOK /\ StatsOK /\ TypeOK
  BY TypeInvImplies DEF TypeInv
<1>2. \A u \in Updates : handler[u] \in Handler /\ Sound(handler[u]) /\ Fits(handler[u])
  BY <1>1 DEF HandlersOK, Sound
<1>s. StartAt({}) \in WalkType /\ \A seeds \in SUBSET Words : StartAt(seeds) \in WalkType /\ Len(StartAt(seeds).words) <= SafetyCounter
  BY MarkovAssumption DEF StartAt, WalkType
<1>3. ASSUME handler' = handler
      PROVE  HandlersOK'
  BY <1>1, <1>3 DEF HandlersOK
<1>4. ASSUME NEW u \in Updates, Receive(u) \/ Register(u) \/ Send(u) \/ ReadFails(u) \/ Respond(u)
      PROVE  HandlersOK'
  <2> DEFINE h == handler[u]
  <2>1. PICK at \in {"ensure", "decide", "persist", "ask", "read", "seed"} :
             /\ To(u, at)
             /\ Fits([h EXCEPT !.at = at])
    <3>1. h \in Handler /\ Fits(h)
      BY <1>2
    <3>2. CASE Receive(u)
      BY <3>1, <3>2 DEF Receive, Fits, Handler
    <3>3. CASE Register(u)
      BY <3>1, <3>3 DEF Register, Fits, Handler
    <3>4. CASE Send(u)
      BY <3>1, <3>4 DEF Send, Fits, Handler
    <3>5. CASE ReadFails(u)
      BY <3>1, <3>5 DEF ReadFails, Fits, Handler
    <3>6. CASE Respond(u)
      <4>1. ContextSizes # <<>> => 1 \in DOMAIN ContextSizes
        BY TalkAssumption
      <4>2. h.provider = 1 /\ h.at = "decide"
        BY <3>1, <3>6 DEF Respond, Fits
      <4>3. CASE h.mode = "neural" /\ ContextSizes # <<>>
        <5>1. To(u, "read")
          BY <3>6, <4>3 DEF Respond
        <5>2. Fits([h EXCEPT !.at = "read"])
          BY <3>1, <4>1, <4>2, <4>3 DEF Fits, Handler
        <5> QED
          BY <5>1, <5>2
      <4>4. CASE ~(h.mode = "neural" /\ ContextSizes # <<>>)
        <5>1. To(u, "seed")
          BY <3>6, <4>4 DEF Respond
        <5>2. Fits([h EXCEPT !.at = "seed"])
          BY <3>1 DEF Fits, Handler
        <5> QED
          BY <5>1, <5>2
      <4> QED
        BY <4>3, <4>4
    <3> QED
      BY <1>4, <3>2, <3>3, <3>4, <3>5, <3>6
  <2>2. Sound([h EXCEPT !.at = at])
    BY <1>2, <2>1, SoundAt DEF Generating
  <2>3. Goes(u, [h EXCEPT !.at = at])
    BY <2>1 DEF To
  <2> QED
    BY <1>1, <2>2, <2>3, GoesOn
<1>5. ASSUME NEW u \in Updates,
             EnsureFails(u) \/ Ignore(u) \/ GenerateFails(u) \/ SendFails(u) \/ Persist(u) \/ PersistFails(u)
      PROVE  HandlersOK'
  <2>1. Done(u)
    BY <1>5 DEF EnsureFails, Ignore, GenerateFails, SendFails, Persist, PersistFails
  <2> QED
    BY <1>1, <2>1, GetsDone
<1>6. ASSUME NEW u \in Updates, EnsureEntities(u)
      PROVE  HandlersOK'
  <2>1. PICK s \in Settings :
          Goes(u, [handler[u] EXCEPT !.at = "register", !.mode = s.mode, !.enabled = s.enabled,
                                     !.since = IF s.summarized THEN Len(history) ELSE 0])
    BY <1>6 DEF EnsureEntities
  <2> DEFINE h == handler[u]
             g == [h EXCEPT !.at = "register", !.mode = s.mode, !.enabled = s.enabled,
                            !.since = IF s.summarized THEN Len(history) ELSE 0]
  <2>2. s.mode \in {"classic", "simplified", "neural"} /\ s.enabled \in BOOLEAN
    BY TalkAssumption
  <2>3. (IF s.summarized THEN Len(history) ELSE 0) \in Nat
    BY <1>1 DEF TablesOK
  <2>4. h \in Handler /\ Sound(h) /\ h.at = "ensure"
    BY <1>2, <1>6 DEF EnsureEntities
  <2>5. g \in Handler /\ g.walk = h.walk /\ g.provider = h.provider /\ g.at = "register"
    BY <2>2, <2>3, <2>4 DEF Handler
  <2>6. Sound(g)
    <3> HIDE DEF g, h
    <3> QED
      BY <2>4, <2>5 DEF Sound, Fits
  <2> QED
    BY <1>1, <2>1, <2>6, GoesOn
<1>7. ASSUME NEW u \in Updates, Roll(u)
      PROVE  HandlersOK'
  <2> DEFINE h == handler[u]
             g == [h EXCEPT !.at = "send", !.reply = Answer]
  <2>1. h \in Handler /\ Sound(h) /\ Goes(u, g)
    BY <1>2, <1>7 DEF Roll
  <2>2. g \in Handler /\ g.walk = h.walk /\ g.at = "send"
    BY <2>1, TalkAssumption DEF Handler
  <2>3. Sound(g)
    <3> HIDE DEF g, h
    <3> QED
      BY <2>1, <2>2 DEF Sound, Fits
  <2> QED
    BY <1>1, <2>1, <2>3, GoesOn
<1>8. ASSUME NEW u \in Updates, ModelAnswers(u)
      PROVE  HandlersOK'
  <2> DEFINE h == handler[u]
             g == [h EXCEPT !.at = "send", !.rows = <<>>, !.reply = Answer]
  <2>1. h \in Handler /\ Sound(h) /\ Goes(u, g)
    BY <1>2, <1>8 DEF ModelAnswers
  <2>2. g \in Handler /\ g.walk = h.walk /\ g.at = "send"
    <3>1. Answer \in Seq(Words) /\ <<>> \in Seq(Row)
      BY TalkAssumption
    <3> HIDE DEF Row
    <3> QED
      BY <2>1, <3>1 DEF Handler
  <2>3. Sound(g)
    <3> HIDE DEF g, h
    <3> QED
      BY <2>1, <2>2 DEF Sound, Fits
  <2> QED
    BY <1>1, <2>1, <2>3, GoesOn
<1>9. ASSUME NEW u \in Updates, ReadRows(u) \/ ReadLatest(u)
      PROVE  HandlersOK'
  <2> DEFINE h == handler[u]
  <2>1. h \in Handler /\ Sound(h) /\ h.at \in {"read", "latest"}
    BY <1>2, <1>9 DEF ReadRows, ReadLatest
  <2>2. PICK rows \in Seq(Row), at \in {"latest", "ask"} : Goes(u, [h EXCEPT !.at = at, !.rows = rows])
    <3>1. NewestFirst(h.since) \in Seq(Row)
      <4>1. h.since \in Nat /\ history \in Seq(Row)
        BY <1>1, <2>1 DEF Handler, TablesOK
      <4> QED
        BY <4>1, NewestFirstType
    <3>2. CASE ReadRows(u)
      <4>1. Fitting(NewestFirst(h.since)) \in Seq(Row)
        BY <3>1, FittingType
      <4>2. CASE Fitting(NewestFirst(h.since)) = <<>>
        <5>1. Goes(u, [h EXCEPT !.at = "latest", !.rows = Fitting(NewestFirst(h.since))])
          BY <3>2, <4>2 DEF ReadRows
        <5> QED
          BY <4>1, <5>1
      <4>3. CASE Fitting(NewestFirst(h.since)) # <<>>
        <5>1. Goes(u, [h EXCEPT !.at = "ask", !.rows = Fitting(NewestFirst(h.since))])
          BY <3>2, <4>3 DEF ReadRows
        <5> QED
          BY <4>1, <5>1
      <4> QED
        BY <4>2, <4>3
    <3>3. CASE ReadLatest(u)
      <4>1. Latest(NewestFirst(h.since)) \in Seq(Row)
        BY <3>1, ReadRowsType
      <4>2. Goes(u, [h EXCEPT !.at = "ask", !.rows = Latest(NewestFirst(h.since))])
        BY <3>3 DEF ReadLatest
      <4> QED
        BY <4>1, <4>2
    <3> QED
      BY <1>9, <3>2, <3>3
  <2> DEFINE g == [h EXCEPT !.at = at, !.rows = rows]
  <2>3. g \in Handler /\ g.walk = h.walk /\ g.at = at /\ g.provider = h.provider
    <3> HIDE DEF Row
    <3> QED
      BY <2>1 DEF Handler
  <2>4. Sound(g)
    <3> HIDE DEF g, h
    <3> QED
      BY <2>1, <2>3 DEF Sound, Fits
  <2> QED
    BY <1>1, <2>2, <2>4, GoesOn
<1>10. ASSUME NEW u \in Updates, ModelFails(u)
       PROVE  HandlersOK'
  <2> DEFINE h == handler[u]
             next == [h EXCEPT !.provider = @ + 1]
             seed == [h EXCEPT !.at = "seed", !.rows = <<>>]
  <2>1. h \in Handler /\ Sound(h) /\ h.at = "ask" /\ h.provider \in DOMAIN ContextSizes
    BY <1>2, <1>10 DEF ModelFails, Fits
  <2>2. CASE h.provider < Len(ContextSizes)
    <3>1. h.provider + 1 \in DOMAIN ContextSizes /\ h.provider + 1 \in Nat \ {0}
      BY <2>1, <2>2, TalkAssumption
    <3>2. next \in Handler /\ next.walk = h.walk /\ next.at = "ask" /\ next.provider = h.provider + 1
      BY <2>1, <3>1 DEF Handler
    <3>3. Sound(next)
      <4> HIDE DEF next, h
      <4> QED
        BY <2>1, <3>1, <3>2 DEF Sound, Fits
    <3>4. Goes(u, next)
      BY <1>10, <2>2 DEF ModelFails
    <3> QED
      BY <1>1, <3>3, <3>4, GoesOn
  <2>3. CASE ~(h.provider < Len(ContextSizes))
    <3>1. seed \in Handler /\ seed.walk = h.walk /\ seed.at = "seed"
      <4>1. <<>> \in Seq(Row)
        OBVIOUS
      <4> HIDE DEF Row
      <4> QED
        BY <2>1, <4>1 DEF Handler, Generating
    <3>2. Sound(seed)
      <4> HIDE DEF seed, h
      <4> QED
        BY <2>1, <3>1 DEF Sound, Fits
    <3>3. Goes(u, seed)
      BY <1>10, <2>3 DEF ModelFails
    <3> QED
      BY <1>1, <3>2, <3>3, GoesOn
  <2> QED
    BY <2>2, <2>3
<1>11. ASSUME NEW u \in Updates, Seed(u)
       PROVE  HandlersOK'
  <2> DEFINE h == handler[u]
             words == IF h.at = "seed" THEN ToSet(Spoken(u)) ELSE ContextWords
             at == IF h.at = "seed" THEN "walk" ELSE "walk on"
             g == [h EXCEPT !.at = at, !.walk = StartAt(words \cap known)]
  <2>1. h \in Handler /\ Sound(h) /\ Goes(u, g)
    BY <1>2, <1>11 DEF Seed
  <2>2. words \cap known \subseteq Words
    BY <1>1 DEF TablesOK
  <2>3. StartAt(words \cap known) \in WalkType /\ Len(StartAt(words \cap known).words) <= SafetyCounter
    <3> HIDE DEF words
    <3> QED
      BY <1>s, <2>2
  <2>4. at \in Generating /\ at \in {"walk", "walk on"}
    BY DEF Generating
  <2> HIDE DEF words, at
  <2>5. g \in Handler /\ g.walk = StartAt(words \cap known) /\ g.at = at
    BY <2>1, <2>3, <2>4 DEF Handler, WalkType
  <2>6. Sound(g)
    <3> HIDE DEF g, h
    <3> QED
      BY <2>3, <2>4, <2>5 DEF Sound, Fits
  <2> QED
    BY <1>1, <2>1, <2>6, GoesOn
<1>12. ASSUME NEW u \in Updates, Step(u)
       PROVE  HandlersOK'
  <2> DEFINE h == handler[u]
  <2>1. h \in Handler /\ Sound(h) /\ h.at \in {"walk", "walk on"} /\ h.walk \in WalkType
    BY <1>2, <1>12 DEF Step, Handler, WalkType
  <2>2. PICK t \in Candidates(pairs, h.walk) :
          Goes(u, IF t[3] = Null
                  THEN [h EXCEPT !.at = "send", !.walk = StartAt({}), !.reply = Sentence(Extended(h.walk, t))]
                  ELSE [h EXCEPT !.walk = Following(@, t, h.mode = "simplified")])
    BY <1>12 DEF Step
  <2>3. Len(h.walk.words) < SafetyCounter
    <3>1. ~(Len(h.walk.words) >= SafetyCounter)
      BY <1>12 DEF Step, Stuck
    <3>2. h.walk.words \in Seq(Words)
      BY <2>1 DEF WalkType
    <3>3. Len(h.walk.words) \in Nat /\ SafetyCounter \in Nat
      BY <3>2, MarkovAssumption
    <3> HIDE DEF h
    <3> QED
      BY <3>1, <3>3
  <2>4. pairs \subseteq Symbols \X Symbols \X Symbols /\ (h.mode = "simplified") \in BOOLEAN
    BY <1>1 DEF TablesOK
  <2>5. /\ Extended(h.walk, t) \in Seq(Words)
        /\ t[3] # Null => /\ Following(h.walk, t, h.mode = "simplified") \in WalkType
                          /\ Len(Following(h.walk, t, h.mode = "simplified").words) <= SafetyCounter
    BY <2>1, <2>3, <2>4, WalkGoesOn
  <2>6. CASE t[3] = Null
    <3> DEFINE g == [h EXCEPT !.at = "send", !.walk = StartAt({}), !.reply = Sentence(Extended(h.walk, t))]
    <3>0. Sentence(Extended(h.walk, t)) \in Seq(Words)
      BY <2>5, SentenceType
    <3>1. g \in Handler /\ g.walk = StartAt({}) /\ g.at = "send"
      BY <1>s, <2>1, <3>0 DEF Handler, WalkType
    <3>2. Len(StartAt({}).words) <= SafetyCounter
      BY <1>s
    <3>3. Sound(g)
      <4> HIDE DEF g, h
      <4> QED
        BY <3>1, <3>2 DEF Sound, Fits
    <3> QED
      BY <1>1, <2>2, <2>6, <3>3, GoesOn
  <2>7. CASE t[3] # Null
    <3> DEFINE next == Following(h.walk, t, h.mode = "simplified")
               g == [h EXCEPT !.walk = next]
    <3>1. next \in WalkType /\ Len(next.words) <= SafetyCounter /\ Goes(u, g)
      BY <2>2, <2>5, <2>7
    <3> HIDE DEF next
    <3>2. g \in Handler /\ g.walk = next /\ g.at = h.at
      BY <2>1, <3>1 DEF Handler, WalkType
    <3>3. Sound(g)
      <4> HIDE DEF g, h
      <4> QED
        BY <2>1, <3>1, <3>2 DEF Sound, Fits
    <3> QED
      BY <1>1, <3>1, <3>3, GoesOn
  <2> QED
    BY <2>6, <2>7
<1>13. ASSUME NEW u \in Updates, EndWalk(u)
       PROVE  HandlersOK'
  <2> DEFINE h == handler[u]
             g == [h EXCEPT !.at = "send", !.walk = StartAt({}), !.reply = Sentence(h.walk.words)]
  <2>1. h \in Handler /\ Sound(h)
    BY <1>2
  <2>2. CASE Goes(u, g)
    <3>0. Sentence(h.walk.words) \in Seq(Words)
      BY <2>1, SentenceType DEF Handler
    <3>1. g \in Handler /\ g.walk = StartAt({}) /\ g.at = "send"
      BY <1>s, <2>1, <3>0 DEF Handler, WalkType
    <3>2. Len(StartAt({}).words) <= SafetyCounter
      BY <1>s
    <3>3. Sound(g)
      <4> HIDE DEF g, h
      <4> QED
        BY <3>1, <3>2 DEF Sound, Fits
    <3> QED
      BY <1>1, <2>2, <3>3, GoesOn
  <2>3. CASE To(u, "context")
    <3>1. Fits([h EXCEPT !.at = "context"])
      BY <2>1 DEF Fits, Handler
    <3>2. Sound([h EXCEPT !.at = "context"])
      BY <2>1, <3>1, SoundAt DEF Generating
    <3> QED
      BY <1>1, <2>3, <3>2, GoesOn DEF To
  <2>4. CASE Done(u)
    BY <1>1, <2>4, GetsDone
  <2> QED
    BY <1>13, <2>2, <2>3, <2>4 DEF EndWalk
<1>14. ASSUME NEW u \in Updates, CollectStats(u)
       PROVE  HandlersOK'
  BY <1>3, <1>14 DEF CollectStats, Acquire, EnsureIDs, LearnTrigrams, AppendMessage, Score, StatementFails
<1>15. CASE Stop
  BY <1>3, <1>15 DEF Stop, Interrupt, CronStopped, StatsDone, StatsTimeOut, Close
<1>16. CASE UNCHANGED vars
  BY <1>3, <1>16 DEF vars
<1>17. ASSUME NEW u \in Updates, Handle(u)
       PROVE  HandlersOK'
  BY <1>4, <1>5, <1>6, <1>7, <1>8, <1>9, <1>10, <1>11, <1>12, <1>13, <1>17 DEF Handle, Reply
<1> QED
  BY <1>14, <1>15, <1>16, <1>17 DEF Next

LEMMA OutboundType ==
  ASSUME NEW words \in Seq(Words)
  PROVE  Outbound(words) \in Seq(Words)
<1>1. Escaped \in [Words -> Words]
  BY TalkAssumption
<1>2. \A i \in 1 .. Len(words) : Escaped[words[i]] \in Words
  BY <1>1
<1>3. DOMAIN words = 1 .. Len(words) /\ Len(words) \in Nat
  OBVIOUS
<1> QED
  BY <1>2, <1>3 DEF Outbound

LEMMA AppendRow ==
  ASSUME history \in Seq(Row), NEW row \in Row, history' = Append(history, row)
  PROVE  history' \in Seq(Row)
<1> HIDE DEF Row
<1> QED
  OBVIOUS

LEMMA TablesKept ==
  TypeInv /\ [Next]_vars => TablesOK'
<1> SUFFICES ASSUME TypeInv, [Next]_vars
             PROVE  TablesOK'
  OBVIOUS
<1>1. HandlersOK /\ TablesOK /\ SaidOK /\ StatsOK /\ TypeOK
  BY TypeInvImplies DEF TypeInv
<1>2. history \in Seq(Row) /\ known \subseteq Words /\ pairs \subseteq Symbols \X Symbols \X Symbols
  BY <1>1 DEF TablesOK
<1>3. \A u \in Updates : Spoken(u) \in Seq(Words)
  BY <1>1, WordsType
<1>4. ASSUME UNCHANGED tables
      PROVE  TablesOK'
  BY <1>1, <1>4 DEF tables, TablesOK
<1>5. ASSUME NEW u \in Updates, EnsureIDs(u)
      PROVE  TablesOK'
  <2>1. ToSet(Spoken(u)) \subseteq Words
    BY <1>3 DEF ToSet
  <2>2. history' = history /\ pairs' = pairs /\ known' = known \cup ToSet(Spoken(u))
    BY <1>5 DEF EnsureIDs
  <2> QED
    BY <1>2, <2>1, <2>2 DEF TablesOK
<1>6. ASSUME NEW u \in Updates, LearnTrigrams(u)
      PROVE  TablesOK'
  <2>1. Trigrams(Spoken(u)) \subseteq Symbols \X Symbols \X Symbols
    BY <1>3, TrigramFacts
  <2>2. history' = history /\ pairs' = pairs \cup Trigrams(Spoken(u)) /\ known' = known
    BY <1>6 DEF LearnTrigrams
  <2> QED
    BY <1>2, <2>1, <2>2 DEF TablesOK
<1>7. ASSUME NEW u \in Updates, AppendMessage(u)
      PROVE  TablesOK'
  <2> DEFINE row == [user |-> said[u].user, text |-> said[u].text, update |-> u]
  <2>1. row \in Row
    BY <1>1, TalkAssumption DEF SaidOK, Row, Texts
  <2>2. history' = Append(history, row) /\ pairs' = pairs /\ known' = known
    BY <1>7 DEF AppendMessage
  <2>3. history' \in Seq(Row)
    BY <1>2, <2>1, <2>2, AppendRow
  <2> QED
    BY <1>2, <2>2, <2>3 DEF TablesOK
<1>8. ASSUME NEW u \in Updates, Persist(u)
      PROVE  TablesOK'
  <2> DEFINE row == [user |-> BotID, text |-> Outbound(handler[u].reply), update |-> NoUpdate]
  <2>1. Outbound(handler[u].reply) \in Seq(Words)
    BY <1>1, OutboundType DEF HandlersOK, Handler
  <2>2. Outbound(handler[u].reply) \in Seq(Words \cup {Break})
    BY <2>1
  <2>3. row \in Row
    BY <2>2, TalkAssumption DEF Row
  <2>4. history' = Append(history, row) /\ pairs' = pairs /\ known' = known
    BY <1>8 DEF Persist
  <2>5. history' \in Seq(Row)
    BY <1>2, <2>3, <2>4, AppendRow
  <2> QED
    BY <1>2, <2>4, <2>5 DEF TablesOK
<1>9. ASSUME NEW u \in Updates, Handle(u), ~Persist(u)
      PROVE  TablesOK'
  BY <1>4, <1>9 DEF Handle, Receive, EnsureEntities, EnsureFails, Register, Ignore, Roll, Respond,
     Reply, ReadRows, ReadLatest, ReadFails, ModelAnswers, ModelFails, Seed, Step, EndWalk,
     GenerateFails, Send, SendFails, PersistFails
<1>10. ASSUME NEW u \in Updates, CollectStats(u)
       PROVE  TablesOK'
  BY <1>4, <1>5, <1>6, <1>7, <1>10 DEF CollectStats, Acquire, Score, StatementFails
<1>11. CASE Stop
  BY <1>4, <1>11 DEF Stop, Interrupt, CronStopped, StatsDone, StatsTimeOut, Close
<1>12. CASE UNCHANGED vars
  BY <1>4, <1>12 DEF vars, tables
<1> QED
  BY <1>8, <1>9, <1>10, <1>11, <1>12 DEF Next

LEMMA SaidKept ==
  TypeInv /\ [Next]_vars => SaidOK'
<1> SUFFICES ASSUME TypeInv, [Next]_vars
             PROVE  SaidOK'
  OBVIOUS
<1>1. SaidOK
  BY DEF TypeInv
<1>2. ASSUME UNCHANGED said
      PROVE  SaidOK'
  BY <1>1, <1>2 DEF SaidOK
<1>3. ASSUME NEW u \in Updates, Receive(u)
      PROVE  SaidOK'
  <2>1. PICK m \in Utterances : said' = [said EXCEPT ![u] = m]
    BY <1>3 DEF Receive
  <2>2. m \in [user : Users \cup {BotID}, text : Texts]
    BY TalkAssumption DEF Texts
  <2> QED
    BY <1>1, <2>1, <2>2 DEF SaidOK
<1>4. ASSUME NEW u \in Updates, Handle(u), ~Receive(u)
      PROVE  SaidOK'
  BY <1>2, <1>4 DEF Handle, EnsureEntities, EnsureFails, Register, Ignore, Roll, Respond,
     Reply, ReadRows, ReadLatest, ReadFails, ModelAnswers, ModelFails, Seed, Step, EndWalk,
     GenerateFails, Send, SendFails, Persist, PersistFails
<1>5. ASSUME NEW u \in Updates, CollectStats(u)
      PROVE  SaidOK'
  BY <1>2, <1>5 DEF CollectStats, Acquire, EnsureIDs, LearnTrigrams, AppendMessage, Score, StatementFails
<1>6. CASE Stop
  BY <1>2, <1>6 DEF Stop, Interrupt, CronStopped, StatsDone, StatsTimeOut, Close
<1>7. CASE UNCHANGED vars
  BY <1>2, <1>7 DEF vars
<1> QED
  BY <1>3, <1>4, <1>5, <1>6, <1>7 DEF Next

LEMMA StatsKept ==
  TypeInv /\ [Next]_vars => StatsOK'
<1> SUFFICES ASSUME TypeInv, [Next]_vars
             PROVE  StatsOK'
  OBVIOUS
<1>1. StatsOK
  BY DEF TypeInv
<1>2. ASSUME UNCHANGED <<stats, main, ghosts>>
      PROVE  StatsOK'
  BY <1>1, <1>2 DEF StatsOK, ghosts
<1>3. ASSUME NEW u \in Updates, Register(u)
      PROVE  StatsOK'
  BY <1>1, <1>3 DEF Register, StatsOK
<1>4. ASSUME NEW u \in Updates, Handle(u), ~Register(u)
      PROVE  StatsOK'
  BY <1>2, <1>4 DEF Handle, Receive, EnsureEntities, EnsureFails, Ignore, Roll, Respond,
     Reply, ReadRows, ReadLatest, ReadFails, ModelAnswers, ModelFails, Seed, Step, EndWalk,
     GenerateFails, Send, SendFails, Persist, PersistFails
<1>5. ASSUME NEW u \in Updates, CollectStats(u)
      PROVE  StatsOK'
  <2>1. PICK stage \in {"words", "pairs", "append", "score", "done"} : stats' = [stats EXCEPT ![u] = stage]
    <3>1. CASE ~StatementFails(u)
      BY <1>5, <3>1 DEF CollectStats, Acquire, EnsureIDs, LearnTrigrams, AppendMessage, Score, Stage
    <3>2. CASE StatementFails(u)
      <4>1. stats[u] \in {"words", "pairs", "append", "score"}
        BY <3>2 DEF StatementFails, Writing
      <4> QED
        BY <3>2, <4>1 DEF StatementFails, Stage
    <3> QED
      BY <3>1, <3>2
  <2>2. main' = main /\ timedOut' = timedOut /\ late' = late /\ failed' \subseteq failed \cup {u}
    BY <1>5 DEF CollectStats, Acquire, EnsureIDs, LearnTrigrams, AppendMessage, Score, StatementFails, ghosts
  <2> QED
    BY <1>1, <2>1, <2>2 DEF StatsOK
<1>6. CASE Stop
  BY <1>1, <1>6 DEF Stop, Interrupt, CronStopped, StatsDone, StatsTimeOut, Close, StatsOK, ghosts
<1>7. CASE UNCHANGED vars
  BY <1>2, <1>7 DEF vars
<1> QED
  BY <1>3, <1>4, <1>5, <1>6, <1>7 DEF Next

\* Whoever speaks, learns and is answered at once, the rows, goroutines and walks
\* keep their shape, a walk stays within its bound, and who is asked for a reply is
\* a provider of the chain; with what the proof of that needs.
THEOREM TypesHold ==
  Spec => []TypeInv
<1>1. Init => TypeInv
  BY TypeStart
<1>2. TypeInv /\ [Next]_vars => TypeInv'
  BY HandlersKept, TablesKept, SaidKept, StatsKept DEF TypeInv
<1> QED
  BY <1>1, <1>2, PTL DEF Spec

\* The same, as the run checks it.
THEOREM TypeCorrect ==
  Spec => []TypeOK
BY TypesHold, TypeInvImplies, PTL

-----------------------------------------------------------------------------
(* What every step keeps *)

\* The message of a goroutine is what it was started with.
LEMMA SaidStays ==
  ASSUME TypeInv, [Next]_vars, NEW v \in Updates, handler[v].at # "new"
  PROVE  said'[v] = said[v]
<1>1. said \in [Updates -> [user : Users \cup {BotID}, text : Texts]]
  BY DEF TypeInv, SaidOK
<1>2. ASSUME NEW u \in Updates, Receive(u)
      PROVE  said'[v] = said[v]
  <2>1. PICK m \in Utterances : said' = [said EXCEPT ![u] = m]
    BY <1>2 DEF Receive
  <2>2. u # v
    BY <1>2 DEF Receive
  <2> QED
    BY <1>1, <2>1, <2>2
<1>3. ASSUME NEW u \in Updates, Handle(u), ~Receive(u)
      PROVE  said' = said
  BY <1>3 DEF Handle, EnsureEntities, EnsureFails, Register, Ignore, Roll, Respond,
     Reply, ReadRows, ReadLatest, ReadFails, ModelAnswers, ModelFails, Seed, Step, EndWalk,
     GenerateFails, Send, SendFails, Persist, PersistFails
<1>4. ASSUME NEW u \in Updates, CollectStats(u)
      PROVE  said' = said
  BY <1>4 DEF CollectStats, Acquire, EnsureIDs, LearnTrigrams, AppendMessage, Score, StatementFails
<1>5. CASE Stop
  BY <1>5 DEF Stop, Interrupt, CronStopped, StatsDone, StatsTimeOut, Close
<1>6. CASE UNCHANGED vars
  BY <1>6 DEF vars
<1> QED
  BY <1>2, <1>3, <1>4, <1>5, <1>6 DEF Next

\* Rows are only added to the history, and trigrams to the pairs.
LEMMA TablesGrow ==
  ASSUME TypeInv, [Next]_vars
  PROVE  /\ \A i \in DOMAIN history : i \in DOMAIN history' /\ history'[i] = history[i]
         /\ pairs \subseteq pairs'
<1>1. history \in Seq(Row)
  BY DEF TypeInv, TablesOK
<1>2. ASSUME NEW row, history' = Append(history, row), NEW i \in DOMAIN history
      PROVE  i \in DOMAIN history' /\ history'[i] = history[i]
  <2> HIDE DEF Row
  <2> QED
    BY <1>1, <1>2
<1>3. ASSUME NEW u \in Updates, Handle(u), ~Persist(u)
      PROVE  history' = history /\ pairs' = pairs
  BY <1>3 DEF Handle, Receive, EnsureEntities, EnsureFails, Register, Ignore, Roll, Respond,
     Reply, ReadRows, ReadLatest, ReadFails, ModelAnswers, ModelFails, Seed, Step, EndWalk,
     GenerateFails, Send, SendFails, PersistFails, tables
<1>4. ASSUME NEW u \in Updates, Persist(u)
      PROVE  /\ \A i \in DOMAIN history : i \in DOMAIN history' /\ history'[i] = history[i]
             /\ pairs' = pairs
  BY <1>2, <1>4 DEF Persist
<1>5. ASSUME NEW u \in Updates, AppendMessage(u)
      PROVE  /\ \A i \in DOMAIN history : i \in DOMAIN history' /\ history'[i] = history[i]
             /\ pairs' = pairs
  BY <1>2, <1>5 DEF AppendMessage
<1>6. ASSUME NEW u \in Updates, CollectStats(u), ~AppendMessage(u)
      PROVE  history' = history /\ pairs \subseteq pairs'
  BY <1>6 DEF CollectStats, Acquire, EnsureIDs, LearnTrigrams, Score, StatementFails, tables
<1>7. CASE Stop
  BY <1>7 DEF Stop, Interrupt, CronStopped, StatsDone, StatsTimeOut, Close, tables
<1>8. CASE UNCHANGED vars
  BY <1>8 DEF vars, tables
<1> QED
  BY <1>3, <1>4, <1>5, <1>6, <1>7, <1>8 DEF Next

\* Whether the chat is enabled is settled before the message is registered.
LEMMA EnabledStays ==
  ASSUME TypeInv, [Next]_vars, NEW v \in Updates, handler[v].at \notin {"new", "ensure", "register"}
  PROVE  /\ handler'[v].at \notin {"new", "ensure", "register"}
         /\ handler'[v].enabled = handler[v].enabled
<1> DEFINE P == /\ handler'[v].at \notin {"new", "ensure", "register"}
                /\ handler'[v].enabled = handler[v].enabled
<1>1. handler \in [Updates -> Handler] /\ handler[v] \in Handler
  BY DEF TypeInv, HandlersOK
<1>2. ASSUME NEW u \in Updates, NEW h, Goes(u, h),
             u = v => h.at \notin {"new", "ensure", "register"} /\ h.enabled = handler[v].enabled
      PROVE  P
  BY <1>1, <1>2 DEF Goes
<1>3. ASSUME NEW u \in Updates, Done(u)
      PROVE  P
  <2> DEFINE h == [New EXCEPT !.at = "done", !.enabled = handler[u].enabled]
  <2>1. h.at = "done" /\ h.enabled = handler[u].enabled /\ Goes(u, h)
    BY <1>3 DEF New, Done
  <2> HIDE DEF h
  <2> QED
    BY <1>2, <2>1
<1>4. ASSUME NEW u \in Updates, NEW at, To(u, at), u = v => at \notin {"new", "ensure", "register"}
      PROVE  P
  <2> DEFINE h == [handler[u] EXCEPT !.at = at]
  <2>1. u = v => h.at = at /\ h.enabled = handler[v].enabled
    BY <1>1 DEF Handler
  <2>2. Goes(u, h)
    BY <1>4 DEF To
  <2> HIDE DEF h
  <2> QED
    BY <1>2, <1>4, <2>1, <2>2
<1>5. ASSUME handler' = handler
      PROVE  P
  BY <1>5
<1>6. ASSUME NEW u \in Updates, Receive(u) \/ EnsureEntities(u) \/ Register(u)
      PROVE  P
  <2>1. u # v
    BY <1>6 DEF Receive, EnsureEntities, Register
  <2>2. PICK h : Goes(u, h)
    BY <1>6 DEF Receive, EnsureEntities, Register, To
  <2> QED
    BY <1>2, <2>1, <2>2
<1>7. ASSUME NEW u \in Updates,
             EnsureFails(u) \/ Ignore(u) \/ GenerateFails(u) \/ SendFails(u) \/ Persist(u) \/ PersistFails(u)
      PROVE  P
  BY <1>3, <1>7 DEF EnsureFails, Ignore, GenerateFails, SendFails, Persist, PersistFails
<1>8. ASSUME NEW u \in Updates, Respond(u) \/ ReadFails(u) \/ Send(u)
      PROVE  P
  <2>1. PICK at \in {"read", "seed", "ask", "persist"} : To(u, at)
    <3>1. CASE Respond(u)
      BY <3>1 DEF Respond
    <3>2. CASE ReadFails(u) \/ Send(u)
      BY <3>2 DEF ReadFails, Send
    <3> QED
      BY <1>8, <3>1, <3>2
  <2> QED
    BY <1>4, <2>1
<1>9. ASSUME NEW u \in Updates, Roll(u) \/ ModelAnswers(u)
      PROVE  P
  <2> DEFINE g == [handler[u] EXCEPT !.at = "send", !.reply = Answer]
             h == [handler[u] EXCEPT !.at = "send", !.rows = <<>>, !.reply = Answer]
  <2>1. Goes(u, g) \/ Goes(u, h)
    BY <1>9 DEF Roll, ModelAnswers
  <2>2. u = v => /\ g.at = "send" /\ g.enabled = handler[v].enabled
                 /\ h.at = "send" /\ h.enabled = handler[v].enabled
    BY <1>1 DEF Handler
  <2> HIDE DEF g, h
  <2> QED
    BY <1>2, <2>1, <2>2
<1>10. ASSUME NEW u \in Updates, ReadRows(u) \/ ReadLatest(u)
       PROVE  P
  <2> DEFINE rows == Fitting(NewestFirst(handler[u].since))
             latest == Latest(NewestFirst(handler[u].since))
             g == [handler[u] EXCEPT !.at = IF rows = <<>> THEN "latest" ELSE "ask", !.rows = rows]
             h == [handler[u] EXCEPT !.at = "ask", !.rows = latest]
  <2>1. Goes(u, g) \/ Goes(u, h)
    BY <1>10 DEF ReadRows, ReadLatest
  <2> HIDE DEF rows, latest
  <2>2. u = v => /\ g.at \in {"latest", "ask"} /\ g.enabled = handler[v].enabled
                 /\ h.at = "ask" /\ h.enabled = handler[v].enabled
    BY <1>1 DEF Handler
  <2> HIDE DEF g, h
  <2> QED
    BY <1>2, <2>1, <2>2
<1>11. ASSUME NEW u \in Updates, ModelFails(u)
       PROVE  P
  <2> DEFINE g == [handler[u] EXCEPT !.provider = @ + 1]
             h == [handler[u] EXCEPT !.at = "seed", !.rows = <<>>]
  <2>1. Goes(u, g) \/ Goes(u, h)
    BY <1>11 DEF ModelFails
  <2>2. u = v => /\ g.at = handler[v].at /\ g.enabled = handler[v].enabled
                 /\ h.at = "seed" /\ h.enabled = handler[v].enabled
    BY <1>1 DEF Handler
  <2> HIDE DEF g, h
  <2> QED
    BY <1>2, <2>1, <2>2
<1>12. ASSUME NEW u \in Updates, Seed(u)
       PROVE  P
  <2> DEFINE words == IF handler[u].at = "seed" THEN ToSet(Spoken(u)) ELSE ContextWords
             walk == StartAt(words \cap known)
             h == [handler[u] EXCEPT !.at = IF @ = "seed" THEN "walk" ELSE "walk on", !.walk = walk]
  <2>1. Goes(u, h)
    BY <1>12 DEF Seed
  <2> HIDE DEF walk
  <2>2. u = v => h.at \in {"walk", "walk on"} /\ h.enabled = handler[v].enabled
    BY <1>1 DEF Handler
  <2> HIDE DEF h
  <2> QED
    BY <1>2, <2>1, <2>2
<1>13. ASSUME NEW u \in Updates, Step(u)
       PROVE  P
  <2>1. PICK t : Goes(u, IF t[3] = Null
                  THEN [handler[u] EXCEPT !.at = "send", !.walk = StartAt({}),
                                          !.reply = Sentence(Extended(handler[u].walk, t))]
                  ELSE [handler[u] EXCEPT !.walk = Following(@, t, handler[u].mode = "simplified")])
    BY <1>13 DEF Step
  <2> DEFINE g == [handler[u] EXCEPT !.at = "send", !.walk = StartAt({}), !.reply = Sentence(Extended(handler[u].walk, t))]
             h == [handler[u] EXCEPT !.walk = Following(@, t, handler[u].mode = "simplified")]
  <2>2. Goes(u, g) \/ Goes(u, h)
    BY <2>1
  <2>3. u = v => /\ g.at = "send" /\ g.enabled = handler[v].enabled
                 /\ h.at = handler[v].at /\ h.enabled = handler[v].enabled
    BY <1>1 DEF Handler
  <2> HIDE DEF g, h
  <2> QED
    BY <1>2, <2>2, <2>3
<1>14. ASSUME NEW u \in Updates, EndWalk(u)
       PROVE  P
  <2> DEFINE g == [handler[u] EXCEPT !.at = "send", !.walk = StartAt({}), !.reply = Sentence(handler[u].walk.words)]
  <2>1. Goes(u, g) \/ To(u, "context") \/ Done(u)
    BY <1>14 DEF EndWalk
  <2>2. u = v => g.at = "send" /\ g.enabled = handler[v].enabled
    BY <1>1 DEF Handler
  <2> HIDE DEF g
  <2> QED
    BY <1>2, <1>3, <1>4, <2>1, <2>2
<1>15. ASSUME NEW u \in Updates, CollectStats(u)
       PROVE  P
  BY <1>5, <1>15 DEF CollectStats, Acquire, EnsureIDs, LearnTrigrams, AppendMessage, Score, StatementFails
<1>16. CASE Stop
  BY <1>5, <1>16 DEF Stop, Interrupt, CronStopped, StatsDone, StatsTimeOut, Close
<1>17. CASE UNCHANGED vars
  BY <1>5, <1>17 DEF vars
<1>18. ASSUME NEW u \in Updates, Handle(u)
       PROVE  P
  BY <1>6, <1>7, <1>8, <1>9, <1>10, <1>11, <1>12, <1>13, <1>14, <1>18 DEF Handle, Reply
<1> QED
  BY <1>15, <1>16, <1>17, <1>18 DEF Next

-----------------------------------------------------------------------------
(* A stop loses nothing *)

\* A message is registered once the goroutine knows whether the chat is enabled.
Registration ==
  \A u \in Updates : stats[u] # "none" => handler[u].at \notin {"new", "ensure", "register"}

IsLearned(u) == Trigrams(Spoken(u)) \subseteq pairs

IsStored(u) == \E i \in DOMAIN history : history[i].update = u /\ history[i].text = said[u].text

\* What collectStats has behind it is in the tables, unless a statement failed.
WritesAreKept ==
  \A u \in Updates \ failed : handler[u].enabled =>
    /\ stats[u] \in {"append", "score", "done"} => IsLearned(u)
    /\ stats[u] \in {"score", "done"} => IsStored(u)

\* Nobody's writes are open when WaitCollectStats has returned, but of those who
\* came too late to be waited for.
LeavesNobody ==
  main \in {"leaving", "closed"} /\ ~timedOut => \A u \in Updates \ late : stats[u] \in {"none", "done"}

StopInv == Registration /\ WritesAreKept /\ LeavesNobody

\* Who moves a message's writes on.
LEMMA StatsMoves ==
  ASSUME TypeInv, [Next]_vars, NEW v \in Updates
  PROVE  /\ failed \subseteq failed' /\ late \subseteq late'
         /\ stats'[v] = stats[v] \/ Register(v) \/ CollectStats(v)
<1>1. stats \in [Updates -> {"none", "spawned", "words", "pairs", "append", "score", "done"}]
  BY DEF TypeInv, StatsOK
<1>2. ASSUME NEW u \in Updates, Handle(u), ~Register(u)
      PROVE  UNCHANGED <<stats, ghosts>>
  BY <1>2 DEF Handle, Receive, EnsureEntities, EnsureFails, Ignore, Roll, Respond,
     Reply, ReadRows, ReadLatest, ReadFails, ModelAnswers, ModelFails, Seed, Step, EndWalk,
     GenerateFails, Send, SendFails, Persist, PersistFails
<1>3. ASSUME NEW u \in Updates, Register(u)
      PROVE  /\ failed' = failed /\ late \subseteq late'
             /\ u # v => stats'[v] = stats[v]
  BY <1>1, <1>3 DEF Register
<1>4. ASSUME NEW u \in Updates, CollectStats(u)
      PROVE  /\ failed \subseteq failed' /\ late' = late
             /\ u # v => stats'[v] = stats[v]
  <2>1. PICK stage : Stage(u, stage)
    BY <1>4 DEF CollectStats, Acquire, EnsureIDs, LearnTrigrams, AppendMessage, Score, StatementFails
  <2>2. failed \subseteq failed' /\ late' = late
    BY <1>4 DEF CollectStats, Acquire, EnsureIDs, LearnTrigrams, AppendMessage, Score, StatementFails, ghosts
  <2> QED
    BY <1>1, <2>1, <2>2 DEF Stage
<1>5. CASE Stop
  BY <1>5 DEF Stop, Interrupt, CronStopped, StatsDone, StatsTimeOut, Close, ghosts
<1>6. CASE UNCHANGED vars
  BY <1>6 DEF vars, ghosts
<1> QED
  BY <1>2, <1>3, <1>4, <1>5, <1>6 DEF Next, ghosts

LEMMA StopStarts ==
  Init => StopInv
BY DEF Init, StopInv, Registration, WritesAreKept, LeavesNobody

LEMMA RegistrationStays ==
  ASSUME TypeInv, Registration, [Next]_vars
  PROVE  Registration'
<1>1. ASSUME NEW v \in Updates, stats'[v] # "none"
      PROVE  handler'[v].at \notin {"new", "ensure", "register"}
  <2>1. handler[v] \in Handler /\ handler \in [Updates -> Handler]
    BY DEF TypeInv, HandlersOK
  <2>2. CASE stats[v] # "none"
    BY <2>2, EnabledStays DEF Registration
  <2>3. CASE stats[v] = "none"
    <3>1. ~CollectStats(v)
      BY <2>3 DEF CollectStats, Acquire, EnsureIDs, LearnTrigrams, AppendMessage, Score, StatementFails, Writing
    <3>2. Register(v)
      BY <1>1, <2>3, <3>1, StatsMoves
    <3>3. handler'[v].at = "decide"
      BY <2>1, <3>2 DEF Register, To, Goes, Handler
    <3> QED
      BY <3>3
  <2> QED
    BY <2>2, <2>3
<1> QED
  BY <1>1 DEF Registration

LEMMA WritesStay ==
  ASSUME TypeInv, StopInv, [Next]_vars
  PROVE  WritesAreKept'
<1> DEFINE Kept1(v) == stats'[v] \in {"append", "score", "done"} => IsLearned(v)'
           Kept2(v) == stats'[v] \in {"score", "done"} => IsStored(v)'
<1>1. SUFFICES ASSUME NEW v \in Updates, v \notin failed', handler'[v].enabled
               PROVE  Kept1(v) /\ Kept2(v)
  BY DEF WritesAreKept
<1>2. v \notin failed
  BY <1>1, StatsMoves
<1>3. stats \in [Updates -> {"none", "spawned", "words", "pairs", "append", "score", "done"}]
  BY DEF TypeInv, StatsOK
<1>4. ASSUME stats[v] # "none"
      PROVE  /\ said'[v] = said[v] /\ handler[v].enabled
             /\ stats[v] \in {"append", "score", "done"} => IsLearned(v)'
             /\ stats[v] \in {"score", "done"} => IsStored(v)'
  <2>1. handler[v].at \notin {"new", "ensure", "register"}
    BY <1>4 DEF StopInv, Registration
  <2>2. said'[v] = said[v] /\ handler[v].enabled
    BY <1>1, <2>1, SaidStays, EnabledStays
  <2>3. /\ stats[v] \in {"append", "score", "done"} => IsLearned(v)
        /\ stats[v] \in {"score", "done"} => IsStored(v)
    BY <1>2, <2>2 DEF StopInv, WritesAreKept
  <2>4. IsLearned(v) => IsLearned(v)'
    BY <2>2, TablesGrow DEF IsLearned, Spoken
  <2>5. IsStored(v) => IsStored(v)'
    BY <2>2, TablesGrow DEF IsStored
  <2> QED
    BY <2>2, <2>3, <2>4, <2>5
<1>5. CASE stats'[v] = stats[v]
  BY <1>4, <1>5
<1>6. CASE Register(v)
  BY <1>3, <1>6 DEF Register
<1>7. CASE Acquire(v)
  <2>1. handler[v].enabled
    BY <1>1, <1>7 DEF Acquire
  <2> QED
    BY <1>3, <1>7, <2>1 DEF Acquire, Stage
<1>8. CASE EnsureIDs(v)
  BY <1>3, <1>8 DEF EnsureIDs, Stage
<1>9. CASE LearnTrigrams(v)
  <2>1. IsLearned(v)'
    BY <1>9 DEF LearnTrigrams, IsLearned, Spoken
  <2> QED
    BY <1>3, <1>9, <2>1 DEF LearnTrigrams, Stage
<1>10. CASE AppendMessage(v)
  <2>1. IsLearned(v)'
    BY <1>4, <1>10 DEF AppendMessage
  <2>2. IsStored(v)'
    <3>1. history \in Seq(Row) /\ said' = said
      BY <1>10 DEF TypeInv, TablesOK, AppendMessage
    <3> DEFINE row == [user |-> said[v].user, text |-> said[v].text, update |-> v]
    <3>2. history' = Append(history, row)
      BY <1>10 DEF AppendMessage
    <3>3. Len(history) + 1 \in DOMAIN history' /\ history'[Len(history) + 1] = row
      <4> HIDE DEF row, Row
      <4> QED
        BY <3>1, <3>2
    <3>4. row.update = v /\ row.text = said'[v].text
      BY <3>1
    <3> HIDE DEF row
    <3> QED
      BY <3>3, <3>4 DEF IsStored
  <2> QED
    BY <2>1, <2>2
<1>11. CASE Score(v)
  BY <1>3, <1>4, <1>11 DEF Score
<1>12. CASE StatementFails(v)
  BY <1>1, <1>12 DEF StatementFails
<1> QED
  BY <1>5, <1>6, <1>7, <1>8, <1>9, <1>10, <1>11, <1>12, StatsMoves DEF CollectStats

LEMMA NobodyStays ==
  ASSUME TypeInv, StopInv, [Next]_vars
  PROVE  LeavesNobody'
<1>1. SUFFICES ASSUME main' \in {"leaving", "closed"}, ~timedOut',
                      NEW v \in Updates, v \notin late'
               PROVE  stats'[v] \in {"none", "done"}
  BY DEF LeavesNobody
<1>2. v \notin late /\ (stats'[v] = stats[v] \/ Register(v) \/ CollectStats(v))
  BY <1>1, StatsMoves
<1>3. CASE main \in {"leaving", "closed"} /\ ~timedOut
  <2>1. stats[v] \in {"none", "done"}
    BY <1>2, <1>3 DEF StopInv, LeavesNobody
  <2>2. ~CollectStats(v)
    BY <2>1 DEF CollectStats, Acquire, EnsureIDs, LearnTrigrams, AppendMessage, Score, StatementFails, Writing
  <2>3. ~Register(v)
    BY <1>1, <1>3 DEF Register, Running
  <2> QED
    BY <1>2, <2>1, <2>2, <2>3
<1>4. CASE ~(main \in {"leaving", "closed"} /\ ~timedOut)
  <2>1. CASE Stop
    BY <1>1, <1>4, <2>1 DEF Stop, Interrupt, CronStopped, StatsDone, StatsTimeOut, Close, ghosts, Registered
  <2>2. CASE ~Stop
    <3>1. ASSUME NEW u \in Updates, Handle(u)
          PROVE  UNCHANGED <<main, timedOut>>
      BY <3>1 DEF Handle, Receive, EnsureEntities, EnsureFails, Register, Ignore, Roll, Respond,
         Reply, ReadRows, ReadLatest, ReadFails, ModelAnswers, ModelFails, Seed, Step, EndWalk,
         GenerateFails, Send, SendFails, Persist, PersistFails, ghosts
    <3>2. ASSUME NEW u \in Updates, CollectStats(u)
          PROVE  UNCHANGED <<main, timedOut>>
      BY <3>2 DEF CollectStats, Acquire, EnsureIDs, LearnTrigrams, AppendMessage, Score, StatementFails, ghosts
    <3>3. ASSUME UNCHANGED vars
          PROVE  UNCHANGED <<main, timedOut>>
      BY <3>3 DEF vars, ghosts
    <3>4. UNCHANGED <<main, timedOut>>
      <4>1. (\E u \in Updates : Handle(u) \/ CollectStats(u)) \/ UNCHANGED vars
        BY <2>2 DEF Next
      <4> QED
        BY <3>1, <3>2, <3>3, <4>1
    <3>5. main' = main /\ timedOut' = timedOut
      BY <3>4
    <3> QED
      BY <1>1, <1>4, <3>5, Zenon
  <2> QED
    BY <2>1, <2>2
<1> QED
  BY <1>3, <1>4

\* After a stop whose WaitCollectStats did not give up, every message that was
\* registered in time is in the history and learned, unless a statement of its
\* writes failed ("so learn/append/score writes are not lost", middleware.go).
THEOREM NothingIsLost ==
  Spec => []StopLosesNothing
<1>1. TypeInv /\ StopInv /\ [Next]_vars => StopInv'
  BY RegistrationStays, WritesStay, NobodyStays DEF StopInv
<1>2. StopInv => StopLosesNothing
  <2> SUFFICES ASSUME StopInv, main = "closed", ~timedOut,
                      NEW u \in Updates \ (late \cup failed), stats[u] # "none", handler[u].enabled
               PROVE  IsStored(u) /\ IsLearned(u)
    BY DEF StopLosesNothing, IsStored, IsLearned
  <2>1. stats[u] = "done"
    BY DEF StopInv, LeavesNobody
  <2> QED
    BY <2>1 DEF StopInv, WritesAreKept
<1> QED
  BY <1>1, <1>2, StopStarts, TypesHold, PTL DEF Spec

-----------------------------------------------------------------------------
(* Walks *)

\* Only who generates has begun a walk.
Idle == \A u \in Updates : handler[u].at \notin Generating => handler[u].walk.words = <<>>

GoesOnFrom(walk, simplified, next) ==
  \E t \in Candidates(pairs, walk) : t[3] # Null /\ next = Following(walk, t, simplified)

\* What may become of a goroutine g: its walk begins anew, stays, or takes a step.
Moves(g, h) ==
  /\ g.at # "new" => h.at # "new"
  /\ \/ h.walk.words = <<>>
     \/ /\ h.walk = g.walk /\ h.mode = g.mode
        /\ g.at \in Generating => h.at \in Generating
     \/ /\ GoesOnFrom(g.walk, g.mode = "simplified", h.walk) /\ h.mode = g.mode
        /\ h.at \in Generating

LEMMA WalkMoves ==
  ASSUME TypeInv, Idle, [Next]_vars, NEW v \in Updates
  PROVE  Moves(handler[v], handler'[v])
<1> DEFINE P == Moves(handler[v], handler'[v])
<1>1. handler \in [Updates -> Handler] /\ handler[v] \in Handler
  BY DEF TypeInv, HandlersOK
<1>2. ASSUME NEW u \in Updates, NEW h, Goes(u, h), u = v => Moves(handler[v], h)
      PROVE  P
  <2>1. CASE u = v
    <3>1. handler'[v] = h
      BY <1>1, <1>2, <2>1 DEF Goes
    <3> QED
      BY <1>2, <2>1, <3>1
  <2>2. CASE u # v
    <3>1. handler'[v] = handler[v]
      BY <1>1, <1>2, <2>2 DEF Goes
    <3> QED
      BY <3>1 DEF Moves
  <2> QED
    BY <2>1, <2>2
<1>s. StartAt({}).words = <<>>
  BY DEF StartAt
<1>3. ASSUME NEW u \in Updates, Done(u)
      PROVE  P
  <2> DEFINE h == [New EXCEPT !.at = "done", !.enabled = handler[u].enabled]
  <2>1. h.at = "done" /\ h.walk = StartAt({}) /\ Goes(u, h)
    BY <1>3 DEF New, Done
  <2> HIDE DEF h
  <2>2. Moves(handler[v], h)
    BY <1>s, <2>1 DEF Moves
  <2> QED
    BY <1>2, <2>1, <2>2
<1>4. ASSUME NEW u \in Updates, NEW at, To(u, at), at # "new",
             u = v => at \in Generating \/ handler[v].at \notin Generating
      PROVE  P
  <2> DEFINE h == [handler[u] EXCEPT !.at = at]
  <2>1. u = v => h.at = at /\ h.walk = handler[v].walk /\ h.mode = handler[v].mode
    BY <1>1 DEF Handler
  <2>2. Goes(u, h)
    BY <1>4 DEF To
  <2> HIDE DEF h
  <2>3. u = v => Moves(handler[v], h)
    BY <1>4, <2>1 DEF Moves
  <2> QED
    BY <1>2, <2>2, <2>3
<1>5. ASSUME handler' = handler
      PROVE  P
  BY <1>5 DEF Moves
<1>6. ASSUME NEW u \in Updates, EnsureEntities(u)
      PROVE  P
  <2>1. PICK s \in Settings :
          Goes(u, [handler[u] EXCEPT !.at = "register", !.mode = s.mode, !.enabled = s.enabled,
                                     !.since = IF s.summarized THEN Len(history) ELSE 0])
    BY <1>6 DEF EnsureEntities
  <2> DEFINE since == IF s.summarized THEN Len(history) ELSE 0
             h == [handler[u] EXCEPT !.at = "register", !.mode = s.mode, !.enabled = s.enabled, !.since = since]
  <2>2. Goes(u, h)
    BY <2>1
  <2> HIDE DEF since
  <2>3. u = v => h.at = "register" /\ h.walk = handler[v].walk
    BY <1>1 DEF Handler
  <2>4. u = v => handler[v].walk.words = <<>>
    BY <1>6 DEF EnsureEntities, Idle, Generating
  <2> HIDE DEF h
  <2>5. u = v => Moves(handler[v], h)
    BY <2>3, <2>4 DEF Moves
  <2> QED
    BY <1>2, <2>2, <2>5
<1>7. ASSUME NEW u \in Updates,
             EnsureFails(u) \/ Ignore(u) \/ GenerateFails(u) \/ SendFails(u) \/ Persist(u) \/ PersistFails(u)
      PROVE  P
  BY <1>3, <1>7 DEF EnsureFails, Ignore, GenerateFails, SendFails, Persist, PersistFails
<1>8. ASSUME NEW u \in Updates, Receive(u) \/ Register(u) \/ Respond(u) \/ ReadFails(u) \/ Send(u)
      PROVE  P
  <2>1. PICK at \in {"ensure", "decide", "read", "seed", "ask", "persist"} : To(u, at)
    <3>1. CASE Respond(u)
      BY <3>1 DEF Respond
    <3>2. CASE Receive(u) \/ Register(u) \/ ReadFails(u) \/ Send(u)
      BY <3>2 DEF Receive, Register, ReadFails, Send
    <3> QED
      BY <1>8, <3>1, <3>2
  <2>2. handler[u].at \notin Generating
    BY <1>8 DEF Receive, Register, Respond, ReadFails, Send, Generating
  <2> QED
    BY <1>4, <2>1, <2>2
<1>9. ASSUME NEW u \in Updates, Roll(u) \/ ModelAnswers(u)
      PROVE  P
  <2> DEFINE g == [handler[u] EXCEPT !.at = "send", !.reply = Answer]
             h == [handler[u] EXCEPT !.at = "send", !.rows = <<>>, !.reply = Answer]
  <2>1. (Goes(u, g) \/ Goes(u, h)) /\ handler[u].at \notin Generating
    BY <1>9 DEF Roll, ModelAnswers, Generating
  <2>2. u = v => /\ g.at = "send" /\ g.walk = handler[v].walk /\ g.mode = handler[v].mode
                 /\ h.at = "send" /\ h.walk = handler[v].walk /\ h.mode = handler[v].mode
    BY <1>1 DEF Handler
  <2> HIDE DEF g, h
  <2>3. u = v => Moves(handler[v], g) /\ Moves(handler[v], h)
    BY <2>1, <2>2 DEF Moves
  <2> QED
    BY <1>2, <2>1, <2>3
<1>10. ASSUME NEW u \in Updates, ReadRows(u) \/ ReadLatest(u)
       PROVE  P
  <2> DEFINE rows == Fitting(NewestFirst(handler[u].since))
             latest == Latest(NewestFirst(handler[u].since))
             g == [handler[u] EXCEPT !.at = IF rows = <<>> THEN "latest" ELSE "ask", !.rows = rows]
             h == [handler[u] EXCEPT !.at = "ask", !.rows = latest]
  <2>1. (Goes(u, g) \/ Goes(u, h)) /\ handler[u].at \notin Generating
    BY <1>10 DEF ReadRows, ReadLatest, Generating
  <2> HIDE DEF rows, latest
  <2>2. u = v => /\ g.at \in {"latest", "ask"} /\ g.walk = handler[v].walk /\ g.mode = handler[v].mode
                 /\ h.at = "ask" /\ h.walk = handler[v].walk /\ h.mode = handler[v].mode
    BY <1>1 DEF Handler
  <2> HIDE DEF g, h
  <2>3. u = v => Moves(handler[v], g) /\ Moves(handler[v], h)
    BY <2>1, <2>2 DEF Moves
  <2> QED
    BY <1>2, <2>1, <2>3
<1>11. ASSUME NEW u \in Updates, ModelFails(u)
       PROVE  P
  <2> DEFINE g == [handler[u] EXCEPT !.provider = @ + 1]
             h == [handler[u] EXCEPT !.at = "seed", !.rows = <<>>]
  <2>1. (Goes(u, g) \/ Goes(u, h)) /\ handler[u].at \notin Generating
    BY <1>11 DEF ModelFails, Generating
  <2>2. u = v => /\ g.at = handler[v].at /\ g.walk = handler[v].walk /\ g.mode = handler[v].mode
                 /\ h.at = "seed" /\ h.walk = handler[v].walk /\ h.mode = handler[v].mode
    BY <1>1 DEF Handler
  <2> HIDE DEF g, h
  <2>3. u = v => Moves(handler[v], g) /\ Moves(handler[v], h)
    BY <2>1, <2>2 DEF Moves
  <2> QED
    BY <1>2, <2>1, <2>3
<1>12. ASSUME NEW u \in Updates, Seed(u)
       PROVE  P
  <2> DEFINE words == IF handler[u].at = "seed" THEN ToSet(Spoken(u)) ELSE ContextWords
             walk == StartAt(words \cap known)
             h == [handler[u] EXCEPT !.at = IF @ = "seed" THEN "walk" ELSE "walk on", !.walk = walk]
  <2>1. Goes(u, h) /\ walk.words = <<>>
    BY <1>12 DEF Seed, StartAt
  <2> HIDE DEF walk
  <2>2. u = v => h.at \in {"walk", "walk on"} /\ h.walk = walk
    BY <1>1 DEF Handler
  <2> HIDE DEF h
  <2>3. u = v => Moves(handler[v], h)
    BY <2>1, <2>2 DEF Moves
  <2> QED
    BY <1>2, <2>1, <2>3
<1>13. ASSUME NEW u \in Updates, Step(u)
       PROVE  P
  <2>1. PICK t \in Candidates(pairs, handler[u].walk) :
           Goes(u, IF t[3] = Null
                   THEN [handler[u] EXCEPT !.at = "send", !.walk = StartAt({}),
                                           !.reply = Sentence(Extended(handler[u].walk, t))]
                   ELSE [handler[u] EXCEPT !.walk = Following(@, t, handler[u].mode = "simplified")])
    BY <1>13 DEF Step
  <2> DEFINE next == Following(handler[u].walk, t, handler[u].mode = "simplified")
             g == [handler[u] EXCEPT !.at = "send", !.walk = StartAt({}), !.reply = Sentence(Extended(handler[u].walk, t))]
             h == [handler[u] EXCEPT !.walk = next]
  <2>2. /\ t[3] = Null => Goes(u, g)
        /\ t[3] # Null => Goes(u, h)
    BY <2>1
  <2>3. u = v /\ t[3] # Null => GoesOnFrom(handler[v].walk, handler[v].mode = "simplified", next)
    BY DEF GoesOnFrom
  <2>4. handler[u].at \in Generating /\ handler[u].at # "new"
    BY <1>13 DEF Step, Generating
  <2> HIDE DEF next
  <2>5. u = v => /\ g.at = "send" /\ g.walk = StartAt({})
                 /\ h.at = handler[v].at /\ h.walk = next /\ h.mode = handler[v].mode
    BY <1>1 DEF Handler
  <2> HIDE DEF g, h
  <2>6. u = v => /\ Moves(handler[v], g)
                 /\ t[3] # Null => Moves(handler[v], h)
    BY <1>s, <2>3, <2>4, <2>5 DEF Moves
  <2> QED
    BY <1>2, <2>2, <2>6
<1>14. ASSUME NEW u \in Updates, EndWalk(u)
       PROVE  P
  <2> DEFINE g == [handler[u] EXCEPT !.at = "send", !.walk = StartAt({}), !.reply = Sentence(handler[u].walk.words)]
  <2>1. Goes(u, g) \/ To(u, "context") \/ Done(u)
    BY <1>14 DEF EndWalk
  <2>2. u = v => g.at = "send" /\ g.walk = StartAt({})
    BY <1>1 DEF Handler
  <2> HIDE DEF g
  <2>3. u = v => Moves(handler[v], g)
    BY <1>s, <2>2 DEF Moves
  <2>4. "context" \in Generating /\ "context" # "new"
    BY DEF Generating
  <2> QED
    BY <1>2, <1>3, <1>4, <2>1, <2>3, <2>4
<1>15. ASSUME NEW u \in Updates, CollectStats(u)
       PROVE  P
  BY <1>5, <1>15 DEF CollectStats, Acquire, EnsureIDs, LearnTrigrams, AppendMessage, Score, StatementFails
<1>16. CASE Stop
  BY <1>5, <1>16 DEF Stop, Interrupt, CronStopped, StatsDone, StatsTimeOut, Close
<1>17. CASE UNCHANGED vars
  BY <1>5, <1>17 DEF vars
<1>18. ASSUME NEW u \in Updates, Handle(u)
       PROVE  P
  BY <1>6, <1>7, <1>8, <1>9, <1>10, <1>11, <1>12, <1>13, <1>14, <1>18 DEF Handle, Reply
<1> QED
  BY <1>15, <1>16, <1>17, <1>18 DEF Next

LEMMA IdleStays ==
  ASSUME TypeInv, Idle, [Next]_vars
  PROVE  Idle'
<1>1. ASSUME NEW v \in Updates, handler'[v].at \notin Generating
      PROVE  handler'[v].walk.words = <<>>
  <2>1. Moves(handler[v], handler'[v])
    BY WalkMoves
  <2>2. handler[v].at \notin Generating => handler[v].walk.words = <<>>
    BY DEF Idle
  <2> QED
    BY <1>1, <2>1, <2>2 DEF Moves
<1> QED
  BY <1>1 DEF Idle, Generating

\* The texts that may have been learned from by now.
Lessons ==
  {Fields(Past[i].text) : i \in DOMAIN Past}
    \cup {Spoken(u) : u \in {v \in Updates : handler[v].at # "new"}}

\* No pair comes from anywhere else, whoever learns at the same time.
PairsAreTaught == \A t \in pairs : \E text \in Lessons : t \in Trigrams(text)

Taken(lessons, piece) == \E text \in lessons : piece \in SubSeqs(text)

\* A walk stands at the end of its words, none of which ends a sentence but the
\* last, and neighbours in it were neighbours in a lesson.
WalkIsTaught(lessons, walk, simplified) ==
  LET words == walk.words
      L == Len(words)
  IN  words # <<>> =>
        /\ L >= 2
        /\ walk.second = {words[L]}
        /\ ~simplified => walk.first = words[L - 1]
        /\ \A i \in 1 .. L - 1 : words[i] \notin Enders
        /\ \A i \in 1 .. L - 1 : Taken(lessons, <<words[i], words[i + 1]>>)
        /\ ~simplified => \A i \in 1 .. L - 2 : Taken(lessons, <<words[i], words[i + 1], words[i + 2]>>)

WalksAreTaught == \A u \in Updates : WalkIsTaught(Lessons, handler[u].walk, handler[u].mode = "simplified")

WalkInv == Registration /\ Idle /\ PairsAreTaught /\ WalksAreTaught

LEMMA LessonsType ==
  ASSUME TypeInv
  PROVE  Lessons \subseteq Seq(Words) /\ Lessons \subseteq Taught
<1>1. \A u \in Updates : Spoken(u) \in Seq(Words)
  BY TypeInvImplies, WordsType
<1>2. ASSUME NEW i \in DOMAIN Past
      PROVE  Fields(Past[i].text) \in Seq(Words)
  <2> DEFINE T == [user : Users \cup Bots, text : Seq(Words \cup {Break}), update : {NoUpdate}]
  <2>1. Past \in Seq(T)
    BY TalkAssumption
  <2>2. Past[i] \in T
    <3> HIDE DEF T
    <3> QED
      BY <2>1
  <2>3. Past[i].text \in Texts
    BY <2>2 DEF Texts
  <2> QED
    BY <2>3, FieldsType
<1> QED
  BY <1>1, <1>2 DEF Lessons, Taught

LEMMA LessonsGrow ==
  ASSUME TypeInv, Idle, [Next]_vars
  PROVE  Lessons \subseteq Lessons'
<1>1. ASSUME NEW v \in Updates, handler[v].at # "new"
      PROVE  handler'[v].at # "new" /\ Spoken(v)' = Spoken(v)
  <2>1. said'[v] = said[v]
    BY <1>1, SaidStays
  <2>2. handler'[v].at # "new"
    BY <1>1, WalkMoves DEF Moves
  <2> QED
    BY <2>1, <2>2 DEF Spoken
<1>2. ASSUME NEW text \in Lessons
      PROVE  text \in Lessons'
  <2>1. CASE text \in {Fields(Past[i].text) : i \in DOMAIN Past}
    BY <2>1 DEF Lessons
  <2>2. CASE text \notin {Fields(Past[i].text) : i \in DOMAIN Past}
    <3>1. PICK v \in Updates : handler[v].at # "new" /\ text = Spoken(v)
      BY <1>2, <2>2 DEF Lessons
    <3>2. handler'[v].at # "new" /\ text = Spoken(v)'
      BY <1>1, <3>1
    <3> QED
      BY <3>2 DEF Lessons
  <2> QED
    BY <2>1, <2>2
<1> QED
  BY <1>2

LEMMA PairsStayTaught ==
  ASSUME TypeInv, Registration, Idle, PairsAreTaught, [Next]_vars
  PROVE  PairsAreTaught'
<1>1. ASSUME NEW t \in pairs'
      PROVE  \E text \in Lessons' : t \in Trigrams(text)
  <2>1. CASE t \in pairs
    BY <2>1, LessonsGrow DEF PairsAreTaught
  <2>2. CASE t \notin pairs
    <3>1. PICK u \in Updates : LearnTrigrams(u)
      <4>1. \A u \in Updates : Handle(u) => pairs' = pairs
        BY DEF Handle, Receive, EnsureEntities, EnsureFails, Register, Ignore, Roll, Respond,
           Reply, ReadRows, ReadLatest, ReadFails, ModelAnswers, ModelFails, Seed, Step, EndWalk,
           GenerateFails, Send, SendFails, Persist, PersistFails, tables
      <4>2. \A u \in Updates : CollectStats(u) => pairs' = pairs \/ LearnTrigrams(u)
        BY DEF CollectStats, Acquire, EnsureIDs, AppendMessage, Score, StatementFails, tables
      <4>3. Stop => pairs' = pairs
        BY DEF Stop, Interrupt, CronStopped, StatsDone, StatsTimeOut, Close, tables
      <4>4. UNCHANGED vars => pairs' = pairs
        BY DEF vars, tables
      <4> QED
        BY <1>1, <2>2, <4>1, <4>2, <4>3, <4>4 DEF Next
    <3>2. t \in Trigrams(Spoken(u))
      BY <1>1, <2>2, <3>1 DEF LearnTrigrams
    <3>3. handler[u].at # "new"
      BY <3>1 DEF Registration, LearnTrigrams
    <3>4. Spoken(u) \in Lessons
      BY <3>3 DEF Lessons
    <3> QED
      BY <3>2, <3>4, LessonsGrow
  <2> QED
    BY <2>1, <2>2
<1> QED
  BY <1>1 DEF PairsAreTaught

LEMMA MoreLessons ==
  ASSUME NEW few, NEW many, few \subseteq many, NEW walk, NEW simplified,
         WalkIsTaught(few, walk, simplified)
  PROVE  WalkIsTaught(many, walk, simplified)
<1>1. \A piece : Taken(few, piece) => Taken(many, piece)
  BY DEF Taken
<1> QED
  BY <1>1 DEF WalkIsTaught

\* A step keeps a walk within what was taught.
LEMMA StepIsTaught ==
  ASSUME TypeInv, PairsAreTaught, NEW walk \in WalkType, NEW simplified \in BOOLEAN,
         NEW next, WalkIsTaught(Lessons, walk, simplified), GoesOnFrom(walk, simplified, next)
  PROVE  WalkIsTaught(Lessons, next, simplified)
<1>1. PICK t \in Candidates(pairs, walk) : t[3] # Null /\ next = Following(walk, t, simplified)
  BY DEF GoesOnFrom
<1>2. t \in pairs /\ t[2] \in walk.second /\ walk.first \in {AnyWord, t[1]}
  BY DEF Candidates
<1>3. PICK text \in Lessons : t \in Trigrams(text)
  BY <1>2 DEF PairsAreTaught
<1>4. text \in Seq(Words)
  BY LessonsType
<1>5. /\ t \in Symbols \X Symbols \X Symbols
      /\ t[2] \in Enders => t[3] = Null
      /\ t[2] \in Words /\ t[3] \in Words => <<t[2], t[3]>> \in SubSeqs(text)
      /\ t[1] \in Words /\ t[2] \in Words /\ t[3] \in Words => <<t[1], t[2], t[3]>> \in SubSeqs(text)
  BY <1>3, <1>4, TrigramFacts
<1>6. t[2] \in Words /\ t[3] \in Words /\ t[2] \notin Enders
  BY <1>1, <1>2, <1>5 DEF WalkType, Symbols
<1>7. Taken(Lessons, <<t[2], t[3]>>) /\ (t[1] \in Words => Taken(Lessons, <<t[1], t[2], t[3]>>))
  BY <1>5, <1>6 DEF Taken
<1>8. /\ next.words = Extended(walk, t) /\ next.second = {t[3]}
      /\ ~simplified => next.first = t[2]
  BY <1>1 DEF Following
<1> DEFINE words == walk.words
           L == Len(words)
<1>9. words \in Seq(Words) /\ L \in Nat
  BY DEF WalkType
<1>10. CASE words = <<>>
  <2>1. next.words = <<t[2], t[3]>>
    <3>1. next.words = Append(<<t[2]>>, t[3])
      BY <1>1, <1>8, <1>10 DEF Extended
    <3>2. ASSUME NEW a \in Words, NEW b \in Words
          PROVE  Append(<<a>>, b) = <<a, b>>
      <4>1. \A q \in Seq(Words) : Len(q) = 2 => q = <<q[1], q[2]>>
        OBVIOUS
      <4>2. <<a>> \in Seq(Words) /\ Len(<<a>>) = 1 /\ <<a>>[1] = a
        OBVIOUS
      <4> DEFINE q == Append(<<a>>, b)
      <4>3. q \in Seq(Words) /\ Len(q) = 1 + 1 /\ q[1 + 1] = b /\ q[1] = a
        BY <4>2, AppendFacts
      <4> HIDE DEF q
      <4>4. q = <<q[1], q[2]>>
        BY <4>1, <4>3
      <4> QED
        BY <4>3, <4>4 DEF q
    <3> QED
      BY <1>6, <3>1, <3>2
  <2>2. Len(<<t[2], t[3]>>) = 2 /\ <<t[2], t[3]>>[1] = t[2] /\ <<t[2], t[3]>>[2] = t[3]
    OBVIOUS
  <2>3. \A i \in 1 .. 1 : i = 1
    OBVIOUS
  <2> QED
    BY <1>6, <1>7, <1>8, <2>1, <2>2, <2>3 DEF WalkIsTaught
<1>11. CASE words # <<>>
  <2> DEFINE new == Append(words, t[3])
  <2>1. next.words = new
    BY <1>1, <1>8, <1>11 DEF Extended
  <2>2. new \in Seq(Words) /\ Len(new) = L + 1 /\ new[L + 1] = t[3] /\ \A i \in 1 .. L : new[i] = words[i]
    BY <1>6, <1>9, AppendFacts
  <2>3. /\ L >= 2 /\ walk.second = {words[L]}
        /\ ~simplified => walk.first = words[L - 1]
        /\ \A i \in 1 .. L - 1 : words[i] \notin Enders
        /\ \A i \in 1 .. L - 1 : Taken(Lessons, <<words[i], words[i + 1]>>)
        /\ ~simplified => \A i \in 1 .. L - 2 : Taken(Lessons, <<words[i], words[i + 1], words[i + 2]>>)
    BY <1>11 DEF WalkIsTaught
  <2>4. words[L] = t[2] /\ L \in 1 .. L /\ L - 1 \in 1 .. L
    BY <1>2, <1>9, <2>3
  <2>5. ASSUME ~simplified
        PROVE  words[L - 1] = t[1] /\ t[1] \in Words
    <3>1. walk.first = words[L - 1] /\ words[L - 1] \in Words
      BY <1>9, <2>3, <2>4, <2>5
    <3> QED
      BY <1>2, <3>1, TalkAssumption
  <2> HIDE DEF new, words, L
  <2>6. ASSUME NEW i \in 1 .. L
        PROVE  new[i] \notin Enders /\ Taken(Lessons, <<new[i], new[i + 1]>>)
    <3>1. CASE i = L
      BY <1>6, <1>7, <2>2, <2>4, <3>1
    <3>2. CASE i # L
      <4>1. i \in 1 .. L - 1 /\ i \in 1 .. L /\ i + 1 \in 1 .. L
        BY <1>9, <3>2
      <4>2. new[i] = words[i] /\ new[i + 1] = words[i + 1]
        BY <2>2, <4>1
      <4> QED
        BY <2>3, <4>1, <4>2
    <3> QED
      BY <3>1, <3>2
  <2>7. ASSUME ~simplified, NEW i \in 1 .. L - 1
        PROVE  Taken(Lessons, <<new[i], new[i + 1], new[i + 2]>>)
    <3>1. CASE i = L - 1
      <4>1. i + 1 = L /\ i + 2 = L + 1 /\ i \in 1 .. L /\ L \in 1 .. L
        BY <1>9, <2>4, <3>1
      <4>2. new[i] = t[1] /\ new[i + 1] = t[2] /\ new[i + 2] = t[3]
        BY <2>2, <2>4, <2>5, <2>7, <3>1, <4>1
      <4> QED
        BY <1>7, <2>5, <2>7, <4>2
    <3>2. CASE i # L - 1
      <4>1. i \in 1 .. L - 2 /\ i \in 1 .. L /\ i + 1 \in 1 .. L /\ i + 2 \in 1 .. L
        BY <1>9, <3>2
      <4>2. new[i] = words[i] /\ new[i + 1] = words[i + 1] /\ new[i + 2] = words[i + 2]
        BY <2>2, <4>1
      <4> QED
        BY <2>3, <2>7, <4>1, <4>2
    <3> QED
      BY <3>1, <3>2
  <2>8. L + 1 >= 2 /\ (L + 1) - 1 = L /\ (L + 1) - 2 = L - 1
    BY <1>9, <2>3
  <2>9. ~simplified => next.first = new[L]
    BY <1>8, <2>2, <2>4
  <2>10. next.second = {new[L + 1]}
    BY <1>8, <2>2
  <2> QED
    BY <2>1, <2>2, <2>6, <2>7, <2>8, <2>9, <2>10 DEF WalkIsTaught
<1> QED
  BY <1>10, <1>11

LEMMA WalksStayTaught ==
  ASSUME TypeInv, WalkInv, [Next]_vars
  PROVE  WalksAreTaught'
<1>1. ASSUME NEW v \in Updates
      PROVE  WalkIsTaught(Lessons', handler'[v].walk, handler'[v].mode = "simplified")
  <2> DEFINE g == handler[v]
             h == handler'[v]
  <2>1. Lessons \subseteq Lessons' /\ Moves(g, h) /\ WalkIsTaught(Lessons, g.walk, g.mode = "simplified")
    BY LessonsGrow, WalkMoves DEF WalkInv, WalksAreTaught
  <2>2. g.walk \in WalkType /\ (g.mode = "simplified") \in BOOLEAN
    BY DEF TypeInv, HandlersOK, Handler, WalkType
  <2> HIDE DEF g, h
  <2>3. ASSUME h.walk.words = <<>>
        PROVE  WalkIsTaught(Lessons', h.walk, h.mode = "simplified")
    BY <2>3 DEF WalkIsTaught
  <2>4. ASSUME h.walk = g.walk /\ h.mode = g.mode
        PROVE  WalkIsTaught(Lessons', h.walk, h.mode = "simplified")
    <3>1. WalkIsTaught(Lessons', g.walk, g.mode = "simplified")
      BY <2>1, MoreLessons
    <3> QED
      BY <2>4, <3>1
  <2>5. ASSUME GoesOnFrom(g.walk, g.mode = "simplified", h.walk) /\ h.mode = g.mode
        PROVE  WalkIsTaught(Lessons', h.walk, h.mode = "simplified")
    <3>1. WalkIsTaught(Lessons, h.walk, g.mode = "simplified")
      BY <2>1, <2>2, <2>5, StepIsTaught DEF WalkInv
    <3>2. WalkIsTaught(Lessons', h.walk, g.mode = "simplified")
      BY <2>1, <3>1, MoreLessons
    <3> QED
      BY <2>5, <3>2
  <2>6. WalkIsTaught(Lessons', h.walk, h.mode = "simplified")
    BY <2>1, <2>3, <2>4, <2>5 DEF Moves
  <2> QED
    BY <2>6 DEF h
<1> QED
  BY <1>1 DEF WalksAreTaught

LEMMA WalkStarts ==
  Init => WalkInv
<1> SUFFICES ASSUME Init
             PROVE  WalkInv
  OBVIOUS
<1>1. \A u \in Updates : handler[u].walk.words = <<>>
  BY DEF Init, New, StartAt
<1>2. PairsAreTaught
  BY DEF Init, PairsAreTaught, Lessons
<1>3. Registration
  BY DEF Init, Registration
<1> QED
  BY <1>1, <1>2, <1>3 DEF WalkInv, Idle, WalksAreTaught, WalkIsTaught

\* Walks and pairs hold nothing but what was learned, and a walk stands at the end
\* of its words, however learning and walking interleave (Learn, buildSentence).
THEOREM WalksAreSound ==
  Spec => [](TypeInv /\ WalkInv)
<1>1. TypeInv /\ WalkInv /\ [Next]_vars => WalkInv'
  BY RegistrationStays, IdleStays, PairsStayTaught, WalksStayTaught DEF WalkInv
<1> QED
  BY <1>1, WalkStarts, TypesHold, PTL DEF Spec

\* No reply goes on past the end of a sentence, whoever learns what meanwhile:
\* whatever texts were learned, in any order, there is a NULL after every word
\* that ends one (Learn), and a walk stops there (buildSentence).
THEOREM RepliesAreOneSentence ==
  Spec => []ReplyIsOneSentence
<1>1. TypeInv /\ WalkInv => ReplyIsOneSentence
  <2> SUFFICES ASSUME TypeInv, WalkInv, NEW u \in Updates, NEW i \in DOMAIN handler[u].walk.words,
                      handler[u].walk.words[i] \in Enders
               PROVE  i = Len(handler[u].walk.words)
    BY DEF ReplyIsOneSentence
  <2> DEFINE words == handler[u].walk.words
  <2>1. words \in Seq(Words)
    BY DEF TypeInv, HandlersOK, Handler
  <2>2. \A j \in 1 .. Len(words) - 1 : words[j] \notin Enders
    BY DEF WalkInv, WalksAreTaught, WalkIsTaught
  <2> HIDE DEF words
  <2>3. i \in 1 .. Len(words) /\ words[i] \in Enders /\ Len(words) \in Nat
    BY <2>1 DEF words
  <2>4. i = Len(words)
    BY <2>2, <2>3
  <2> QED
    BY <2>4 DEF words
<1> QED
  BY <1>1, WalksAreSound, PTL

\* Neighbours in a reply, two by two in the simplified mode and three by three in
\* the others, were neighbours in a message somebody wrote, whatever was learned
\* between the steps of the walk (buildSentence, FetchPair).
THEOREM WalksFollowSpeech ==
  Spec => []WalkFollowsSpeech
<1>1. TypeInv /\ WalkInv => WalkFollowsSpeech
  <2> SUFFICES ASSUME TypeInv, WalkInv, NEW u \in Updates
               PROVE  LET words == handler[u].walk.words
                          span == IF handler[u].mode = "simplified" THEN 2 ELSE 3
                      IN  \A k \in 2 .. span : \A i \in 1 .. Len(words) - k + 1 :
                              \E text \in Taught : SubSeq(words, i, i + k - 1) \in SubSeqs(text)
    BY DEF WalkFollowsSpeech
  <2> DEFINE words == handler[u].walk.words
             simplified == handler[u].mode = "simplified"
  <2>1. words \in Seq(Words) /\ Len(words) \in Nat
    BY DEF TypeInv, HandlersOK, Handler
  <2>2. WalkIsTaught(Lessons, handler[u].walk, simplified)
    BY DEF WalkInv, WalksAreTaught
  <2>3. ASSUME words # <<>>
        PROVE  /\ \A i \in 1 .. Len(words) - 1 : Taken(Lessons, <<words[i], words[i + 1]>>)
               /\ ~simplified => \A i \in 1 .. Len(words) - 2 :
                                     Taken(Lessons, <<words[i], words[i + 1], words[i + 2]>>)
    BY <2>2, <2>3 DEF WalkIsTaught
  <2>4. \A piece : Taken(Lessons, piece) => \E text \in Taught : piece \in SubSeqs(text)
    BY LessonsType DEF Taken
  <2> HIDE DEF words, simplified
  <2>5. ASSUME NEW k \in 2 .. (IF simplified THEN 2 ELSE 3), NEW i \in 1 .. Len(words) - k + 1
        PROVE  Taken(Lessons, SubSeq(words, i, i + k - 1))
    <3>1. words # <<>> /\ i \in Nat /\ i > 0 /\ i + k - 1 <= Len(words)
      <4>1. k \in {2, 3}
        OBVIOUS
      <4>2. Len(words) > 0 /\ i \in Nat /\ i > 0 /\ i + k - 1 <= Len(words)
        BY <2>1, <4>1
      <4> QED
        BY <4>2
    <3>2. \A q \in Seq(Words) : /\ Len(q) = 2 => q = <<q[1], q[2]>>
                                /\ Len(q) = 3 => q = <<q[1], q[2], q[3]>>
      OBVIOUS
    <3> DEFINE q == SubSeq(words, i, i + k - 1)
    <3>3. q \in Seq(Words) /\ Len(q) = k /\ \A j \in 1 .. k : q[j] = words[i + j - 1]
      <4>1. k \in {2, 3}
        OBVIOUS
      <4> QED
        BY <2>1, <3>1, <4>1
    <3> HIDE DEF q
    <3>4. CASE k = 2
      <4>1. q = <<words[i], words[i + 1]>>
        BY <3>1, <3>2, <3>3, <3>4
      <4>2. i \in 1 .. Len(words) - 1
        BY <3>4
      <4> QED
        BY <2>3, <3>1, <4>1, <4>2 DEF q
    <3>5. CASE k = 3
      <4>1. q = <<words[i], words[i + 1], words[i + 2]>>
        BY <3>1, <3>2, <3>3, <3>5
      <4>2. i \in 1 .. Len(words) - 2 /\ ~simplified
        BY <2>1, <3>5
      <4> QED
        BY <2>3, <3>1, <4>1, <4>2 DEF q
    <3> QED
      BY <3>4, <3>5
  <2> QED
    BY <2>4, <2>5 DEF words, simplified
<1> QED
  BY <1>1, WalksAreSound, PTL

-----------------------------------------------------------------------------
(* The conversation alternates *)

Turns == [role : {"user", "assistant"}, name : Users \cup Bots \cup {NoName},
          words : Seq(Words \cup {Break, Pause})]

\* The turns in hand end with the turn t, or with what it was joined to.
EndsWith(out, t) ==
  /\ out \in Seq(Turns) /\ Len(out) > 0 /\ Alternates(out)
  /\ out[Len(out)].role = t.role
  /\ t.role = "user" => out[Len(out)] = t

LEMMA JoinedAlternates ==
  ASSUME NEW out \in Seq(Turns), Alternates(out), NEW t \in Turns
  PROVE  EndsWith(Joined(out, t), t)
<1> DEFINE L == Len(out)
           pause == Turn("assistant", NoName, <<Pause>>)
           longer == Merged(out[L], t)
<1>1. L \in Nat /\ (out = <<>> <=> L = 0) /\ Last(out) = out[L]
  BY DEF Last
<1>2. pause \in Turns /\ pause.role = "assistant"
  <2>1. <<Pause>> \in Seq(Words \cup {Break, Pause})
    OBVIOUS
  <2> QED
    BY <2>1 DEF Turn, Turns
<1>3. CASE out = <<>> \/ Last(out).role # t.role
  <2> DEFINE new == Append(out, t)
  <2>1. Joined(out, t) = new
    BY <1>3 DEF Joined
  <2>2. new \in Seq(Turns) /\ Len(new) = L + 1 /\ new[L + 1] = t /\ \A i \in 1 .. L : new[i] = out[i]
    BY AppendFacts
  <2> HIDE DEF new
  <2>3. ASSUME NEW i \in 2 .. L + 1
        PROVE  new[i].role # new[i - 1].role
    <3>1. CASE i = L + 1
      <4>1. i - 1 = L /\ L \in 1 .. L
        BY <1>1, <3>1
      <4> QED
        BY <1>1, <1>3, <2>2, <3>1, <4>1
    <3>2. CASE i # L + 1
      <4>1. i \in 2 .. L /\ i \in 1 .. L /\ i - 1 \in 1 .. L
        BY <1>1, <3>2
      <4> QED
        BY <2>2, <4>1 DEF Alternates
    <3> QED
      BY <3>1, <3>2
  <2> QED
    BY <1>1, <2>1, <2>2, <2>3 DEF EndsWith, Alternates
<1>4. CASE ~(out = <<>> \/ Last(out).role # t.role) /\ t.role = "user"
  <2> DEFINE one == Append(out, pause)
             new == Append(one, t)
  <2>1. Joined(out, t) = out \o <<pause, t>>
    BY <1>4 DEF Joined
  <2>2. out \o <<pause, t>> = new
    <3> HIDE DEF Turns, pause
    <3> QED
      BY <1>2
  <2>3. one \in Seq(Turns) /\ Len(one) = L + 1 /\ one[L + 1] = pause /\ \A i \in 1 .. L : one[i] = out[i]
    BY <1>2, AppendFacts
  <2> HIDE DEF one
  <2>4. /\ new \in Seq(Turns) /\ Len(new) = L + 2 /\ new[L + 2] = t /\ new[L + 1] = pause
        /\ \A i \in 1 .. L : new[i] = out[i]
    <3>1. /\ new \in Seq(Turns) /\ Len(new) = Len(one) + 1 /\ new[Len(one) + 1] = t
          /\ \A i \in 1 .. Len(one) : new[i] = one[i]
      BY <2>3, AppendFacts
    <3> HIDE DEF new, pause
    <3> QED
      BY <1>1, <2>3, <3>1
  <2> HIDE DEF new, pause
  <2>5. ASSUME NEW i \in 2 .. L + 2
        PROVE  new[i].role # new[i - 1].role
    <3>1. CASE i = L + 2
      <4>1. i - 1 = L + 1
        BY <1>1, <3>1
      <4> QED
        BY <1>2, <1>4, <2>4, <3>1, <4>1
    <3>2. CASE i = L + 1
      <4>1. i - 1 = L /\ L \in 1 .. L
        BY <1>1, <3>2
      <4> QED
        BY <1>1, <1>2, <1>4, <2>4, <3>2, <4>1
    <3>3. CASE i # L + 1 /\ i # L + 2
      <4>1. i \in 2 .. L /\ i \in 1 .. L /\ i - 1 \in 1 .. L
        BY <1>1, <3>3
      <4> QED
        BY <2>4, <4>1 DEF Alternates
    <3> QED
      BY <3>1, <3>2, <3>3
  <2>6. L + 2 > 0
    BY <1>1
  <2> QED
    BY <2>1, <2>2, <2>4, <2>5, <2>6 DEF EndsWith, Alternates
<1>5. CASE ~(out = <<>> \/ Last(out).role # t.role) /\ t.role # "user"
  <2> DEFINE front == SubSeq(out, 1, L - 1)
             new == Append(front, longer)
  <2>1. Joined(out, t) = new
    BY <1>1, <1>5 DEF Joined, Front
  <2>2. L > 0 /\ L \in 1 .. L /\ out[L] \in Turns /\ out[L].role = t.role
    BY <1>1, <1>5
  <2>3. longer \in Turns /\ longer.role = t.role
    <3>1. out[L].words \in Seq(Words \cup {Break, Pause}) /\ t.words \in Seq(Words \cup {Break, Pause})
      BY <2>2 DEF Turns
    <3>2. out[L].words \o <<Break, Break>> \o t.words \in Seq(Words \cup {Break, Pause})
      BY <3>1
    <3> QED
      BY <2>2, <3>2 DEF Merged, Turns
  <2>4. front \in Seq(Turns) /\ Len(front) = L - 1 /\ \A i \in 1 .. L - 1 : front[i] = out[i]
    <3>1. L - 1 \in 0 .. L
      BY <2>2
    <3>2. \A m \in 0 .. L : /\ SubSeq(out, 1, m) \in Seq(Turns) /\ Len(SubSeq(out, 1, m)) = m
                            /\ \A i \in 1 .. m : SubSeq(out, 1, m)[i] = out[i]
      <4> HIDE DEF Turns
      <4> QED
        OBVIOUS
    <3> QED
      BY <3>1, <3>2
  <2> HIDE DEF longer, front
  <2>5. /\ new \in Seq(Turns) /\ Len(new) = L /\ new[L] = longer
        /\ \A i \in 1 .. L - 1 : new[i] = out[i]
    <3>1. /\ new \in Seq(Turns) /\ Len(new) = Len(front) + 1 /\ new[Len(front) + 1] = longer
          /\ \A i \in 1 .. Len(front) : new[i] = front[i]
      BY <2>3, <2>4, AppendFacts
    <3>2. (L - 1) + 1 = L
      BY <1>1
    <3> HIDE DEF new
    <3> QED
      BY <2>4, <3>1, <3>2
  <2> HIDE DEF new
  <2>6. \A i \in 1 .. L : new[i].role = out[i].role
    <3>1. \A i \in 1 .. L : i = L \/ i \in 1 .. L - 1
      BY <1>1
    <3> QED
      BY <2>2, <2>3, <2>5, <3>1
  <2>7. ASSUME NEW i \in 2 .. L
        PROVE  new[i].role # new[i - 1].role
    <3>1. i \in 1 .. L /\ i - 1 \in 1 .. L
      BY <1>1
    <3> QED
      BY <2>6, <3>1 DEF Alternates
  <2> QED
    BY <1>5, <2>1, <2>2, <2>3, <2>5, <2>7 DEF EndsWith, Alternates
<1> QED
  BY <1>3, <1>4, <1>5

\* The turns that come of the first n.
Sofar(turns, n, out) == IF n = 0 THEN <<>> ELSE Joined(out[n - 1], turns[n])

\* The loop of normalizeRoleAlternation.
LEMMA AlternateSteps ==
  ASSUME NEW turns \in Seq(Turns)
  PROVE  \E c : /\ c[0] = <<>> /\ Alternate(turns) = c[Len(turns)]
                /\ \A i \in 1 .. Len(turns) : c[i] = Joined(c[i - 1], turns[i])
<1> DEFINE N == Len(turns)
           S == {s \in Seq(Turns) : Alternates(s)}
           step == [i \in 1 .. N |-> [s \in S |-> Joined(s, turns[i])]]
           F(g) == [n \in 0 .. N |-> Sofar(turns, n, g)]
<1>1. N \in Nat /\ \A i \in 1 .. N : turns[i] \in Turns
  OBVIOUS
<1>2. \A s \in S, i \in 1 .. N : Joined(s, turns[i]) \in S
  <2> HIDE DEF N
  <2> QED
    BY <1>1, JoinedAlternates DEF EndsWith
<1>3. <<>> \in S
  <2>1. <<>> \in Seq(Turns) /\ Len(<<>>) = 0
    OBVIOUS
  <2> QED
    BY <2>1 DEF Alternates
<1>4. \E f : Follows(N, S, <<>>, step, f)
  <2> DEFINE base == <<>>
  <2>1. AreSteps(N, S, step)
    <3> HIDE DEF S, N
    <3> QED
      BY <1>2 DEF AreSteps
  <2>2. N \in Nat /\ base \in S
    BY <1>1, <1>3
  <2> HIDE DEF S, step, N, base
  <2>3. \E f : Follows(N, S, base, step, f)
    BY <2>1, <2>2, Steps
  <2> QED
    BY <2>3 DEF base
<1>5. \E f : f = F(f)
  <2>1. PICK f \in [0 .. N -> S] : f[0] = <<>> /\ \A i \in 1 .. N : f[i] = step[i][f[i - 1]]
    BY <1>4 DEF Follows
  <2>2. \A i \in 1 .. N : f[i - 1] \in S
    <3> HIDE DEF S
    <3> QED
      BY <1>1, <2>1
  <2>3. \A i \in 1 .. N : f[i] = Joined(f[i - 1], turns[i])
    <3> HIDE DEF S, N
    <3> QED
      BY <2>1, <2>2
  <2>4. ASSUME NEW i \in 0 .. N
        PROVE  f[i] = Sofar(turns, i, f)
    <3>1. CASE i = 0
      BY <2>1, <3>1 DEF Sofar
    <3>2. CASE i # 0
      <4>1. i \in 1 .. N
        BY <1>1, <3>2
      <4> QED
        BY <2>3, <3>2, <4>1 DEF Sofar
    <3> QED
      BY <3>1, <3>2
  <2>5. f = [i \in 0 .. N |-> f[i]]
    BY <2>1
  <2>6. f = F(f)
    BY <2>4, <2>5
  <2> QED
    BY <2>6
<1> DEFINE c == CHOOSE g : g = F(g)
<1>6. Alternate(turns) = c[N]
  BY DEF Alternate, Sofar
<1>7. c = F(c)
  BY <1>5
<1> HIDE DEF c
<1>8. \A i \in 0 .. N : c[i] = Sofar(turns, i, c)
  BY <1>7
<1>9. c[0] = <<>> /\ \A i \in 1 .. N : c[i] = Joined(c[i - 1], turns[i])
  <2>1. 0 \in 0 .. N /\ \A i \in 1 .. N : i \in 0 .. N /\ i # 0
    BY <1>1
  <2> HIDE DEF N
  <2> QED
    BY <1>8, <2>1 DEF Sofar
<1> QED
  BY <1>6, <1>9

\* normalizeRoleAlternation, whatever the turns it is given.
LEMMA AlternateAlternates ==
  ASSUME NEW turns \in Seq(Turns), Len(turns) > 0
  PROVE  EndsWith(Alternate(turns), turns[Len(turns)])
<1> DEFINE N == Len(turns)
           S == {s \in Seq(Turns) : Alternates(s)}
<1>1. N \in Nat /\ N > 0 /\ \A i \in 1 .. N : turns[i] \in Turns
  OBVIOUS
<1>2. \A s \in S, i \in 1 .. N : Joined(s, turns[i]) \in S
  <2> HIDE DEF N
  <2> QED
    BY <1>1, JoinedAlternates DEF EndsWith
<1>3. <<>> \in S
  <2>1. <<>> \in Seq(Turns) /\ Len(<<>>) = 0
    OBVIOUS
  <2> QED
    BY <2>1 DEF Alternates
<1>4. PICK c : /\ c[0] = <<>> /\ Alternate(turns) = c[N]
               /\ \A i \in 1 .. N : c[i] = Joined(c[i - 1], turns[i])
  <2> HIDE DEF Turns
  <2> QED
    BY AlternateSteps
<1> DEFINE D == {n \in Nat : c[n] \in S}
<1>5. 0 \in D
  BY <1>3, <1>4
<1>6. ASSUME NEW i \in 0 .. N - 1, i \in D
      PROVE  i + 1 \in D
  <2>1. i + 1 \in 1 .. N /\ i + 1 - 1 = i /\ i + 1 \in Nat
    BY <1>1
  <2>2. c[i + 1] = Joined(c[i], turns[i + 1])
    BY <1>4, <2>1
  <2>3. c[i] \in S
    BY <1>6
  <2> HIDE DEF S, N
  <2> QED
    BY <1>2, <2>1, <2>2, <2>3
<1>7. \A i \in 0 .. N : i \in D
  <2>1. N \in Nat
    BY <1>1
  <2> HIDE DEF D, N
  <2> QED
    BY <2>1, <1>5, <1>6, CountUp
<1>8. N - 1 \in 0 .. N /\ N \in 1 .. N
  BY <1>1
<1>9. c[N - 1] \in Seq(Turns) /\ Alternates(c[N - 1])
  <2>1. N - 1 \in D
    <3> HIDE DEF D, N
    <3> QED
      BY <1>7, <1>8
  <2> QED
    BY <2>1
<1>10. EndsWith(Joined(c[N - 1], turns[N]), turns[N])
  <2>1. turns[N] \in Turns
    BY <1>1, <1>8
  <2> HIDE DEF N
  <2> QED
    BY <1>9, <2>1, JoinedAlternates
<1> QED
  BY <1>4, <1>8, <1>10

\* strings.TrimSpace of a text is a text.
LEMMA TrimmedType ==
  ASSUME NEW S, NEW text \in Seq(S)
  PROVE  Trimmed(text) \in Seq(S)
<1> DEFINE L == Len(text)
           words == {i \in DOMAIN text : text[i] # Break}
           back == {L - i : i \in words}
<1>1. L \in Nat /\ DOMAIN text = 1 .. L
  OBVIOUS
<1>2. CASE words = {}
  BY <1>2 DEF Trimmed
<1>3. CASE words # {}
  <2>1. words \in SUBSET Nat /\ back \in SUBSET Nat /\ back # {}
    BY <1>1, <1>3
  <2>2. PICK x \in words : \A y \in words : x <= y
    <3> HIDE DEF words
    <3> QED
      BY <1>3, <2>1, LeastNumber
  <2>3. PICK b \in back : \A y \in back : b <= y
    <3> HIDE DEF back
    <3> QED
      BY <2>1, LeastNumber
  <2>4. PICK z \in words : b = L - z
    BY <2>3
  <2>5. ASSUME NEW y \in words
        PROVE  z >= y
    <3>1. L - y \in back /\ y \in 1 .. L /\ z \in 1 .. L
      BY <1>1, <2>4
    <3>2. L - z <= L - y
      BY <2>3, <2>4, <3>1
    <3> HIDE DEF back, words, L
    <3> QED
      BY <1>1, <3>1, <3>2
  <2>6. Min(words) \in words /\ Max(words) \in words
    <3> HIDE DEF words
    <3> QED
      BY <2>2, <2>5 DEF Min, Max
  <2>7. Min(words) \in 1 .. L /\ Max(words) \in 1 .. L
    BY <1>1, <2>6
  <2>8. Trimmed(text) = SubSeq(text, Min(words), Max(words))
    BY <1>3 DEF Trimmed
  <2> HIDE DEF words, L
  <2>9. \A m, n \in 1 .. L : SubSeq(text, m, n) \in Seq(S)
    BY <1>1 DEF L
  <2> QED
    BY <2>7, <2>8, <2>9
<1> QED
  BY <1>2, <1>3

\* The turns after one more row.
ToldWith(turns, row) ==
  IF Trimmed(row.text) = <<>> THEN turns ELSE Append(turns, AsTurn(row))

\* The turns that come of the first n rows.
ToldUpTo(rows, n, told) == IF n = 0 THEN <<>>
                           ELSE IF Trimmed(rows[n].text) = <<>> THEN told[n - 1]
                           ELSE Append(told[n - 1], AsTurn(rows[n]))

\* A row is told as a turn.
LEMMA TurnOfRow ==
  ASSUME NEW row \in Row
  PROVE  AsTurn(row) \in Turns
<1>1. row.user \in Users \cup Bots /\ row.text \in Seq(Words \cup {Break})
  BY DEF Row
<1>2. Trimmed(row.text) \in Seq(Words \cup {Break})
  BY <1>1, TrimmedType
<1>3. Trimmed(row.text) \in Seq(Words \cup {Break, Pause})
  BY <1>2
<1> QED
  BY <1>1, <1>3 DEF AsTurn, Turn, Turns

\* The loop of buildNeuralHistory.
LEMMA ToldSteps ==
  ASSUME NEW rows \in Seq(Row)
  PROVE  \E c : /\ c[0] = <<>> /\ Told(rows) = c[Len(rows)]
                /\ \A i \in 1 .. Len(rows) : c[i] = ToldWith(c[i - 1], rows[i])
                /\ \A i \in 0 .. Len(rows) : c[i] \in Seq(Turns)
<1> DEFINE N == Len(rows)
           S == Seq(Turns)
           step == [i \in 1 .. N |-> [s \in S |-> ToldWith(s, rows[i])]]
           F(g) == [n \in 0 .. N |-> ToldUpTo(rows, n, g)]
<1>1. N \in Nat /\ \A i \in 1 .. N : rows[i] \in Row
  <2> HIDE DEF Row
  <2> QED
    OBVIOUS
<1>2. \A s \in S, i \in 1 .. N : ToldWith(s, rows[i]) \in S
  <2>1. \A i \in 1 .. N : AsTurn(rows[i]) \in Turns
    BY <1>1, TurnOfRow
  <2> HIDE DEF N, Turns
  <2> QED
    BY <2>1, AppendFacts DEF ToldWith
<1>3. <<>> \in S
  OBVIOUS
<1>4. \E f : Follows(N, S, <<>>, step, f)
  <2> DEFINE base == <<>>
  <2>1. AreSteps(N, S, step)
    <3> HIDE DEF S, N
    <3> QED
      BY <1>2 DEF AreSteps
  <2>2. N \in Nat /\ base \in S
    BY <1>1, <1>3
  <2> HIDE DEF S, step, N, base
  <2>3. \E f : Follows(N, S, base, step, f)
    BY <2>1, <2>2, Steps
  <2> QED
    BY <2>3 DEF base
<1>5. \E f : f = F(f)
  <2>1. PICK f \in [0 .. N -> S] : f[0] = <<>> /\ \A i \in 1 .. N : f[i] = step[i][f[i - 1]]
    BY <1>4 DEF Follows
  <2>2. \A i \in 1 .. N : f[i - 1] \in S
    <3> HIDE DEF S
    <3> QED
      BY <1>1, <2>1
  <2>3. \A i \in 1 .. N : f[i] = ToldWith(f[i - 1], rows[i])
    <3> HIDE DEF S, N
    <3> QED
      BY <2>1, <2>2
  <2>4. ASSUME NEW i \in 0 .. N
        PROVE  f[i] = ToldUpTo(rows, i, f)
    <3>1. CASE i = 0
      BY <2>1, <3>1 DEF ToldUpTo
    <3>2. CASE i # 0
      <4>1. i \in 1 .. N
        BY <1>1, <3>2
      <4> QED
        BY <2>3, <3>2, <4>1 DEF ToldUpTo, ToldWith
    <3> QED
      BY <3>1, <3>2
  <2>5. f = [i \in 0 .. N |-> f[i]]
    BY <2>1
  <2>6. f = F(f)
    BY <2>4, <2>5
  <2> QED
    BY <2>6
<1> DEFINE c == CHOOSE g : g = F(g)
<1>6. Told(rows) = c[N]
  BY DEF Told, ToldUpTo
<1>7. c = F(c)
  BY <1>5
<1> HIDE DEF c
<1>8. \A i \in 0 .. N : c[i] = ToldUpTo(rows, i, c)
  BY <1>7
<1>9. c[0] = <<>> /\ \A i \in 1 .. N : c[i] = ToldWith(c[i - 1], rows[i])
  <2>1. 0 \in 0 .. N /\ \A i \in 1 .. N : i \in 0 .. N /\ i # 0
    BY <1>1
  <2> HIDE DEF N
  <2> QED
    BY <1>8, <2>1 DEF ToldUpTo, ToldWith
<1> DEFINE D == {n \in Nat : c[n] \in S}
<1>10. 0 \in D
  BY <1>3, <1>9
<1>11. ASSUME NEW i \in 0 .. N - 1, i \in D
       PROVE  i + 1 \in D
  <2>1. i + 1 \in 1 .. N /\ i + 1 - 1 = i /\ i + 1 \in Nat
    BY <1>1
  <2>2. c[i + 1] = ToldWith(c[i], rows[i + 1])
    BY <1>9, <2>1
  <2>3. c[i] \in S
    BY <1>11
  <2> HIDE DEF S, N
  <2> QED
    BY <1>2, <2>1, <2>2, <2>3
<1>12. \A i \in 0 .. N : i \in D
  <2>1. N \in Nat
    BY <1>1
  <2> HIDE DEF D, N
  <2> QED
    BY <2>1, <1>10, <1>11, CountUp
<1> QED
  BY <1>6, <1>9, <1>12

\* The rows but the newest are rows, whichever end they are read from.
LEMMA OlderType ==
  ASSUME NEW rows \in Seq(Row), NEW user, NEW current
  PROVE  Reverse(WithoutCurrent(rows, user, current)) \in Seq(Row)
<1>1. WithoutCurrent(rows, user, current) \in Seq(Row)
  <2>1. rows # <<>> => Tail(rows) \in Seq(Row)
    <3> HIDE DEF Row
    <3> QED
      OBVIOUS
  <2> QED
    BY <2>1 DEF WithoutCurrent
<1> QED
  BY <1>1, ReadRowsType

\* What is told of the rows are turns.
LEMMA ToldType ==
  ASSUME NEW rows \in Seq(Row), NEW user, NEW current
  PROVE  Told(Reverse(WithoutCurrent(rows, user, current))) \in Seq(Turns)
<1> DEFINE older == Reverse(WithoutCurrent(rows, user, current))
<1>1. older \in Seq(Row)
  BY OlderType
<1> HIDE DEF older, Row, Turns
<1>2. PICK c : /\ Told(older) = c[Len(older)]
               /\ \A i \in 0 .. Len(older) : c[i] \in Seq(Turns)
  BY <1>1, ToldSteps
<1>3. Len(older) \in 0 .. Len(older)
  BY <1>1
<1> QED
  BY <1>2, <1>3 DEF older

\* buildNeuralHistory, whatever the rows it is given.
LEMMA HistoryAlternates ==
  ASSUME NEW rows \in Seq(Row), NEW user \in Users \cup Bots, NEW current \in Seq(Words)
  PROVE  EndsWith(History(rows, user, current), Turn("user", user, current))
<1> DEFINE question == Turn("user", user, current)
           older == Reverse(WithoutCurrent(rows, user, current))
           told == Told(older)
           turns == AppendCurrent(told, user, current)
<1>1. question \in Turns
  BY DEF Turn, Turns
<1>2. told \in Seq(Turns)
  BY ToldType
<1>3. turns \in Seq(Turns) /\ Len(turns) > 0 /\ turns[Len(turns)] = question
  <2> HIDE DEF told
  <2>1. CASE told # <<>> /\ Last(told) = question
    <3>1. turns = told
      BY <2>1 DEF AppendCurrent
    <3>2. Len(told) > 0
      <4> HIDE DEF Turns
      <4> QED
        BY <1>2, <2>1
    <3> QED
      BY <1>2, <2>1, <3>1, <3>2 DEF Last
  <2>2. CASE ~(told # <<>> /\ Last(told) = question)
    <3>1. turns = Append(told, question)
      BY <2>2 DEF AppendCurrent
    <3> HIDE DEF turns, question
    <3>2. /\ Append(told, question) \in Seq(Turns) /\ Len(Append(told, question)) = Len(told) + 1
          /\ Append(told, question)[Len(told) + 1] = question
      BY <1>1, <1>2, AppendFacts
    <3>3. Len(told) \in Nat
      <4> HIDE DEF Turns
      <4> QED
        BY <1>2
    <3> QED
      BY <3>1, <3>2, <3>3
  <2> QED
    BY <2>1, <2>2
<1>4. History(rows, user, current) = Alternate(turns)
  BY DEF History
<1> HIDE DEF turns, question
<1>5. EndsWith(Alternate(turns), question)
  BY <1>3, AlternateAlternates
<1> QED
  BY <1>4, <1>5 DEF question

-----------------------------------------------------------------------------
(* The cut *)

\* Turns whose words can be counted.
HaveWords(S) == \A t \in S : BytesOf(t.words) \in Nat

\* The sums that Size goes through.
Totals(turns, f) ==
  /\ f \in [0 .. Len(turns) -> Nat] /\ f[0] = 0
  /\ \A i \in 1 .. Len(turns) : f[i] = f[i - 1] + BytesOf(turns[i].words)

\* The loop of Size.
Total(turns, n, f) == IF n = 0 THEN 0 ELSE f[n - 1] + BytesOf(turns[n].words)

\* Size is such a sum.
LEMMA SizeTotals ==
  ASSUME NEW S, HaveWords(S), NEW turns \in Seq(S)
  PROVE  \E f : Totals(turns, f) /\ Size(turns) = f[Len(turns)]
<1> DEFINE N == Len(turns)
           step == [i \in 1 .. N |-> [n \in Nat |-> n + BytesOf(turns[i].words)]]
           F(g) == [n \in 0 .. N |-> Total(turns, n, g)]
           c == CHOOSE g : g = F(g)
<1>1. N \in Nat /\ \A i \in 1 .. N : BytesOf(turns[i].words) \in Nat
  BY DEF HaveWords
<1>2. step \in [1 .. N -> [Nat -> Nat]]
  BY <1>1
<1>3. PICK f : Follows(N, Nat, 0, step, f)
  <2>1. AreSteps(N, Nat, step)
    BY <1>2 DEF AreSteps
  <2> HIDE DEF step, N
  <2> QED
    BY <1>1, <2>1, Steps
<1>4. Totals(turns, f)
  <2>1. f \in [0 .. N -> Nat] /\ f[0] = 0 /\ \A i \in 1 .. N : f[i] = step[i][f[i - 1]]
    BY <1>3 DEF Follows
  <2>2. \A i \in 1 .. N : i - 1 \in 0 .. N
    BY <1>1
  <2>3. \A i \in 1 .. N : f[i - 1] \in Nat
    BY <2>1, <2>2
  <2>4. \A i \in 1 .. N : step[i][f[i - 1]] = f[i - 1] + BytesOf(turns[i].words)
    BY <2>3
  <2> HIDE DEF step
  <2> QED
    BY <2>1, <2>4 DEF Totals
<1>5. f = F(f)
  <2>1. f = [n \in 0 .. N |-> f[n]]
    BY <1>4 DEF Totals
  <2>2. ASSUME NEW n \in 0 .. N PROVE f[n] = Total(turns, n, f)
    <3>1. CASE n = 0
      BY <1>4, <3>1 DEF Totals, Total
    <3>2. CASE n # 0
      <4>1. n \in 1 .. N
        BY <1>1, <3>2
      <4> QED
        BY <1>4, <3>2, <4>1 DEF Totals, Total
    <3> QED
      BY <3>1, <3>2
  <2> QED
    BY <2>1, <2>2
<1>6. c = F(c)
  BY <1>5
<1>7. Size(turns) = c[N]
  BY DEF Size, Total
<1> HIDE DEF c
<1>8. c[0] = 0 /\ \A i \in 1 .. N : c[i] = c[i - 1] + BytesOf(turns[i].words)
  <2>1. \A i \in 0 .. N : c[i] = Total(turns, i, c)
    BY <1>6
  <2>2. 0 \in 0 .. N /\ \A i \in 1 .. N : i \in 0 .. N /\ i # 0
    BY <1>1
  <2> HIDE DEF N
  <2> QED
    BY <2>1, <2>2 DEF Total
<1> HIDE DEF F
<1> DEFINE D == {n \in Nat : c[n] = f[n]}
<1>9. 0 \in D
  BY <1>4, <1>8 DEF Totals
<1>10. ASSUME NEW i \in 0 .. N - 1, i \in D PROVE i + 1 \in D
  <2>1. i + 1 \in 1 .. N /\ i + 1 - 1 = i /\ i + 1 \in Nat
    BY <1>1
  <2> QED
    BY <1>4, <1>8, <1>10, <2>1 DEF Totals
<1>11. N \in D
  <2>1. N \in Nat /\ N \in 0 .. N
    BY <1>1
  <2> HIDE DEF D, N
  <2>2. \A i \in 0 .. N : i \in D
    BY <2>1, <1>9, <1>10, CountUp
  <2> QED
    BY <2>1, <2>2
<1>12. Size(turns) = f[N]
  BY <1>7, <1>11
<1> QED
  BY <1>4, <1>12

\* Two runs of turns are as large as both, and there is no more to a turn than its words.
LEMMA SizeOfBoth ==
  ASSUME NEW S, HaveWords(S), NEW a \in Seq(S), NEW b \in Seq(S)
  PROVE  Size(a) \in Nat /\ Size(b) \in Nat /\ Size(a \o b) = Size(a) + Size(b)
<1> DEFINE ab == a \o b
<1>1. PICK f : Totals(a, f) /\ Size(a) = f[Len(a)]
  BY SizeTotals
<1>2. PICK g : Totals(b, g) /\ Size(b) = g[Len(b)]
  BY SizeTotals
<1>3. ab \in Seq(S) /\ Len(ab) = Len(a) + Len(b) /\ Len(a) \in Nat /\ Len(b) \in Nat
  OBVIOUS
<1>4. /\ \A i \in 1 .. Len(a) : ab[i] = a[i]
      /\ \A i \in 1 .. Len(b) : ab[Len(a) + i] = b[i]
  OBVIOUS
<1> HIDE DEF ab
<1>5. PICK h : Totals(ab, h) /\ Size(ab) = h[Len(ab)]
  BY <1>3, SizeTotals
<1> DEFINE D == {n \in Nat : n <= Len(a) /\ h[n] = f[n]}
           E == {n \in Nat : n <= Len(b) /\ h[Len(a) + n] = h[Len(a)] + g[n]}
<1>6. 0 \in D
  BY <1>1, <1>3, <1>5 DEF Totals
<1>7. ASSUME NEW i \in 0 .. Len(a) - 1, i \in D PROVE i + 1 \in D
  <2>1. i + 1 \in 1 .. Len(a) /\ i + 1 \in 1 .. Len(ab) /\ i + 1 - 1 = i /\ i + 1 \in Nat
    BY <1>3
  <2>2. h[i + 1] = h[i] + BytesOf(ab[i + 1].words) /\ f[i + 1] = f[i] + BytesOf(a[i + 1].words)
    BY <1>1, <1>5, <2>1 DEF Totals
  <2>3. h[i] = f[i] /\ ab[i + 1] = a[i + 1]
    BY <1>4, <1>7, <2>1
  <2>4. i + 1 <= Len(a)
    BY <2>1
  <2> QED
    BY <2>1, <2>2, <2>3, <2>4
<1>8. Len(a) \in D
  <2>1. Len(a) \in 0 .. Len(a)
    BY <1>3
  <2> HIDE DEF D
  <2>2. \A i \in 0 .. Len(a) : i \in D
    BY <1>3, <1>6, <1>7, CountUp
  <2> QED
    BY <2>1, <2>2
<1>9. 0 \in E
  <2>1. Len(a) + 0 = Len(a) /\ Len(a) \in 0 .. Len(ab) /\ 0 <= Len(b)
    BY <1>3
  <2>2. h[Len(a)] \in Nat /\ g[0] = 0
    BY <1>2, <1>5, <2>1 DEF Totals
  <2>3. h[Len(a)] = h[Len(a)] + g[0]
    BY <2>2
  <2> QED
    BY <2>1, <2>3
<1>10. ASSUME NEW i \in 0 .. Len(b) - 1, i \in E PROVE i + 1 \in E
  <2>1. /\ i + 1 \in 1 .. Len(b) /\ Len(a) + (i + 1) \in 1 .. Len(ab)
        /\ i + 1 - 1 = i /\ i + 1 \in Nat /\ Len(a) + (i + 1) - 1 = Len(a) + i
    BY <1>3
  <2>2. h[Len(a) + (i + 1)] = h[Len(a) + i] + BytesOf(b[i + 1].words)
    BY <1>4, <1>5, <2>1 DEF Totals
  <2>3. g[i + 1] = g[i] + BytesOf(b[i + 1].words)
    BY <1>2, <2>1 DEF Totals
  <2>4. h[Len(a)] \in Nat /\ g[i] \in Nat /\ BytesOf(b[i + 1].words) \in Nat
    <3>1. Len(a) \in 0 .. Len(ab) /\ i \in 0 .. Len(b) /\ b[i + 1] \in S
      BY <1>3, <2>1
    <3> QED
      BY <1>2, <1>5, <3>1 DEF Totals, HaveWords
  <2>5. h[Len(a) + i] = h[Len(a)] + g[i]
    BY <1>10
  <2>6. h[Len(a) + (i + 1)] = h[Len(a)] + g[i + 1]
    BY <2>2, <2>3, <2>4, <2>5
  <2> QED
    BY <2>1, <2>6
<1>11. Len(b) \in E
  <2>1. Len(b) \in 0 .. Len(b)
    BY <1>3
  <2> HIDE DEF E
  <2>2. \A i \in 0 .. Len(b) : i \in E
    BY <1>3, <1>9, <1>10, CountUp
  <2> QED
    BY <2>1, <2>2
<1>12. Size(ab) = Size(a) + Size(b)
  BY <1>1, <1>2, <1>3, <1>5, <1>8, <1>11
<1>13. Size(a) \in Nat /\ Size(b) \in Nat
  <2>1. Len(a) \in 0 .. Len(a) /\ Len(b) \in 0 .. Len(b)
    BY <1>3
  <2> QED
    BY <1>1, <1>2, <2>1 DEF Totals
<1> QED
  BY <1>12, <1>13 DEF ab

\* No turn has no size, and one has its words'.
LEMMA SizeOfOne ==
  ASSUME NEW S, HaveWords(S), NEW t \in S
  PROVE  Size(<<>>) = 0 /\ Size(<<t>>) = BytesOf(t.words)
<1>1. <<>> \in Seq(S) /\ <<t>> \in Seq(S)
  OBVIOUS
<1>2. PICK f : Totals(<<>>, f) /\ Size(<<>>) = f[Len(<<>>)]
  BY <1>1, SizeTotals
<1>3. PICK g : Totals(<<t>>, g) /\ Size(<<t>>) = g[Len(<<t>>)]
  BY <1>1, SizeTotals
<1>4. Size(<<>>) = 0
  BY <1>2 DEF Totals
<1>5. Size(<<t>>) = g[1] /\ g[1] = g[0] + BytesOf(t.words) /\ g[0] = 0
  BY <1>3 DEF Totals
<1>6. BytesOf(t.words) \in Nat
  BY DEF HaveWords
<1> QED
  BY <1>4, <1>5, <1>6

\* What is kept of the n newest turns: some of them in their order, that fit, and
\* none of them is missing that would fit beside what is kept.
KeptOf(turns, n, kept, used, max) ==
  LET N == Len(turns) IN
  /\ used + Size(kept) <= max
  /\ \E pos \in [1 .. Len(kept) -> N + 1 - n .. N] :
       \A i, j \in 1 .. Len(kept) : kept[i] = turns[pos[i]] /\ (i < j => pos[i] < pos[j])
  /\ \A j \in N + 1 - n .. N :
       \/ \E i \in 1 .. Len(kept) : kept[i] = turns[j]
       \/ used + Size(kept) + BytesOf(turns[j].words) > max

\* One older turn.
LEMMA OlderKept ==
  ASSUME NEW S, HaveWords(S), NEW turns \in Seq(S), NEW used \in Nat, NEW max \in Nat,
         NEW n \in 0 .. Len(turns) - 1, NEW kept \in Seq(S), KeptOf(turns, n, kept, used, max)
  PROVE  LET more == WithOlder(kept, turns[Len(turns) - n], used, max)
         IN  more \in Seq(S) /\ KeptOf(turns, n + 1, more, used, max)
<1> DEFINE N == Len(turns)
           t == turns[N - n]
           more == WithOlder(kept, t, used, max)
<1>1. N \in Nat /\ N - n \in 1 .. N /\ N + 1 - (n + 1) = N - n /\ N + 1 - n = N - n + 1
  OBVIOUS
<1>2. t \in S /\ BytesOf(t.words) \in Nat /\ \A j \in 1 .. N : BytesOf(turns[j].words) \in Nat
  BY <1>1 DEF HaveWords
<1>3. Size(kept) \in Nat /\ Len(kept) \in Nat
  BY SizeOfBoth
<1>4. PICK pos \in [1 .. Len(kept) -> N + 1 - n .. N] :
        \A i, j \in 1 .. Len(kept) : kept[i] = turns[pos[i]] /\ (i < j => pos[i] < pos[j])
  BY DEF KeptOf
<1>5. used + Size(kept) <= max
  BY DEF KeptOf
<1>6. \A j \in N + 1 - n .. N : \/ \E i \in 1 .. Len(kept) : kept[i] = turns[j]
                                \/ used + Size(kept) + BytesOf(turns[j].words) > max
  BY DEF KeptOf
<1>7. CASE used + Size(kept) + BytesOf(t.words) > max
  <2>1. more = kept
    BY <1>7 DEF WithOlder
  <2>2. pos \in [1 .. Len(kept) -> N - n .. N]
    BY <1>1, <1>4
  <2>3. \A j \in N - n .. N : \/ \E i \in 1 .. Len(kept) : kept[i] = turns[j]
                              \/ used + Size(kept) + BytesOf(turns[j].words) > max
    <3>1. ASSUME NEW j \in N - n .. N, j # N - n PROVE j \in N + 1 - n .. N
      BY <1>1, <3>1
    <3> QED
      BY <1>6, <1>7, <3>1
  <2>4. KeptOf(turns, n + 1, kept, used, max)
    BY <1>1, <1>4, <1>5, <2>2, <2>3 DEF KeptOf
  <2> QED
    BY <2>1, <2>4
<1>8. CASE ~(used + Size(kept) + BytesOf(t.words) > max)
  <2> DEFINE new == <<t>> \o kept
             at == [i \in 1 .. Len(kept) + 1 |-> IF i = 1 THEN N - n ELSE pos[i - 1]]
  <2>1. more = new
    BY <1>8 DEF WithOlder
  <2>2. new \in Seq(S) /\ Len(new) = Len(kept) + 1 /\ new[1] = t
    BY <1>2
  <2>3. \A i \in 2 .. Len(kept) + 1 : new[i] = kept[i - 1] /\ i - 1 \in 1 .. Len(kept)
    BY <1>2, <1>3
  <2>4. Size(new) = BytesOf(t.words) + Size(kept)
    <3>1. <<t>> \in Seq(S)
      BY <1>2
    <3>2. Size(new) = Size(<<t>>) + Size(kept)
      BY <3>1, SizeOfBoth
    <3> QED
      BY <1>2, <3>2, SizeOfOne
  <2> HIDE DEF new
  <2>5. used + Size(new) <= max
    BY <1>2, <1>3, <1>8, <2>4
  <2>6. at \in [1 .. Len(new) -> N - n .. N]
    <3>1. ASSUME NEW i \in 1 .. Len(new) PROVE at[i] \in N - n .. N
      <4>1. CASE i = 1
        BY <1>1, <2>2, <4>1
      <4>2. CASE i # 1
        <5>1. i - 1 \in 1 .. Len(kept) /\ at[i] = pos[i - 1]
          BY <1>3, <2>2, <4>2
        <5> QED
          BY <1>1, <1>4, <5>1
      <4> QED
        BY <4>1, <4>2
    <3> QED
      BY <2>2, <3>1
  <2>7. ASSUME NEW i \in 1 .. Len(new) PROVE new[i] = turns[at[i]]
    <3>1. CASE i = 1
      BY <2>2, <3>1
    <3>2. CASE i # 1
      <4>1. i \in 2 .. Len(kept) + 1
        BY <1>3, <2>2, <3>2
      <4> QED
        BY <1>4, <2>3, <4>1, <3>2, <2>2
    <3> QED
      BY <3>1, <3>2
  <2>8. ASSUME NEW i \in 1 .. Len(new), NEW j \in 1 .. Len(new), i < j PROVE at[i] < at[j]
    <3>1. j \in 2 .. Len(kept) + 1 /\ at[j] = pos[j - 1] /\ j - 1 \in 1 .. Len(kept)
      BY <1>3, <2>2, <2>8
    <3>2. CASE i = 1
      <4>1. pos[j - 1] \in N + 1 - n .. N /\ at[i] = N - n
        BY <1>4, <2>2, <3>1, <3>2
      <4> QED
        BY <1>1, <3>1, <4>1
    <3>3. CASE i # 1
      <4>1. i - 1 \in 1 .. Len(kept) /\ at[i] = pos[i - 1] /\ i - 1 < j - 1
        BY <1>3, <2>2, <2>8, <3>3
      <4> QED
        BY <1>4, <3>1, <4>1
    <3> QED
      BY <3>2, <3>3
  <2>9. ASSUME NEW j \in N - n .. N
        PROVE  \/ \E i \in 1 .. Len(new) : new[i] = turns[j]
               \/ used + Size(new) + BytesOf(turns[j].words) > max
    <3>1. CASE j = N - n
      <4>1. 1 \in 1 .. Len(new) /\ new[1] = turns[j]
        BY <1>3, <2>2, <3>1
      <4> QED
        BY <4>1
    <3>2. CASE j # N - n
      <4>1. j \in N + 1 - n .. N
        BY <1>1, <3>2
      <4>2. CASE \E i \in 1 .. Len(kept) : kept[i] = turns[j]
        <5>1. PICK i \in 1 .. Len(kept) : kept[i] = turns[j]
          BY <4>2
        <5>2. i + 1 \in 1 .. Len(new) /\ i + 1 \in 2 .. Len(kept) + 1 /\ i + 1 - 1 = i
          BY <1>3, <2>2
        <5>3. new[i + 1] = turns[j]
          BY <2>3, <5>1, <5>2
        <5> QED
          BY <5>2, <5>3
      <4>3. CASE used + Size(kept) + BytesOf(turns[j].words) > max
        <5>1. BytesOf(turns[j].words) \in Nat
          BY <1>1, <1>2, <4>1
        <5> QED
          BY <1>2, <1>3, <2>4, <4>3, <5>1
      <4> QED
        BY <1>6, <4>1, <4>2, <4>3
    <3> QED
      BY <3>1, <3>2
  <2> HIDE DEF at
  <2>10. KeptOf(turns, n + 1, new, used, max)
    BY <1>1, <2>5, <2>6, <2>7, <2>8, <2>9 DEF KeptOf
  <2> QED
    BY <2>1, <2>2, <2>10
<1> QED
  BY <1>7, <1>8

\* The loop of Keep.
KeptSoFar(turns, n, f, used, max) ==
  IF n = 0 THEN <<>> ELSE WithOlder(f[n - 1], turns[Len(turns) + 1 - n], used, max)

\* The loop of trimMessages.
LEMMA KeepFacts ==
  ASSUME NEW S, HaveWords(S), NEW turns \in Seq(S), NEW used \in Nat, NEW max \in Nat,
         used <= max
  PROVE  /\ Keep(turns, used, max) \in Seq(S)
         /\ KeptOf(turns, Len(turns), Keep(turns, used, max), used, max)
<1> DEFINE N == Len(turns)
           Q == Seq(S)
           base == <<>>
           step == [i \in 1 .. N |-> [k \in Q |-> WithOlder(k, turns[N + 1 - i], used, max)]]
           F(g) == [n \in 0 .. N |-> KeptSoFar(turns, n, g, used, max)]
           c == CHOOSE g : g = F(g)
<1>1. N \in Nat /\ \A i \in 1 .. N : turns[N + 1 - i] \in S
  OBVIOUS
<1>2. AreSteps(N, Q, step) /\ base \in Q
  <2>1. ASSUME NEW i \in 1 .. N, NEW k \in Q
        PROVE  WithOlder(k, turns[N + 1 - i], used, max) \in Q
    BY <1>1 DEF WithOlder
  <2> HIDE DEF N
  <2> QED
    BY <2>1 DEF AreSteps
<1>3. PICK f : Follows(N, Q, base, step, f)
  <2> HIDE DEF step, N, Q, base
  <2> QED
    BY <1>1, <1>2, Steps
<1>4. /\ f \in [0 .. N -> Q] /\ f[0] = <<>>
      /\ \A i \in 1 .. N : f[i] = WithOlder(f[i - 1], turns[N + 1 - i], used, max)
  <2>1. f \in [0 .. N -> Q] /\ f[0] = <<>> /\ \A i \in 1 .. N : f[i] = step[i][f[i - 1]]
    BY <1>3 DEF Follows
  <2>2. \A i \in 1 .. N : i - 1 \in 0 .. N
    BY <1>1
  <2> HIDE DEF N, Q
  <2>3. \A i \in 1 .. N : f[i - 1] \in Q
    BY <2>1, <2>2
  <2> QED
    BY <2>1, <2>3
<1>5. f = F(f)
  <2>1. f = [n \in 0 .. N |-> f[n]]
    BY <1>4
  <2>2. ASSUME NEW n \in 0 .. N PROVE f[n] = KeptSoFar(turns, n, f, used, max)
    <3>1. CASE n = 0
      BY <1>4, <3>1 DEF KeptSoFar
    <3>2. CASE n # 0
      <4>1. n \in 1 .. N
        BY <1>1, <3>2
      <4> QED
        BY <1>4, <3>2, <4>1 DEF KeptSoFar
    <3> QED
      BY <3>1, <3>2
  <2> HIDE DEF N
  <2> QED
    BY <2>1, <2>2
<1>6. c = F(c)
  BY <1>5
<1>7. Keep(turns, used, max) = c[N]
  BY DEF Keep, KeptSoFar
<1> HIDE DEF c
<1>8. c[0] = <<>> /\ \A i \in 1 .. N : c[i] = WithOlder(c[i - 1], turns[N + 1 - i], used, max)
  <2>1. \A i \in 0 .. N : c[i] = KeptSoFar(turns, i, c, used, max)
    BY <1>6
  <2>2. 0 \in 0 .. N /\ \A i \in 1 .. N : i \in 0 .. N /\ i # 0
    BY <1>1
  <2> QED
    BY <2>1, <2>2 DEF KeptSoFar
<1> HIDE DEF F
<1> DEFINE D == {n \in Nat : c[n] \in Q /\ KeptOf(turns, n, c[n], used, max)}
<1>9. 0 \in D
  <2>1. Size(<<>>) = 0
    <3>1. <<>> \in Seq(S) /\ <<>> \o <<>> = <<>>
      OBVIOUS
    <3>2. Size(<<>>) \in Nat /\ Size(<<>> \o <<>>) = Size(<<>>) + Size(<<>>)
      BY <3>1, SizeOfBoth
    <3> QED
      BY <3>1, <3>2
  <2>2. used + Size(<<>>) <= max
    BY <2>1
  <2>3. Len(<<>>) = 0 /\ 1 .. 0 = {} /\ N + 1 - 0 .. N = {}
    BY <1>1
  <2>4. \E pos \in [1 .. 0 -> N + 1 - 0 .. N] : \A i, j \in 1 .. 0 : i < j => pos[i] < pos[j]
    <3>1. [i \in 1 .. 0 |-> 0] \in [1 .. 0 -> N + 1 - 0 .. N]
      BY <2>3
    <3> QED
      BY <2>3, <3>1
  <2>5. KeptOf(turns, 0, <<>>, used, max)
    BY <2>2, <2>3, <2>4 DEF KeptOf
  <2>6. c[0] \in Q /\ KeptOf(turns, 0, c[0], used, max)
    BY <1>2, <1>8, <2>5
  <2> QED
    BY <2>6
<1>10. ASSUME NEW i \in 0 .. N - 1, i \in D PROVE i + 1 \in D
  <2>1. i + 1 \in 1 .. N /\ i + 1 - 1 = i /\ i + 1 \in Nat /\ N + 1 - (i + 1) = N - i
    BY <1>1
  <2>2. c[i + 1] = WithOlder(c[i], turns[N - i], used, max)
    BY <1>8, <2>1
  <2>3. c[i] \in Q /\ KeptOf(turns, i, c[i], used, max)
    BY <1>10
  <2>4. c[i + 1] \in Q /\ KeptOf(turns, i + 1, c[i + 1], used, max)
    BY <2>2, <2>3, OlderKept
  <2> QED
    BY <2>1, <2>4
<1>11. N \in D
  <2>1. N \in Nat /\ N \in 0 .. N
    BY <1>1
  <2> HIDE DEF D, N
  <2>2. \A i \in 0 .. N : i \in D
    BY <2>1, <1>9, <1>10, CountUp
  <2> QED
    BY <2>1, <2>2
<1> QED
  BY <1>7, <1>11

\* The words and turns of a request.
AnyWords == Words \cup {Break, Pause} \cup Range(System)

AnyTurn == [role : {"system", "user", "assistant"}, name : Users \cup Bots \cup {NoName}, words : Seq(AnyWords)]

\* The system prompt, if there is one.
SystemTurn == IF System = <<>> THEN <<>> ELSE <<Turn("system", NoName, System)>>

\* What RequestFits asks of a request: the system prompt, then turns of the
\* history in their order, then the question or its beginning; it fits, and no
\* turn is missing that would.
IsCutTo(system, front, question, request, max) ==
  LET middle == SubSeq(request, Len(system) + 1, Len(request) - 1)
  IN  /\ IsPrefix(system, request)
      /\ IsPrefix(Last(request).words, question.words) /\ Last(request).name = question.name
      /\ \E pos \in [DOMAIN middle -> DOMAIN front] :
           \A i, j \in DOMAIN middle : /\ middle[i] = front[pos[i]]
                                       /\ i < j => pos[i] < pos[j]
      /\ max > 0 => Size(request) <= max \/ Size(system) > max
      /\ \A i \in DOMAIN front : \/ Contains(middle, front[i])
                                 \/ max > 0 /\ Size(request) + Size(<<front[i]>>) > max
                                 \/ Last(request).words # question.words

\* Every turn has a size.
LEMMA WordsHaveBytes == HaveWords(AnyTurn)
<1> SUFFICES ASSUME NEW t \in AnyTurn PROVE BytesOf(t.words) \in Nat
  BY DEF HaveWords
<1>1. Len(t.words) \in Nat
  BY DEF AnyTurn
<1>2. RuneBytes \in Nat
  BY PromptAssumption
<1> QED
  BY <1>1, <1>2 DEF BytesOf

\* A whole number of runes.
LEMMA Runes ==
  ASSUME NEW room \in Int
  PROVE  LET n == room \div RuneBytes
         IN  /\ n \in Int
             /\ RuneBytes * n <= room
             /\ \A len \in Nat : RuneBytes * len > room => len > n
<1> USE PromptAssumption
<1> DEFINE n == room \div RuneBytes
<1>1. n \in Int /\ RuneBytes * n <= room
  OBVIOUS
<1>2. ASSUME NEW len \in Nat, RuneBytes * len > room
      PROVE  len > n
  <2> HIDE DEF n
  <2>1. SUFFICES ASSUME len <= n PROVE FALSE
    BY <1>1
  <2>2. RuneBytes * len <= RuneBytes * n
    BY <1>1, <2>1
  <2>3. RuneBytes * len \in Int /\ RuneBytes * n \in Int
    BY <1>1
  <2> QED
    BY <1>1, <1>2, <2>2, <2>3
<1> QED
  BY <1>1, <1>2

\* Sequences of one length with the same elements are one.
LEMMA SameSequence ==
  ASSUME NEW S, NEW s \in Seq(S), NEW t \in Seq(S), Len(s) = Len(t),
         \A i \in 1 .. Len(t) : s[i] = t[i]
  PROVE  s = t
<1>1. s = [i \in 1 .. Len(s) |-> s[i]] /\ t = [i \in 1 .. Len(t) |-> t[i]]
  OBVIOUS
<1> QED
  BY <1>1

\* A request is put together of three parts.
MadeOf(request, system, middle, last) == request = (system \o middle) \o <<last>>

\* Where the parts are found again.
LEMMA Parts ==
  ASSUME NEW S, NEW system \in Seq(S), NEW middle \in Seq(S), NEW last \in S,
         NEW request, MadeOf(request, system, middle, last)
  PROVE  /\ request \in Seq(S) /\ Len(request) = Len(system) + Len(middle) + 1
         /\ request # <<>> /\ Last(request) = last
         /\ SubSeq(request, Len(system) + 1, Len(request) - 1) = middle
         /\ IsPrefix(system, request)
<1>1. Len(system) \in Nat /\ Len(middle) \in Nat
  OBVIOUS
<1>2. request \in Seq(S) /\ Len(request) = Len(system) + Len(middle) + 1
  BY DEF MadeOf
<1>3. /\ \A i \in 1 .. Len(system) : request[i] = system[i]
      /\ \A i \in 1 .. Len(middle) : request[Len(system) + i] = middle[i]
      /\ request[Len(system) + Len(middle) + 1] = last
  BY DEF MadeOf
<1>4. SubSeq(request, Len(system) + 1, Len(request) - 1) = middle
  <2> DEFINE s == SubSeq(request, Len(system) + 1, Len(request) - 1)
  <2>1. s \in Seq(S) /\ Len(s) = Len(middle)
    BY <1>1, <1>2
  <2>2. \A i \in 1 .. Len(middle) : s[i] = middle[i]
    BY <1>1, <1>2, <1>3
  <2> HIDE DEF s
  <2>3. s = middle
    BY <2>1, <2>2, SameSequence
  <2> QED
    BY <2>3 DEF s
<1>5. SubSeq(request, 1, Len(system)) = SubSeq(system, 1, Len(system))
  <2> DEFINE s == SubSeq(request, 1, Len(system))
             t == SubSeq(system, 1, Len(system))
  <2>1. s \in Seq(S) /\ Len(s) = Len(system) /\ t \in Seq(S) /\ Len(t) = Len(system)
    BY <1>1, <1>2
  <2>2. \A i \in 1 .. Len(system) : s[i] = t[i]
    BY <1>1, <1>2, <1>3
  <2> HIDE DEF s, t
  <2>3. s = t
    BY <2>1, <2>2, SameSequence
  <2> QED
    BY <2>3 DEF s, t
<1> QED
  BY <1>1, <1>2, <1>3, <1>4, <1>5 DEF Last, IsPrefix

\* An element more is a part of one.
LEMMA OneMore ==
  ASSUME NEW S, NEW s \in Seq(S), NEW e \in S
  PROVE  /\ Append(s, e) = s \o <<e>> /\ <<e>> \in Seq(S)
         /\ <<>> \in Seq(S) /\ MadeOf(Append(s, e), s, <<>>, e)
<1>1. <<e>> \in Seq(S) /\ <<>> \in Seq(S) /\ s \o <<>> = s
  OBVIOUS
<1>2. Append(s, e) = s \o <<e>>
  <2> DEFINE a == Append(s, e)
             b == s \o <<e>>
  <2>1. a \in Seq(S) /\ b \in Seq(S) /\ Len(a) = Len(b) /\ \A i \in 1 .. Len(b) : a[i] = b[i]
    OBVIOUS
  <2> HIDE DEF a, b
  <2>2. a = b
    BY <2>1, SameSequence
  <2> QED
    BY <2>2 DEF a, b
<1> QED
  BY <1>1, <1>2 DEF MadeOf

\* A request that keeps some of the history whole.
LEMMA KeptIsCut ==
  ASSUME NEW system \in Seq(AnyTurn), NEW front \in Seq(AnyTurn), NEW question \in AnyTurn,
         NEW kept \in Seq(AnyTurn), NEW max \in Nat, NEW request, MadeOf(request, system, kept, question),
         \E pos \in [1 .. Len(kept) -> 1 .. Len(front)] :
           \A i, j \in 1 .. Len(kept) : kept[i] = front[pos[i]] /\ (i < j => pos[i] < pos[j]),
         max > 0 => Size(request) <= max,
         \A j \in 1 .. Len(front) : \/ \E i \in 1 .. Len(kept) : kept[i] = front[j]
                                    \/ max > 0 /\ Size(request) + BytesOf(front[j].words) > max
  PROVE  IsCutTo(system, front, question, request, max)
<1>1. /\ Last(request) = question /\ IsPrefix(system, request)
      /\ SubSeq(request, Len(system) + 1, Len(request) - 1) = kept
  <2> HIDE DEF AnyTurn
  <2> QED
    BY Parts
<1>2. IsPrefix(question.words, question.words)
  <2>1. Len(question.words) \in Nat
    BY DEF AnyTurn
  <2> QED
    BY <2>1 DEF IsPrefix
<1>3. DOMAIN kept = 1 .. Len(kept) /\ DOMAIN front = 1 .. Len(front)
  OBVIOUS
<1>4. \A j \in 1 .. Len(front) : Size(<<front[j]>>) = BytesOf(front[j].words)
  BY WordsHaveBytes, SizeOfOne
<1> HIDE DEF AnyTurn
<1>5. \E pos \in [DOMAIN kept -> DOMAIN front] :
        \A i, j \in DOMAIN kept : /\ kept[i] = front[pos[i]]
                                  /\ i < j => pos[i] < pos[j]
  BY <1>3
<1>6. \A i \in DOMAIN front : \/ Contains(kept, front[i])
                              \/ max > 0 /\ Size(request) + Size(<<front[i]>>) > max
  <2>1. ASSUME NEW i \in DOMAIN front
        PROVE  \/ Contains(kept, front[i])
               \/ max > 0 /\ Size(request) + Size(<<front[i]>>) > max
    <3>0. i \in 1 .. Len(front)
      BY <1>3
    <3>1. CASE \E j \in 1 .. Len(kept) : kept[j] = front[i]
      BY <3>1 DEF Contains
    <3>2. CASE max > 0 /\ Size(request) + BytesOf(front[i].words) > max
      BY <1>4, <3>0, <3>2
    <3> QED
      BY <3>0, <3>1, <3>2
  <2> QED
    BY <2>1
<1> QED
  BY <1>1, <1>2, <1>5, <1>6 DEF IsCutTo

\* A request that is nothing but the beginning of the question.
Beginning(t, room) == [t EXCEPT !.words = IF room < 1 THEN <<>> ELSE SubSeq(@, 1, room)]

IsBeginning(request, system, question, max) ==
  request = Append(system, Beginning(question, (max - Size(system)) \div RuneBytes))

\* Such a request is cut as it should: it has room for no more of the question.
LEMMA BeginningIsCut ==
  ASSUME NEW system \in Seq(AnyTurn), NEW front \in Seq(AnyTurn), NEW question \in AnyTurn,
         NEW max \in Nat \ {0}, Size(system) + BytesOf(question.words) > max,
         NEW request, IsBeginning(request, system, question, max)
  PROVE  IsCutTo(system, front, question, request, max)
<1> DEFINE room == (max - Size(system)) \div RuneBytes
           words == question.words
           rest == IF room < 1 THEN <<>> ELSE SubSeq(words, 1, room)
           cut == Beginning(question, room)
<1>1. words \in Seq(AnyWords) /\ Len(words) \in Nat
  BY DEF AnyTurn
<1>2. Size(system) \in Nat
  BY WordsHaveBytes, SizeOfBoth
<1>3. /\ room \in Int /\ RuneBytes * room <= max - Size(system)
      /\ RuneBytes * Len(words) > max - Size(system) => Len(words) > room
  <2>1. max - Size(system) \in Int
    BY <1>2
  <2> QED
    BY <1>1, <2>1, Runes
<1>4. Len(words) > room
  <2>1. RuneBytes * Len(words) \in Int
    BY <1>1, PromptAssumption
  <2> QED
    BY <1>2, <1>3, <2>1 DEF BytesOf
<1> HIDE DEF room
<1>5. rest \in Seq(AnyWords) /\ IsPrefix(rest, words) /\ Len(rest) = IF room < 1 THEN 0 ELSE room
  <2>1. CASE room < 1
    BY <1>1, <2>1 DEF IsPrefix
  <2>2. CASE ~(room < 1)
    <3>1. room \in 1 .. Len(words)
      BY <1>1, <1>3, <1>4, <2>2
    <3>2. rest = SubSeq(words, 1, room) /\ rest \in Seq(AnyWords) /\ Len(rest) = room
      BY <1>1, <2>2, <3>1
    <3>3. SubSeq(rest, 1, Len(rest)) = rest
      BY <3>2
    <3> QED
      BY <1>1, <2>2, <3>1, <3>2, <3>3 DEF IsPrefix
  <2> QED
    BY <2>1, <2>2
<1> HIDE DEF rest
<1>6. cut \in AnyTurn /\ cut.words = rest /\ cut.name = question.name
  BY <1>5 DEF AnyTurn, Beginning, rest
<1>7. request = Append(system, cut)
  BY DEF IsBeginning, room
<1> HIDE DEF cut, AnyTurn
<1>8. /\ Last(request) = cut /\ IsPrefix(system, request)
      /\ SubSeq(request, Len(system) + 1, Len(request) - 1) = <<>>
  <2>1. <<>> \in Seq(AnyTurn) /\ MadeOf(request, system, <<>>, cut)
    BY <1>6, <1>7, OneMore
  <2>2. PICK none \in Seq(AnyTurn) : none = <<>> /\ MadeOf(request, system, none, cut)
    BY <2>1
  <2>3. /\ Last(request) = cut /\ IsPrefix(system, request)
        /\ SubSeq(request, Len(system) + 1, Len(request) - 1) = none
    <3>1. cut \in AnyTurn
      BY <1>6
    <3>2. MadeOf(request, system, none, cut)
      BY <2>2
    <3> QED
      BY <3>1, <3>2, Parts
  <2> QED
    BY <2>2, <2>3
<1>9. Size(request) = Size(system) + BytesOf(rest)
  <2>1. <<cut>> \in Seq(AnyTurn) /\ request = system \o <<cut>>
    BY <1>6, <1>7, OneMore
  <2>2. Size(request) = Size(system) + Size(<<cut>>)
    BY <2>1, WordsHaveBytes, SizeOfBoth
  <2> QED
    BY <1>6, <2>2, WordsHaveBytes, SizeOfOne
<1>10. Size(request) <= max \/ Size(system) > max
  <2>1. CASE room < 1
    <3>1. BytesOf(rest) = 0
      BY <1>5, <2>1, PromptAssumption DEF BytesOf
    <3> QED
      BY <1>2, <1>9, <3>1
  <2>2. CASE ~(room < 1)
    <3>1. BytesOf(rest) = RuneBytes * room
      BY <1>5, <2>2 DEF BytesOf
    <3>2. RuneBytes * room \in Int
      BY <1>3, PromptAssumption
    <3> QED
      BY <1>2, <1>3, <1>9, <3>1, <3>2
  <2> QED
    BY <2>1, <2>2
<1>11. ASSUME rest = words
       PROVE  \A t \in AnyTurn : Size(request) + Size(<<t>>) > max
  <2>1. Len(words) = 0 /\ BytesOf(words) = 0
    BY <1>1, <1>3, <1>4, <1>5, <1>11, PromptAssumption DEF BytesOf
  <2>2. Size(request) > max
    BY <1>2, <1>9, <1>11, <2>1
  <2>3. \A t \in AnyTurn : Size(<<t>>) \in Nat
    BY WordsHaveBytes, SizeOfOne DEF HaveWords
  <2>4. Size(request) \in Nat
    BY <1>2, <1>9, <1>11, <2>1
  <2>5. ASSUME NEW t \in AnyTurn PROVE Size(request) + Size(<<t>>) > max
    <3>1. Size(<<t>>) \in Nat
      BY <2>3
    <3> QED
      BY <2>2, <2>4, <3>1
  <2> QED
    BY <2>5
<1>12. \A i \in DOMAIN front : front[i] \in AnyTurn
  OBVIOUS
<1>13. \E pos \in [DOMAIN <<>> -> DOMAIN front] :
        \A i, j \in DOMAIN <<>> : <<>>[i] = front[pos[i]] /\ (i < j => pos[i] < pos[j])
  <2>1. DOMAIN <<>> = {}
    OBVIOUS
  <2>2. [i \in {} |-> 0] \in [{} -> DOMAIN front]
    OBVIOUS
  <2> QED
    BY <2>1, <2>2
<1>14. \A i \in DOMAIN front : \/ Size(request) + Size(<<front[i]>>) > max
                               \/ Last(request).words # question.words
  BY <1>6, <1>8, <1>11, <1>12
<1>15. IsPrefix(Last(request).words, question.words) /\ Last(request).name = question.name
  BY <1>5, <1>6, <1>8
<1> DEFINE middle == SubSeq(request, Len(system) + 1, Len(request) - 1)
<1>16. \E pos \in [DOMAIN middle -> DOMAIN front] :
         \A i, j \in DOMAIN middle : /\ middle[i] = front[pos[i]]
                                     /\ i < j => pos[i] < pos[j]
  BY <1>8, <1>13
<1>17. \A i \in DOMAIN front : \/ max > 0 /\ Size(request) + Size(<<front[i]>>) > max
                               \/ Last(request).words # question.words
  BY <1>14
<1> QED
  BY <1>8, <1>10, <1>15, <1>16, <1>17 DEF IsCutTo

\* All of a sequence but its last element.
LEMMA FrontFacts ==
  ASSUME NEW S, NEW s \in Seq(S), Len(s) > 0
  PROVE  /\ Front(s) \in Seq(S) /\ Len(Front(s)) = Len(s) - 1 /\ s[Len(s)] \in S
         /\ \A i \in 1 .. Len(s) - 1 : Front(s)[i] = s[i]
<1> DEFINE n == Len(s) - 1
<1>1. Len(s) \in Nat /\ n \in Nat /\ n <= Len(s) /\ \A i \in 1 .. Len(s) : s[i] \in S
  OBVIOUS
<1>2. s[Len(s)] \in S
  BY <1>1
<1> HIDE DEF n
<1>3. \A i \in 1 .. n : i \in 1 .. Len(s)
  BY <1>1
<1>4. SubSeq(s, 1, n) \in Seq(S)
  BY <1>1, <1>3
<1>5. Len(SubSeq(s, 1, n)) = n /\ \A i \in 1 .. n : SubSeq(s, 1, n)[i] = s[i]
  BY <1>1
<1> QED
  BY <1>2, <1>4, <1>5 DEF Front, n

\* The turns of a conversation are turns of a request, none of them the system's.
LEMMA TurnsAreTurns ==
  ASSUME NEW turns \in Seq(Turns), Len(turns) > 0
  PROVE  /\ Front(turns) \in Seq(AnyTurn) /\ Last(turns) \in AnyTurn
         /\ turns = Front(turns) \o <<Last(turns)>>
         /\ Len(Front(turns)) = Len(turns) - 1
         /\ \A i \in 1 .. Len(turns) : turns[i].role # "system"
         /\ \A i \in 1 .. Len(turns) - 1 : Front(turns)[i] = turns[i]
<1> DEFINE N == Len(turns)
           front == SubSeq(turns, 1, N - 1)
           last == turns[N]
           t == front \o <<last>>
<1>1. Turns \subseteq AnyTurn
  <2> SUFFICES ASSUME NEW x \in Turns PROVE x \in AnyTurn
    OBVIOUS
  <2>1. x.words \in Seq(Words \cup {Break, Pause})
    BY DEF Turns
  <2>2. x.words \in Seq(AnyWords)
    BY <2>1 DEF AnyWords
  <2> QED
    BY <2>2 DEF Turns, AnyTurn
<1>2. \A i \in 1 .. N : turns[i] \in Turns /\ turns[i].role # "system"
  <2>1. \A x \in Turns : x.role # "system"
    BY DEF Turns
  <2> HIDE DEF Turns
  <2>2. \A i \in 1 .. N : turns[i] \in Turns
    OBVIOUS
  <2> QED
    BY <2>1, <2>2
<1> HIDE DEF Turns, AnyTurn
<1>3. N \in Nat /\ N > 0 /\ turns \in Seq(AnyTurn)
  BY <1>1
<1>4. /\ front \in Seq(AnyTurn) /\ Len(front) = N - 1 /\ last \in AnyTurn
      /\ \A i \in 1 .. N - 1 : front[i] = turns[i]
  BY <1>3, FrontFacts DEF Front
<1>5. t \in Seq(AnyTurn) /\ Len(t) = N /\ \A i \in 1 .. N : t[i] = turns[i]
  <2> HIDE DEF front
  <2>1. /\ t \in Seq(AnyTurn) /\ Len(t) = N - 1 + 1 /\ t[N] = last
        /\ \A i \in 1 .. N - 1 : t[i] = front[i]
    BY <1>3, <1>4
  <2>2. \A i \in 1 .. N : i = N \/ i \in 1 .. N - 1
    BY <1>3
  <2> HIDE DEF t
  <2> QED
    BY <1>3, <1>4, <2>1, <2>2
<1>6. t = turns
  <2> HIDE DEF t
  <2> QED
    BY <1>3, <1>5, SameSequence
<1> QED
  BY <1>2, <1>4, <1>6 DEF Front, Last

\* The system prompt is at most one turn.
LEMMA SystemType ==
  SystemTurn \in Seq(AnyTurn)
<1>1. CASE System = <<>>
  BY <1>1 DEF SystemTurn
<1>2. CASE System # <<>>
  <2>1. System \in Seq(AnyWords)
    <3>1. System \in Seq(Range(System))
      BY TalkAssumption
    <3>2. Range(System) \subseteq AnyWords
      BY DEF AnyWords
    <3> HIDE DEF AnyWords
    <3> QED
      BY <3>1, <3>2
  <2>2. Turn("system", NoName, System) \in AnyTurn
    BY <2>1 DEF Turn, AnyTurn
  <2> HIDE DEF AnyTurn
  <2> QED
    BY <1>2, <2>2 DEF SystemTurn
<1> QED
  BY <1>1, <1>2

\* What a request is made from.
LEMMA MessageParts ==
  ASSUME NEW turns \in Seq(Turns), Len(turns) > 0
  PROVE  LET messages == Messages(System, turns)
             front == Front(turns)
             last == Last(turns)
         IN  /\ MadeOf(messages, SystemTurn, front, last)
             /\ Last(messages) = last
             /\ SubSeq(messages, Len(SystemTurn) + 1, Len(messages) - 1) = front
             /\ SystemTurn = IF HasSystem(messages) THEN <<Head(messages)>> ELSE <<>>
<1> DEFINE messages == Messages(System, turns)
           front == Front(turns)
           last == Last(turns)
           prompt == Turn("system", NoName, System)
<1>1. /\ front \in Seq(AnyTurn) /\ last \in AnyTurn /\ turns = front \o <<last>>
      /\ \A i \in 1 .. Len(turns) : turns[i].role # "system"
  BY TurnsAreTurns
<1>2. turns \in Seq(AnyTurn) /\ turns # <<>> /\ Head(turns) = turns[1] /\ 1 \in 1 .. Len(turns)
  <2> HIDE DEF front, last, Turns, AnyTurn
  <2>1. turns \in Seq(AnyTurn)
    BY <1>1
  <2> QED
    BY <2>1
<1>3. SystemTurn \in Seq(AnyTurn)
  BY SystemType
<1> HIDE DEF front, last, Turns, AnyTurn
<1>4. MadeOf(messages, SystemTurn, front, last)
  <2>1. CASE System = <<>>
    <3>1. messages = turns /\ SystemTurn = <<>>
      BY <2>1 DEF Messages, SystemTurn
    <3>2. <<>> \o front = front
      BY <1>1
    <3> QED
      BY <1>1, <3>1, <3>2 DEF MadeOf
  <2>2. CASE System # <<>>
    <3>1. messages = SystemTurn \o turns
      BY <2>2 DEF Messages, SystemTurn
    <3>2. SystemTurn \o (front \o <<last>>) = (SystemTurn \o front) \o <<last>>
      <4> DEFINE a == SystemTurn \o (front \o <<last>>)
                 b == (SystemTurn \o front) \o <<last>>
      <4>1. a \in Seq(AnyTurn) /\ b \in Seq(AnyTurn) /\ Len(a) = Len(b)
            /\ \A i \in 1 .. Len(b) : a[i] = b[i]
        BY <1>1, <1>3
      <4> HIDE DEF a, b
      <4>2. a = b
        BY <4>1, SameSequence
      <4> QED
        BY <4>2 DEF a, b
    <3> QED
      BY <1>1, <3>1, <3>2 DEF MadeOf
  <2> QED
    BY <2>1, <2>2
<1>5. SystemTurn = IF HasSystem(messages) THEN <<Head(messages)>> ELSE <<>>
  <2>1. CASE System = <<>>
    <3>1. messages = turns /\ SystemTurn = <<>>
      BY <2>1 DEF Messages, SystemTurn
    <3>2. ~HasSystem(messages)
      BY <1>1, <1>2, <3>1 DEF HasSystem
    <3> QED
      BY <3>1, <3>2
  <2>2. CASE System # <<>>
    <3>1. messages = <<prompt>> \o turns /\ SystemTurn = <<prompt>>
      BY <2>2 DEF Messages, SystemTurn
    <3>2. prompt \in AnyTurn /\ prompt.role = "system"
      <4>1. prompt \in AnyTurn
        BY <1>3, <3>1
      <4> QED
        BY <4>1 DEF Turn
    <3>3. Head(messages) = prompt
      <4> HIDE DEF messages, prompt
      <4> QED
        BY <1>2, <3>1, <3>2
    <3> QED
      BY <3>1, <3>2, <3>3 DEF HasSystem
  <2> QED
    BY <2>1, <2>2
<1> HIDE DEF messages
<1>6. Last(messages) = last /\ SubSeq(messages, Len(SystemTurn) + 1, Len(messages) - 1) = front
  BY <1>1, <1>3, <1>4, Parts
<1> QED
  BY <1>4, <1>5, <1>6 DEF messages, front, last

\* trimMessages, whatever the conversation and the provider's size.
LEMMA TrimCuts ==
  ASSUME NEW turns \in Seq(Turns), Len(turns) > 0, NEW max \in Nat
  PROVE  IsCutTo(SystemTurn, Front(turns), Last(turns), Trim(Messages(System, turns), max), max)
<1> DEFINE messages == Messages(System, turns)
           front == Front(turns)
           last == Last(turns)
           system == SystemTurn
           used == Size(system \o <<last>>)
           request == Trim(messages, max)
<1>1. front \in Seq(AnyTurn) /\ last \in AnyTurn /\ system \in Seq(AnyTurn)
  BY TurnsAreTurns, SystemType
<1>2. /\ MadeOf(messages, system, front, last)
      /\ Last(messages) = last
      /\ SubSeq(messages, Len(system) + 1, Len(messages) - 1) = front
      /\ system = IF HasSystem(messages) THEN <<Head(messages)>> ELSE <<>>
  BY MessageParts
<1>3. request = IF max = 0 THEN messages
                ELSE IF used > max THEN CutLast(messages, max)
                ELSE system \o Keep(front, used, max) \o <<last>>
  <2> HIDE DEF messages, front, last, system
  <2> QED
    BY <1>2 DEF Trim
<1>4. CutLast(messages, max) = Append(system, Beginning(last, (max - Size(system)) \div RuneBytes))
  <2> HIDE DEF messages, front, last, system
  <2> QED
    BY <1>2 DEF CutLast, Beginning
<1> HIDE DEF messages, front, last, system, request, AnyTurn, Turns
<1>5. <<last>> \in Seq(AnyTurn)
  BY <1>1
<1>6. /\ Size(system) \in Nat /\ BytesOf(last.words) \in Nat /\ used \in Nat
      /\ used = Size(system) + BytesOf(last.words)
  <2>1. Size(<<last>>) = BytesOf(last.words) /\ BytesOf(last.words) \in Nat
    BY <1>1, WordsHaveBytes, SizeOfOne DEF HaveWords
  <2>2. Size(system) \in Nat /\ used = Size(system) + Size(<<last>>)
    BY <1>1, <1>5, WordsHaveBytes, SizeOfBoth
  <2> QED
    BY <2>1, <2>2
<1> HIDE DEF used
<1>7. CASE max = 0
  <2>1. MadeOf(request, system, front, last)
    BY <1>2, <1>3, <1>7
  <2>2. \E pos \in [1 .. Len(front) -> 1 .. Len(front)] :
          \A i, j \in 1 .. Len(front) : front[i] = front[pos[i]] /\ (i < j => pos[i] < pos[j])
    <3> DEFINE same == [i \in 1 .. Len(front) |-> i]
    <3>1. same \in [1 .. Len(front) -> 1 .. Len(front)] /\ \A i \in 1 .. Len(front) : same[i] = i
      OBVIOUS
    <3> HIDE DEF same
    <3> QED
      BY <3>1
  <2>3. max > 0 => Size(request) <= max
    BY <1>7
  <2>4. \A j \in 1 .. Len(front) :
          \/ \E i \in 1 .. Len(front) : front[i] = front[j]
          \/ max > 0 /\ Size(request) + BytesOf(front[j].words) > max
    OBVIOUS
  <2>5. IsCutTo(system, front, last, request, max)
    BY <1>1, <2>1, <2>2, <2>3, <2>4, KeptIsCut
  <2> QED
    BY <2>5 DEF system, front, last, request, messages
<1>8. CASE max # 0 /\ used > max
  <2>1. IsBeginning(request, system, last, max)
    BY <1>3, <1>4, <1>8 DEF IsBeginning
  <2>2. Size(system) + BytesOf(last.words) > max /\ max \in Nat \ {0}
    BY <1>6, <1>8
  <2>3. IsCutTo(system, front, last, request, max)
    BY <1>1, <2>1, <2>2, BeginningIsCut
  <2> QED
    BY <2>3 DEF system, front, last, request, messages
<1>9. CASE max # 0 /\ ~(used > max)
  <2> DEFINE kept == Keep(front, used, max)
             N == Len(front)
  <2>1. kept \in Seq(AnyTurn) /\ KeptOf(front, N, kept, used, max)
    BY <1>1, <1>6, <1>9, WordsHaveBytes, KeepFacts
  <2>2. request = (system \o kept) \o <<last>>
    BY <1>3, <1>9
  <2> HIDE DEF kept
  <2>3. MadeOf(request, system, kept, last)
    BY <2>2 DEF MadeOf
  <2>4. Size(request) = used + Size(kept) /\ Size(kept) \in Nat
    <3>1. system \o kept \in Seq(AnyTurn)
      BY <1>1, <2>1
    <3>2. Size(request) = Size(system \o kept) + Size(<<last>>)
      BY <1>5, <2>2, <3>1, WordsHaveBytes, SizeOfBoth
    <3>3. Size(system \o kept) = Size(system) + Size(kept) /\ Size(kept) \in Nat
      BY <1>1, <2>1, WordsHaveBytes, SizeOfBoth
    <3>4. Size(<<last>>) = BytesOf(last.words)
      BY <1>1, WordsHaveBytes, SizeOfOne
    <3> QED
      BY <1>6, <3>2, <3>3, <3>4
  <2>5. N \in Nat /\ N + 1 - N = 1
    BY <1>1
  <2> HIDE DEF N
  <2>6. /\ used + Size(kept) <= max
        /\ \E pos \in [1 .. Len(kept) -> 1 .. N] :
             \A i, j \in 1 .. Len(kept) : kept[i] = front[pos[i]] /\ (i < j => pos[i] < pos[j])
        /\ \A j \in 1 .. N : \/ \E i \in 1 .. Len(kept) : kept[i] = front[j]
                             \/ used + Size(kept) + BytesOf(front[j].words) > max
    <3>1. N = Len(front)
      BY DEF N
    <3> QED
      BY <2>1, <2>5, <3>1 DEF KeptOf
  <2>7. max > 0 => Size(request) <= max
    BY <2>4, <2>6
  <2>8. ASSUME NEW j \in 1 .. N
        PROVE  \/ \E i \in 1 .. Len(kept) : kept[i] = front[j]
               \/ max > 0 /\ Size(request) + BytesOf(front[j].words) > max
    <3>1. max > 0
      BY <1>9
    <3> QED
      BY <2>4, <2>6, <3>1
  <2>9. IsCutTo(system, front, last, request, max)
    BY <1>1, <2>1, <2>3, <2>6, <2>7, <2>8, KeptIsCut DEF N
  <2> QED
    BY <2>9 DEF system, front, last, request, messages
<1> QED
  BY <1>7, <1>8, <1>9

\* Numbers up to n that increase n times leave none out.
LEMMA NoneLeftOut ==
  ASSUME NEW n \in Nat, NEW pos \in [1 .. n -> 1 .. n], \A i, j \in 1 .. n : i < j => pos[i] < pos[j]
  PROVE  \A i \in 1 .. n : pos[i] = i
<1> DEFINE D == {i \in Nat : i \in 1 .. n => pos[i] >= i}
           E == {k \in Nat : k < n => pos[n - k] <= n - k}
<1>1. \A i \in 0 .. n : i \in D
  <2>1. 0 \in D
    OBVIOUS
  <2>2. ASSUME NEW i \in 0 .. n - 1, i \in D
        PROVE  i + 1 \in D
    <3>1. CASE i = 0
      <4>1. 1 \in 1 .. n => pos[1] \in 1 .. n
        OBVIOUS
      <4> QED
        BY <3>1, <4>1
    <3>2. CASE i # 0
      <4>1. i \in 1 .. n /\ i + 1 \in 1 .. n /\ i < i + 1
        BY <3>2
      <4>2. pos[i] >= i /\ pos[i] < pos[i + 1] /\ pos[i] \in 1 .. n /\ pos[i + 1] \in 1 .. n
        BY <2>2, <4>1
      <4> QED
        BY <4>1, <4>2
    <3> QED
      BY <3>1, <3>2
  <2> HIDE DEF D
  <2> QED
    BY <2>1, <2>2, CountUp
<1>2. \A k \in 0 .. n : k \in E
  <2>1. 0 \in E
    <3>1. n \in 1 .. n => pos[n] \in 1 .. n
      OBVIOUS
    <3>2. 0 < n => n \in 1 .. n /\ n - 0 = n
      OBVIOUS
    <3> QED
      BY <3>1, <3>2
  <2>2. ASSUME NEW k \in 0 .. n - 1, k \in E
        PROVE  k + 1 \in E
    <3>1. SUFFICES ASSUME k + 1 < n PROVE pos[n - (k + 1)] <= n - (k + 1)
      OBVIOUS
    <3> DEFINE i == n - (k + 1)
    <3>2. i \in 1 .. n /\ i + 1 \in 1 .. n /\ i < i + 1 /\ n - k = i + 1
      BY <3>1
    <3>3. pos[n - k] <= n - k
      BY <2>2, <3>1
    <3> HIDE DEF i
    <3>4. pos[i] < pos[i + 1] /\ pos[i + 1] <= i + 1 /\ pos[i] \in 1 .. n /\ pos[i + 1] \in 1 .. n
      BY <3>2, <3>3
    <3> QED
      BY <3>2, <3>4 DEF i
  <2> HIDE DEF E
  <2> QED
    BY <2>1, <2>2, CountUp
<1>3. ASSUME NEW i \in 1 .. n
      PROVE  pos[i] = i
  <2>1. i \in 0 .. n /\ n - i \in 0 .. n /\ n - i < n /\ n - (n - i) = i /\ pos[i] \in 1 .. n
    OBVIOUS
  <2>2. i \in D /\ n - i \in E
    <3> HIDE DEF D, E
    <3> QED
      BY <1>1, <1>2, <2>1
  <2> QED
    BY <2>1, <2>2
<1> QED
  BY <1>3

SameRoles(turns, others) ==
  Len(turns) = Len(others) /\ \A i \in 1 .. Len(turns) : turns[i].role = others[i].role

\* A cut that leaves out no turn leaves every turn its role and its place.
LEMMA CutKeepsRoles ==
  ASSUME NEW turns \in Seq(Turns), Len(turns) > 0, NEW max \in Nat,
         Len(Trim(Messages(System, turns), max)) = Len(Messages(System, turns))
  PROVE  SameRoles(Trim(Messages(System, turns), max), Messages(System, turns))
<1> DEFINE messages == Messages(System, turns)
           front == Front(turns)
           last == Last(turns)
           system == SystemTurn
           used == Size(system \o <<last>>)
           request == Trim(messages, max)
<1>1. front \in Seq(AnyTurn) /\ last \in AnyTurn /\ system \in Seq(AnyTurn)
  BY TurnsAreTurns, SystemType
<1>2. /\ MadeOf(messages, system, front, last)
      /\ Last(messages) = last
      /\ SubSeq(messages, Len(system) + 1, Len(messages) - 1) = front
      /\ system = IF HasSystem(messages) THEN <<Head(messages)>> ELSE <<>>
  BY MessageParts
<1>3. request = IF max = 0 THEN messages
                ELSE IF used > max THEN CutLast(messages, max)
                ELSE system \o Keep(front, used, max) \o <<last>>
  <2> HIDE DEF messages, front, last, system
  <2> QED
    BY <1>2 DEF Trim
<1>4. CutLast(messages, max) = Append(system, Beginning(last, (max - Size(system)) \div RuneBytes))
  <2> HIDE DEF messages, front, last, system
  <2> QED
    BY <1>2 DEF CutLast, Beginning
<1>0. Len(request) = Len(messages)
  OBVIOUS
<1> HIDE DEF messages, front, last, system, request, AnyTurn, Turns
<1>5. <<last>> \in Seq(AnyTurn)
  BY <1>1
<1>6. used \in Nat
  <2>1. Size(<<last>>) = BytesOf(last.words) /\ BytesOf(last.words) \in Nat
    BY <1>1, WordsHaveBytes, SizeOfOne DEF HaveWords
  <2>2. Size(system) \in Nat /\ used = Size(system) + Size(<<last>>)
    BY <1>1, <1>5, WordsHaveBytes, SizeOfBoth
  <2> QED
    BY <2>1, <2>2
<1> HIDE DEF used
<1>7. CASE max = 0
  BY <1>3, <1>7 DEF SameRoles, request, messages
<1>8. CASE max # 0 /\ used > max
  <2> DEFINE begun == Beginning(last, (max - Size(system)) \div RuneBytes)
  <2>1. begun.role = last.role
    BY <1>1 DEF Beginning, AnyTurn
  <2>2. request = Append(system, begun)
    BY <1>3, <1>4, <1>8
  <2> HIDE DEF begun
  <2>3. /\ Len(request) = Len(system) + 1 /\ request[Len(system) + 1] = begun
        /\ \A i \in 1 .. Len(system) : request[i] = system[i]
    BY <1>1, <2>2
  <2>4. Len(messages) = Len(system) + Len(front) + 1 /\ Len(front) \in Nat /\ Len(system) \in Nat
    <3>1. MadeOf(messages, system, front, last)
      BY <1>2
    <3>2. Len(messages) = Len(system) + Len(front) + 1
      BY <1>1, <3>1, Parts
    <3>3. Len(front) \in Nat /\ Len(system) \in Nat
      BY <1>1
    <3> QED
      BY <3>2, <3>3
  <2>5. Len(front) = 0 /\ front = <<>>
    <3>2. Len(request) = Len(system) + 1 /\ Len(messages) = Len(system) + Len(front) + 1
      BY <2>3, <2>4
    <3>3. Len(system) + Len(front) + 1 = Len(system) + 1
      BY <1>0, <3>2
    <3>4. Len(front) \in Nat /\ Len(system) \in Nat
      BY <2>4
    <3>1. Len(front) = 0
      BY <3>3, <3>4
    <3> QED
      BY <1>1, <3>1
  <2>6. /\ messages[Len(system) + 1] = last
        /\ \A i \in 1 .. Len(system) : messages[i] = system[i]
    BY <1>1, <1>2, <2>5 DEF MadeOf
  <2>7. \A i \in 1 .. Len(request) : i = Len(system) + 1 \/ i \in 1 .. Len(system)
    BY <2>3, <2>4
  <2> QED
    BY <1>0, <2>1, <2>3, <2>6, <2>7 DEF SameRoles, request, messages
<1>9. CASE max # 0 /\ ~(used > max)
  <2> DEFINE kept == Keep(front, used, max)
             N == Len(front)
  <2>1. kept \in Seq(AnyTurn) /\ KeptOf(front, N, kept, used, max)
    <3>1. used <= max
      BY <1>6, <1>9
    <3>2. HaveWords(AnyTurn)
      BY WordsHaveBytes
    <3> QED
      BY <1>1, <1>6, <3>1, <3>2, KeepFacts
  <2>2. request = (system \o kept) \o <<last>>
    BY <1>3, <1>9
  <2> HIDE DEF kept
  <2>3. MadeOf(request, system, kept, last)
    BY <2>2 DEF MadeOf
  <2>4. Len(kept) = N /\ N \in Nat
    <3>0. MadeOf(messages, system, front, last)
      BY <1>2
    <3>3. Len(messages) = Len(system) + N + 1
      BY <1>1, <3>0, Parts
    <3>4. Len(request) = Len(system) + Len(kept) + 1
      BY <1>1, <2>1, <2>3, Parts
    <3>1. Len(messages) = Len(system) + N + 1 /\ Len(request) = Len(system) + Len(kept) + 1
      BY <3>3, <3>4
    <3>2. Len(kept) \in Nat /\ N \in Nat /\ Len(system) \in Nat
      BY <1>1, <2>1
    <3> HIDE DEF N
    <3> QED
      BY <1>0, <3>1, <3>2
  <2>5. \E pos \in [1 .. N -> 1 .. N] :
          \A i, j \in 1 .. N : kept[i] = front[pos[i]] /\ (i < j => pos[i] < pos[j])
    <3>1. N = Len(front) /\ N + 1 - N = 1
      BY <2>4 DEF N
    <3> HIDE DEF N
    <3> QED
      BY <2>1, <2>4, <3>1 DEF KeptOf
  <2>6. PICK pos \in [1 .. N -> 1 .. N] :
          \A i, j \in 1 .. N : kept[i] = front[pos[i]] /\ (i < j => pos[i] < pos[j])
    BY <2>5
  <2>7. N = Len(front)
    BY DEF N
  <2> HIDE DEF N
  <2>8. \A i \in 1 .. N : pos[i] = i
    BY <2>4, <2>6, NoneLeftOut
  <2>9. kept = front
    BY <1>1, <2>1, <2>4, <2>6, <2>7, <2>8, SameSequence
  <2>10. request = messages
    BY <1>2, <2>2, <2>9 DEF MadeOf
  <2> QED
    BY <2>10 DEF SameRoles, request, messages
<1> QED
  BY <1>7, <1>8, <1>9

\* The system prompt before a conversation that alternates leaves it alternating.
LEMMA MessagesAlternate ==
  ASSUME NEW turns \in Seq(Turns), Len(turns) > 0, Alternates(turns)
  PROVE  Alternates(Messages(System, turns)) /\ Len(Messages(System, turns)) \in Nat
<1> DEFINE prompt == Turn("system", NoName, System)
           messages == Messages(System, turns)
           N == Len(turns)
<1>1. N \in Nat /\ \A i \in 1 .. N : turns[i].role # "system"
  <2>1. N \in Nat
    OBVIOUS
  <2>2. ASSUME NEW i \in 1 .. N
        PROVE  turns[i].role # "system"
    <3>1. turns[i] \in Turns
      OBVIOUS
    <3> QED
      BY <3>1 DEF Turns
  <2> QED
    BY <2>1, <2>2
<1>2. CASE System = <<>>
  BY <1>1, <1>2 DEF Messages
<1>3. CASE System # <<>>
  <2>1. messages = <<prompt>> \o turns /\ prompt.role = "system"
    BY <1>3 DEF Messages, Turn
  <2> HIDE DEF messages, prompt, Turns
  <2>2. Len(messages) = N + 1 /\ messages[1] = prompt /\ \A i \in 2 .. N + 1 : messages[i] = turns[i - 1]
    BY <1>1, <2>1
  <2>3. ASSUME NEW i \in 2 .. N + 1
        PROVE  messages[i].role # messages[i - 1].role
    <3>1. CASE i = 2
      <4>1. messages[2] = turns[1] /\ 1 \in 1 .. N /\ i - 1 = 1
        BY <1>1, <2>2, <3>1
      <4> QED
        BY <1>1, <2>1, <2>2, <3>1, <4>1
    <3>2. CASE i # 2
      <4>1. i - 1 \in 2 .. N /\ i - 1 \in 2 .. N + 1
        BY <1>1, <3>2
      <4>2. messages[i] = turns[i - 1] /\ messages[i - 1] = turns[(i - 1) - 1]
        BY <2>2, <4>1
      <4> QED
        BY <4>1, <4>2 DEF Alternates
    <3> QED
      BY <3>1, <3>2
  <2> QED
    BY <1>1, <2>2, <2>3 DEF Alternates, messages
<1> QED
  BY <1>2, <1>3

\* Before the cut the conversation a model is asked with alternates between people
\* and the assistant and ends with the question, in the name of who asked: whatever
\* was stored before it, by whom, and whether the question itself was stored by then
\* (buildNeuralHistory).  The request that is sent alternates for every history and
\* size for which the cut takes no turn from it (trimMessages); for the others "so
\* strict chat templates accept the payload" (generator.go) does not follow.
THEOREM ConversationsAlternate ==
  Spec => []TalkInv
<1>1. TypeInv => ConversationAlternates
  <2> SUFFICES ASSUME TypeInv, NEW u \in Updates, handler[u].at = "ask"
               PROVE  /\ Last(Conversation(u)) = Turn("user", said[u].user, Spoken(u))
                      /\ Alternates(Conversation(u))
                      /\ Len(Request(u)) = Len(Payload(u)) => Alternates(Request(u))
    BY DEF ConversationAlternates
  <2> DEFINE question == Turn("user", said[u].user, Spoken(u))
             turns == Conversation(u)
             max == ContextSizes[handler[u].provider]
  <2>1. handler[u].rows \in Seq(Row)
    <3>1. handler[u] \in Handler
      BY DEF TypeInv, HandlersOK
    <3> HIDE DEF Row
    <3> QED
      BY <3>1 DEF Handler
  <2>2. said[u].user \in Users \cup Bots
    BY TalkAssumption DEF TypeInv, SaidOK
  <2>3. Spoken(u) \in Seq(Words)
    BY TypeInvImplies, WordsType
  <2>4. EndsWith(turns, question)
    BY <2>1, <2>2, <2>3, HistoryAlternates DEF Conversation
  <2>5. question.role = "user"
    BY DEF Turn
  <2>6. max \in Nat
    <3>1. handler[u].provider \in DOMAIN ContextSizes
      BY DEF TypeInv, HandlersOK, Sound, Fits
    <3> QED
      BY <3>1, TalkAssumption
  <2>7. turns \in Seq(Turns) /\ Len(turns) > 0 /\ Alternates(turns)
    BY <2>4 DEF EndsWith
  <2>8. Payload(u) = Messages(System, turns) /\ Request(u) = Trim(Messages(System, turns), max)
    BY DEF Payload, Request
  <2>9. Last(turns) = question
    BY <2>4, <2>5 DEF EndsWith, Last
  <2> HIDE DEF turns, max, question, Turns
  <2>10. ASSUME Len(Request(u)) = Len(Payload(u))
         PROVE  Alternates(Request(u))
    <3>1. SameRoles(Request(u), Payload(u))
      BY <2>6, <2>7, <2>8, <2>10, CutKeepsRoles
    <3>2. Alternates(Payload(u)) /\ Len(Payload(u)) \in Nat
      BY <2>7, <2>8, MessagesAlternate
    <3>3. \A i \in 2 .. Len(Request(u)) : i \in 1 .. Len(Request(u)) /\ i - 1 \in 1 .. Len(Request(u))
      BY <3>1, <3>2 DEF SameRoles
    <3> QED
      BY <3>1, <3>2, <3>3 DEF SameRoles, Alternates
  <2> QED
    BY <2>7, <2>9, <2>10 DEF turns, question
<1> QED
  BY <1>1, TypesHold, TypeInvImplies, PTL DEF TalkInv

\* Every request that goes to a provider holds the system prompt, then turns of the
\* conversation in their order, then the question or its beginning; it fits the
\* provider's size unless the system prompt alone does not, and no turn was dropped
\* that would have fit: for every history, every size and every chain (trimMessages,
\* truncateMessageBudget).
THEOREM RequestsFit ==
  Spec => []RequestFits
<1>1. TypeInv => RequestFits
  <2> SUFFICES ASSUME TypeInv PROVE RequestFits
    OBVIOUS
  <2>1. ASSUME NEW u \in Updates, handler[u].at = "ask"
        PROVE  LET max == ContextSizes[handler[u].provider]
                   front == Front(Conversation(u))
                   last == Last(Conversation(u))
               IN  /\ IsCutTo(SystemTurn, front, last, Request(u), max)
                   /\ last.words = Spoken(u) /\ last.name = said[u].user
                   /\ \A i \in DOMAIN front : front[i] = Conversation(u)[i]
    <3> DEFINE turns == Conversation(u)
               max == ContextSizes[handler[u].provider]
               question == Turn("user", said[u].user, Spoken(u))
    <3>1. handler[u].rows \in Seq(Row)
      <4>1. handler[u] \in Handler
        BY DEF TypeInv, HandlersOK
      <4> HIDE DEF Row
      <4> QED
        BY <4>1 DEF Handler
    <3>2. said[u].user \in Users \cup Bots
      BY TalkAssumption DEF TypeInv, SaidOK
    <3>3. Spoken(u) \in Seq(Words)
      BY TypeInvImplies, WordsType
    <3>4. EndsWith(turns, question)
      BY <3>1, <3>2, <3>3, HistoryAlternates DEF Conversation
    <3>5. question.role = "user" /\ question.words = Spoken(u) /\ question.name = said[u].user
      BY DEF Turn
    <3>6. turns \in Seq(Turns) /\ Len(turns) > 0 /\ Last(turns) = question
      BY <3>4, <3>5 DEF EndsWith, Last
    <3>7. max \in Nat
      <4>1. handler[u].provider \in DOMAIN ContextSizes
        BY <2>1 DEF TypeInv, HandlersOK, Sound, Fits
      <4> QED
        BY <4>1, TalkAssumption
    <3> HIDE DEF turns, max, question, Turns
    <3>8. IsCutTo(SystemTurn, Front(turns), Last(turns), Trim(Messages(System, turns), max), max)
      BY <3>6, <3>7, TrimCuts
    <3>9. Request(u) = Trim(Messages(System, turns), max)
      BY DEF Request, Payload, turns, max
    <3>10. \A i \in DOMAIN Front(turns) : Front(turns)[i] = turns[i]
      <4>1. /\ Front(turns) \in Seq(AnyTurn) /\ Len(Front(turns)) = Len(turns) - 1
            /\ \A i \in 1 .. Len(turns) - 1 : Front(turns)[i] = turns[i]
        BY <3>6, TurnsAreTurns
      <4>2. DOMAIN Front(turns) = 1 .. Len(turns) - 1
        <5> DEFINE f == Front(turns)
        <5>1. f \in Seq(AnyTurn) /\ Len(f) = Len(turns) - 1
          BY <4>1
        <5> HIDE DEF f
        <5>2. DOMAIN f = 1 .. Len(turns) - 1
          BY <5>1
        <5> QED
          BY <5>2 DEF f
      <4> QED
        BY <4>1, <4>2
    <3> QED
      BY <3>5, <3>6, <3>8, <3>9, <3>10 DEF turns, max
  <2>2. ASSUME NEW u \in Updates, handler[u].at = "ask"
        PROVE  IsFitted(u)
    <3> DEFINE max == ContextSizes[handler[u].provider]
               turns == Conversation(u)
               request == Request(u)
               middle == SubSeq(request, Len(SystemTurn) + 1, Len(request) - 1)
    <3>1. /\ IsCutTo(SystemTurn, Front(turns), Last(turns), request, max)
          /\ Last(turns).words = Spoken(u) /\ Last(turns).name = said[u].user
          /\ \A i \in DOMAIN Front(turns) : Front(turns)[i] = turns[i]
      BY <2>1, <2>2
    <3> HIDE DEF max, turns, request
    <3>2. /\ IsPrefix(SystemTurn, request)
          /\ IsPrefix(Last(request).words, Spoken(u)) /\ Last(request).name = said[u].user
          /\ max > 0 => Size(request) <= max \/ Size(SystemTurn) > max
      BY <3>1 DEF IsCutTo
    <3>3. \E pos \in [DOMAIN middle -> DOMAIN Front(turns)] :
            \A i, j \in DOMAIN middle : /\ middle[i] = turns[pos[i]]
                                        /\ i < j => pos[i] < pos[j]
      <4>1. PICK pos \in [DOMAIN middle -> DOMAIN Front(turns)] :
              \A i, j \in DOMAIN middle : /\ middle[i] = Front(turns)[pos[i]]
                                          /\ i < j => pos[i] < pos[j]
        BY <3>1 DEF IsCutTo
      <4> HIDE DEF middle
      <4>2. \A i \in DOMAIN middle : middle[i] = turns[pos[i]]
        BY <3>1, <4>1
      <4> QED
        BY <4>1, <4>2
    <3>4. \A i \in DOMAIN Front(turns) : \/ Contains(middle, turns[i])
                                         \/ max > 0 /\ Size(request) + Size(<<turns[i]>>) > max
                                         \/ Last(request).words # Spoken(u)
      <4>1. \A i \in DOMAIN Front(turns) :
              \/ Contains(middle, Front(turns)[i])
              \/ max > 0 /\ Size(request) + Size(<<Front(turns)[i]>>) > max
              \/ Last(request).words # Last(turns).words
        BY <3>1 DEF IsCutTo
      <4> HIDE DEF middle
      <4>2. ASSUME NEW i \in DOMAIN Front(turns)
            PROVE  \/ Contains(middle, turns[i])
                   \/ max > 0 /\ Size(request) + Size(<<turns[i]>>) > max
                   \/ Last(request).words # Spoken(u)
        <5>1. Front(turns)[i] = turns[i] /\ Last(turns).words = Spoken(u)
          BY <3>1
        <5> QED
          BY <4>1, <5>1
      <4> QED
        BY <4>2
    <3> QED
      BY <3>2, <3>3, <3>4 DEF IsFitted, SystemTurn, max, turns, request
  <2> QED
    BY <2>2 DEF RequestFits, IsFitted
<1> QED
  BY <1>1, TypesHold, PTL

-----------------------------------------------------------------------------
(* How often a turn is in a conversation *)

\* Where the turn q is among the turns.
Places(turns, q) == {i \in DOMAIN turns : turns[i] = q}

\* How often it is among them.
Copies(turns, q) == Cardinality(Places(turns, q))

OneIf(condition) == IF condition THEN 1 ELSE 0

LEMMA PlacesAreFinite ==
  ASSUME NEW S, NEW turns \in Seq(S), NEW q
  PROVE  IsFiniteSet(Places(turns, q)) /\ Copies(turns, q) \in Nat
<1>1. Len(turns) \in Nat /\ DOMAIN turns = 1 .. Len(turns)
  OBVIOUS
<1>2. IsFiniteSet(1 .. Len(turns))
  BY <1>1, FS_Interval
<1>3. Places(turns, q) \in SUBSET (1 .. Len(turns))
  BY <1>1 DEF Places
<1>4. IsFiniteSet(Places(turns, q))
  BY <1>2, <1>3, FS_Subset
<1> QED
  BY <1>4, FS_CardinalityType DEF Copies

\* One turn more is one copy more, or none.
LEMMA CopiesInLonger ==
  ASSUME NEW S, NEW turns \in Seq(S), NEW t \in S, NEW q
  PROVE  Copies(Append(turns, t), q) = Copies(turns, q) + OneIf(t = q)
<1> DEFINE L == Len(turns)
           longer == Append(turns, t)
<1>1. L \in Nat /\ DOMAIN turns = 1 .. L /\ L + 1 \notin 1 .. L
  OBVIOUS
<1>2. /\ longer \in Seq(S) /\ Len(longer) = L + 1 /\ longer[L + 1] = t
      /\ \A i \in 1 .. L : longer[i] = turns[i]
  BY AppendFacts
<1>3. DOMAIN longer = (1 .. L) \cup {L + 1}
  <2>1. DOMAIN longer = 1 .. L + 1
    BY <1>2
  <2> HIDE DEF longer, L
  <2> QED
    BY <1>1, <2>1
<1>4. IsFiniteSet(Places(turns, q)) /\ Copies(turns, q) \in Nat
  BY PlacesAreFinite
<1> HIDE DEF longer, L
<1>5. CASE t = q
  <2>1. Places(longer, q) = Places(turns, q) \cup {L + 1}
    BY <1>1, <1>2, <1>3, <1>5 DEF Places
  <2>2. L + 1 \notin Places(turns, q)
    BY <1>1 DEF Places
  <2>3. Cardinality(Places(longer, q)) = Cardinality(Places(turns, q)) + 1
    BY <1>4, <2>1, <2>2, FS_AddElement
  <2> QED
    BY <1>5, <2>3 DEF Copies, OneIf, longer
<1>6. CASE t # q
  <2>1. Places(longer, q) = Places(turns, q)
    BY <1>1, <1>2, <1>3, <1>6 DEF Places
  <2> QED
    BY <1>4, <1>6, <2>1 DEF Copies, OneIf, longer
<1> QED
  BY <1>5, <1>6

\* What keeps people's turns apart, and what joins the assistant's, adds no copy of
\* a person's turn.
LEMMA CopiesInJoined ==
  ASSUME NEW out \in Seq(Turns), NEW t \in Turns, NEW q, q.role = "user"
  PROVE  Copies(Joined(out, t), q) <= Copies(out, q) + OneIf(t = q)
<1> DEFINE L == Len(out)
           pause == Turn("assistant", NoName, <<Pause>>)
           longer == Merged(out[L], t)
<1>1. L \in Nat /\ (out = <<>> <=> L = 0) /\ Last(out) = out[L] /\ DOMAIN out = 1 .. L
  BY DEF Last
<1>2. pause \in Turns /\ pause # q
  <2>1. <<Pause>> \in Seq(Words \cup {Break, Pause})
    OBVIOUS
  <2>2. pause.role = "assistant"
    BY DEF Turn
  <2> QED
    BY <2>1, <2>2 DEF Turn, Turns
<1>3. Copies(out, q) \in Nat /\ OneIf(t = q) \in Nat
  BY PlacesAreFinite DEF OneIf
<1> HIDE DEF pause
<1>4. CASE out = <<>> \/ Last(out).role # t.role
  <2>1. Joined(out, t) = Append(out, t)
    BY <1>4 DEF Joined
  <2>2. Copies(Append(out, t), q) = Copies(out, q) + OneIf(t = q)
    BY CopiesInLonger
  <2> QED
    BY <1>3, <2>1, <2>2
<1>5. CASE out # <<>> /\ Last(out).role = t.role /\ t.role = "user"
  <2>1. Joined(out, t) = out \o <<pause, t>>
    BY <1>5 DEF Joined, pause
  <2> DEFINE parted == Append(out, pause)
  <2>2. out \o <<pause, t>> = Append(parted, t)
    BY <1>2
  <2>3. parted \in Seq(Turns) /\ Copies(parted, q) \in Nat
    BY <1>2, AppendFacts, PlacesAreFinite
  <2>4. Copies(parted, q) = Copies(out, q) + OneIf(pause = q)
    BY <1>2, CopiesInLonger
  <2> HIDE DEF parted
  <2>5. Copies(Append(parted, t), q) = Copies(parted, q) + OneIf(t = q)
    BY <2>3, CopiesInLonger
  <2>6. OneIf(pause = q) = 0
    BY <1>2 DEF OneIf
  <2>7. Copies(Joined(out, t), q) = Copies(parted, q) + OneIf(t = q)
    BY <2>1, <2>2, <2>5
  <2> QED
    BY <1>3, <2>3, <2>4, <2>6, <2>7
<1>6. CASE out # <<>> /\ Last(out).role = t.role /\ t.role # "user"
  <2> DEFINE joined == Append(Front(out), longer)
  <2>1. Joined(out, t) = joined
    BY <1>1, <1>6 DEF Joined
  <2>2. L \in 1 .. L /\ L - 1 \in Nat
    BY <1>1, <1>6
  <2>3. out[L] \in Turns /\ out[L].role # "user" /\ out[L] # q
    <3>1. out[L] \in Turns
      BY <1>1, <2>2
    <3> QED
      BY <1>1, <1>6, <3>1
  <2>4. longer.role = out[L].role /\ longer # q
    <3>1. longer.role = out[L].role
      BY <2>3 DEF Merged, Turns
    <3> QED
      BY <2>3, <3>1
  <2>5. Front(out) \in Seq(Turns) /\ Len(Front(out)) = L - 1 /\ \A i \in 1 .. L - 1 : Front(out)[i] = out[i]
    <3>1. Len(out) > 0
      BY <1>1, <2>2
    <3> HIDE DEF longer
    <3> QED
      BY <3>1, FrontFacts
  <2>6. DOMAIN joined = 1 .. L /\ joined[L] = longer /\ \A i \in 1 .. L - 1 : joined[i] = out[i]
    <3> DEFINE front == Front(out)
    <3>1. front \in Seq(Turns) /\ Len(front) = L - 1
      BY <2>5
    <3> HIDE DEF front, longer, L
    <3>2. DOMAIN Append(front, longer) = 1 .. (L - 1) + 1 /\ Append(front, longer)[(L - 1) + 1] = longer
          /\ \A i \in 1 .. L - 1 : Append(front, longer)[i] = front[i]
      BY <3>1
    <3>3. (L - 1) + 1 = L
      BY <1>1
    <3> QED
      BY <2>5, <3>2, <3>3 DEF front
  <2> HIDE DEF joined, longer
  <2>7. Places(joined, q) = Places(out, q)
    <3>1. ASSUME NEW i \in 1 .. L
          PROVE  joined[i] = q <=> out[i] = q
      <4> HIDE DEF L
      <4>1. CASE i = L
        BY <2>3, <2>4, <2>6, <4>1
      <4>2. CASE i # L
        <5>1. i \in 1 .. L - 1
          BY <1>1, <4>2
        <5> QED
          BY <2>6, <5>1
      <4> QED
        BY <4>1, <4>2
    <3> HIDE DEF L
    <3> QED
      BY <1>1, <2>6, <3>1 DEF Places
  <2> QED
    BY <1>3, <2>1, <2>7 DEF Copies
<1> QED
  BY <1>4, <1>5, <1>6

\* normalizeRoleAlternation adds no copy of a person's turn.
LEMMA CopiesInAlternate ==
  ASSUME NEW turns \in Seq(Turns), NEW q, q.role = "user"
  PROVE  Copies(Alternate(turns), q) <= Copies(turns, q)
<1> DEFINE N == Len(turns)
           S == {s \in Seq(Turns) : Alternates(s)}
           first(n) == SubSeq(turns, 1, n)
<1>1. N \in Nat /\ \A i \in 1 .. N : turns[i] \in Turns
  OBVIOUS
<1>2. PICK c : /\ c[0] = <<>> /\ Alternate(turns) = c[N]
               /\ \A i \in 1 .. N : c[i] = Joined(c[i - 1], turns[i])
  <2> HIDE DEF Turns
  <2> QED
    BY AlternateSteps
<1>3. \A n \in 0 .. N : first(n) \in Seq(Turns) /\ Copies(first(n), q) \in Nat
  <2>1. ASSUME NEW n \in 0 .. N
        PROVE  first(n) \in Seq(Turns)
    <3> HIDE DEF Turns
    <3> QED
      BY <1>1
  <2> HIDE DEF first, N
  <2> QED
    BY <2>1, PlacesAreFinite
<1>4. \A n \in 0 .. N - 1 : first(n + 1) = Append(first(n), turns[n + 1])
  <2> HIDE DEF Turns
  <2> QED
    BY <1>1
<1>5. first(N) = turns
  <2> HIDE DEF Turns
  <2> QED
    BY <1>1
<1> HIDE DEF first
<1> DEFINE D == {n \in Nat : n <= N => c[n] \in S /\ Copies(c[n], q) <= Copies(first(n), q)}
<1>6. 0 \in D
  <2>1. <<>> \in Seq(Turns) /\ Len(<<>>) = 0 /\ DOMAIN <<>> = {}
    OBVIOUS
  <2>2. c[0] \in S
    BY <1>2, <2>1 DEF Alternates
  <2>3. Copies(c[0], q) = 0
    <3>1. Places(c[0], q) = {}
      BY <1>2, <2>1 DEF Places
    <3> QED
      BY <3>1, FS_EmptySet DEF Copies
  <2>4. Copies(first(0), q) \in Nat
    BY <1>1, <1>3
  <2> HIDE DEF S
  <2> QED
    BY <2>2, <2>3, <2>4
<1>7. ASSUME NEW n \in 0 .. N - 1, n \in D
      PROVE  n + 1 \in D
  <2> DEFINE t == turns[n + 1]
  <2>1. n + 1 \in 1 .. N /\ n + 1 - 1 = n /\ n + 1 \in Nat /\ n <= N /\ n \in 0 .. N /\ n + 1 \in 0 .. N
    BY <1>1
  <2>2. c[n + 1] = Joined(c[n], t) /\ t \in Turns
    BY <1>1, <1>2, <2>1
  <2>3. c[n] \in S /\ Copies(c[n], q) <= Copies(first(n), q)
    BY <1>7, <2>1
  <2>4. c[n] \in Seq(Turns) /\ Alternates(c[n])
    BY <2>3
  <2> HIDE DEF t, S, N
  <2>5. c[n + 1] \in S
    BY <2>2, <2>4, JoinedAlternates DEF EndsWith, S
  <2>6. Copies(c[n + 1], q) <= Copies(c[n], q) + OneIf(t = q)
    BY <2>2, <2>4, CopiesInJoined
  <2>7. Copies(first(n + 1), q) = Copies(first(n), q) + OneIf(t = q)
    <3>1. first(n) \in Seq(Turns)
      BY <1>3, <2>1
    <3>2. first(n + 1) = Append(first(n), t)
      BY <1>4 DEF t
    <3>3. Copies(Append(first(n), t), q) = Copies(first(n), q) + OneIf(t = q)
      BY <2>2, <3>1, CopiesInLonger
    <3> QED
      BY <3>2, <3>3
  <2>8. /\ Copies(c[n], q) \in Nat /\ Copies(c[n + 1], q) \in Nat
        /\ Copies(first(n), q) \in Nat /\ OneIf(t = q) \in Nat
    BY <1>3, <2>1, <2>4, <2>5, PlacesAreFinite DEF OneIf, S
  <2>9. Copies(c[n + 1], q) <= Copies(first(n + 1), q)
    BY <2>3, <2>6, <2>7, <2>8
  <2> QED
    BY <2>1, <2>5, <2>9
<1>8. N \in D
  <2>1. N \in Nat /\ N \in 0 .. N
    BY <1>1
  <2> HIDE DEF D, N
  <2> QED
    BY <2>1, <1>6, <1>7, CountUp
<1>9. Copies(c[N], q) <= Copies(first(N), q)
  <2> HIDE DEF N, S
  <2> QED
    BY <1>8
<1> QED
  BY <1>2, <1>5, <1>9

\* Where the rows have what somebody said, but for one's own row.
SaidBefore(rows, own, user, current) ==
  {i \in DOMAIN rows \ own : rows[i].user = user /\ Trimmed(rows[i].text) = current}

\* Where the rows read so far have it.
Matches(rows, n, user, current) ==
  {i \in 1 .. n : rows[i].user = user /\ Trimmed(rows[i].text) = current}

\* Every turn that says it is told of a row that does.
LEMMA CopiesInTold ==
  ASSUME NEW rows \in Seq(Row), NEW user, NEW current
  PROVE  Copies(Told(rows), Turn("user", user, current))
           <= Cardinality(Matches(rows, Len(rows), user, current))
<1> DEFINE N == Len(rows)
           q == Turn("user", user, current)
           found(n) == Matches(rows, n, user, current)
<1>1. N \in Nat /\ \A i \in 1 .. N : rows[i] \in Row
  <2> HIDE DEF Row
  <2> QED
    OBVIOUS
<1>2. PICK c : /\ c[0] = <<>> /\ Told(rows) = c[N]
               /\ \A i \in 1 .. N : c[i] = ToldWith(c[i - 1], rows[i])
               /\ \A i \in 0 .. N : c[i] \in Seq(Turns)
  <2> HIDE DEF Turns, Row
  <2> QED
    BY ToldSteps
<1>3. \A n \in Nat : IsFiniteSet(found(n)) /\ Cardinality(found(n)) \in Nat
  <2>1. ASSUME NEW n \in Nat
        PROVE  IsFiniteSet(found(n))
    <3>1. IsFiniteSet(1 .. n)
      BY FS_Interval
    <3>2. found(n) \in SUBSET (1 .. n)
      BY DEF Matches
    <3> QED
      BY <3>1, <3>2, FS_Subset
  <2> QED
    BY <2>1, FS_CardinalityType
<1>4. \A n \in 0 .. N : Copies(c[n], q) \in Nat
  <2> HIDE DEF Turns, q
  <2> QED
    BY <1>2, PlacesAreFinite
<1> DEFINE D == {n \in Nat : n <= N => Copies(c[n], q) <= Cardinality(found(n))}
<1>5. 0 \in D
  <2>1. found(0) = {} /\ Places(c[0], q) = {}
    BY <1>2 DEF Matches, Places
  <2> HIDE DEF found
  <2>2. Cardinality(found(0)) = 0 /\ Copies(c[0], q) = 0
    BY <2>1, FS_EmptySet DEF Copies
  <2> QED
    BY <2>2
<1>6. ASSUME NEW n \in 0 .. N - 1, n \in D
      PROVE  n + 1 \in D
  <2> DEFINE row == rows[n + 1]
             more == row.user = user /\ Trimmed(row.text) = current
  <2>1. n + 1 \in 1 .. N /\ n + 1 - 1 = n /\ n + 1 \in Nat /\ n \in Nat /\ n <= N /\ n \in 0 .. N /\ n + 1 \in 0 .. N
    BY <1>1
  <2>2. c[n + 1] = ToldWith(c[n], row) /\ row \in Row /\ c[n] \in Seq(Turns)
    BY <1>1, <1>2, <2>1
  <2>3. Copies(c[n], q) <= Cardinality(found(n))
    BY <1>6, <2>1
  <2>4. Cardinality(found(n + 1)) = Cardinality(found(n)) + OneIf(more)
    <3>1. CASE more
      <4>1. found(n + 1) = found(n) \cup {n + 1} /\ n + 1 \notin found(n)
        BY <2>1, <3>1 DEF Matches
      <4> HIDE DEF found, more
      <4> QED
        BY <1>3, <2>1, <3>1, <4>1, FS_AddElement DEF OneIf
    <3>2. CASE ~more
      <4>1. found(n + 1) = found(n)
        BY <2>1, <3>2 DEF Matches
      <4> HIDE DEF found, more
      <4> QED
        BY <1>3, <2>1, <3>2, <4>1 DEF OneIf
    <3> QED
      BY <3>1, <3>2
  <2>5. Copies(c[n + 1], q) <= Copies(c[n], q) + OneIf(more)
    <3>1. CASE Trimmed(row.text) = <<>>
      <4>1. c[n + 1] = c[n]
        BY <2>2, <3>1 DEF ToldWith
      <4>2. OneIf(more) \in Nat /\ Copies(c[n], q) \in Nat
        BY <1>4, <2>1 DEF OneIf
      <4> HIDE DEF more, q
      <4> QED
        BY <4>1, <4>2
    <3>2. CASE Trimmed(row.text) # <<>>
      <4>1. c[n + 1] = Append(c[n], AsTurn(row)) /\ AsTurn(row) \in Turns
        BY <2>2, <3>2, TurnOfRow DEF ToldWith
      <4>2. Copies(Append(c[n], AsTurn(row)), q) = Copies(c[n], q) + OneIf(AsTurn(row) = q)
        <5> HIDE DEF Turns, q
        <5> QED
          BY <2>2, <4>1, CopiesInLonger
      <4>3. AsTurn(row) = q => more
        <5>1. ASSUME AsTurn(row) = q
              PROVE  more
          <6>1. AsTurn(row).role = "user"
            BY <5>1 DEF Turn
          <6>2. AsTurn(row) = Turn("user", row.user, Trimmed(row.text))
            BY <6>1 DEF AsTurn, Turn
          <6> QED
            BY <5>1, <6>2 DEF Turn
        <5> QED
          BY <5>1
      <4>4. Copies(c[n], q) \in Nat
        BY <1>4, <2>1
      <4> HIDE DEF more, q
      <4> QED
        BY <4>1, <4>2, <4>3, <4>4 DEF OneIf
    <3> QED
      BY <3>1, <3>2
  <2>6. /\ Copies(c[n], q) \in Nat /\ Copies(c[n + 1], q) \in Nat /\ OneIf(more) \in Nat
        /\ Cardinality(found(n)) \in Nat
    BY <1>3, <1>4, <2>1 DEF OneIf
  <2> HIDE DEF found, q, more
  <2>7. Copies(c[n + 1], q) <= Cardinality(found(n + 1))
    BY <2>3, <2>4, <2>5, <2>6
  <2> QED
    BY <2>1, <2>7
<1>7. N \in D
  <2>1. N \in Nat /\ N \in 0 .. N
    BY <1>1
  <2> HIDE DEF D, N
  <2> QED
    BY <2>1, <1>5, <1>6, CountUp
<1> QED
  BY <1>1, <1>2, <1>7

\* A question among the turns told of the rows is of a row: of another one than its
\* own, which was left out as the newest.
LEMMA CopiesAreRows ==
  ASSUME NEW rows \in Seq(Row), NEW user, NEW current, NEW own, own \subseteq DOMAIN rows \cap {1},
         \A i \in own : rows[i].user = user /\ Trimmed(rows[i].text) = current
  PROVE  Copies(Told(Reverse(WithoutCurrent(rows, user, current))), Turn("user", user, current))
           <= Cardinality(SaidBefore(rows, own, user, current))
<1> DEFINE kept == WithoutCurrent(rows, user, current)
           older == Reverse(kept)
           q == Turn("user", user, current)
           before == SaidBefore(rows, own, user, current)
           L == Len(rows)
           K == Len(kept)
           found == Matches(older, K, user, current)
           row == [i \in found |-> L + 1 - i]
<1>1. L \in Nat /\ DOMAIN rows = 1 .. L
  OBVIOUS
<1>2. /\ K \in Nat /\ K <= L /\ DOMAIN kept = 1 .. K
      /\ \A i \in 1 .. K : kept[i] = rows[i + (L - K)]
      /\ own # {} => K = L - 1
  <2>1. CASE rows # <<>> /\ Head(rows).user = user /\ Trimmed(Head(rows).text) = current
    <3>1. kept = Tail(rows)
      BY <2>1 DEF WithoutCurrent
    <3>2. L > 0
      <4> HIDE DEF Row
      <4> QED
        BY <2>1
    <3> HIDE DEF kept, Row
    <3>3. K = L - 1 /\ DOMAIN kept = 1 .. L - 1 /\ \A i \in 1 .. L - 1 : kept[i] = rows[i + 1]
      BY <3>1, <3>2
    <3> HIDE DEF K, L
    <3> QED
      BY <1>1, <3>2, <3>3
  <2>2. CASE ~(rows # <<>> /\ Head(rows).user = user /\ Trimmed(Head(rows).text) = current)
    <3>1. kept = rows
      BY <2>2 DEF WithoutCurrent
    <3>2. own = {}
      <4>1. ASSUME NEW i \in own
            PROVE  FALSE
        <5>1. i = 1 /\ 1 \in 1 .. L /\ rows[1].user = user /\ Trimmed(rows[1].text) = current
          BY <1>1
        <5>2. rows # <<>> /\ Head(rows) = rows[1]
          <6> HIDE DEF Row
          <6> QED
            BY <1>1, <5>1
        <5> QED
          BY <2>2, <5>1, <5>2
      <4> QED
        BY <4>1
    <3> HIDE DEF kept
    <3> QED
      BY <1>1, <3>1, <3>2
  <2> QED
    BY <2>1, <2>2
<1>3. older \in Seq(Row)
  BY OlderType
<1> HIDE DEF kept
<1>4. /\ DOMAIN older = 1 .. K /\ Len(older) = K
      /\ \A i \in 1 .. K : older[i] = kept[K - i + 1]
  BY <1>2 DEF Reverse
<1> HIDE DEF older
<1>5. Copies(Told(older), q) <= Cardinality(found)
  BY <1>3, <1>4, CopiesInTold
<1> HIDE DEF K, L, q
<1>6. \A i \in found : i \in 1 .. K /\ L + 1 - i \in before
  <2>1. ASSUME NEW i \in found
        PROVE  i \in 1 .. K /\ L + 1 - i \in before
    <3> DEFINE j == L + 1 - i
    <3>1. i \in 1 .. K /\ older[i].user = user /\ Trimmed(older[i].text) = current
      BY DEF Matches
    <3>2. K - i + 1 \in 1 .. K /\ (K - i + 1) + (L - K) = j /\ j \in 1 .. L
      BY <1>1, <1>2, <3>1
    <3>3. older[i] = rows[j]
      BY <1>2, <1>4, <3>1, <3>2
    <3>4. j \notin own
      <4>1. ASSUME j \in own
            PROVE  FALSE
        <5>1. j = 1 /\ K = L - 1
          BY <1>2, <4>1
        <5> QED
          BY <1>1, <1>2, <3>1, <5>1
      <4> QED
        BY <4>1
    <3> HIDE DEF j
    <3>5. j \in before
      BY <1>1, <3>1, <3>2, <3>3, <3>4 DEF SaidBefore
    <3> QED
      BY <3>1, <3>5 DEF j
  <2> QED
    BY <2>1
<1>7. row \in Injection(found, before)
  <2>1. row \in [found -> before]
    BY <1>6
  <2>2. \A i, j \in found : L + 1 - i = L + 1 - j => i = j
    BY <1>1, <1>2, <1>6
  <2>3. IsInjective(row)
    <3> HIDE DEF found
    <3> QED
      BY <2>2 DEF IsInjective
  <2> QED
    BY <2>1, <2>3 DEF Injection
<1>8. IsFiniteSet(before) /\ Cardinality(before) \in Nat
  <2>1. IsFiniteSet(1 .. L)
    BY <1>1, FS_Interval
  <2>2. before \in SUBSET (1 .. L)
    BY <1>1 DEF SaidBefore
  <2> QED
    BY <2>1, <2>2, FS_Subset, FS_CardinalityType
<1>9. IsFiniteSet(found) /\ Cardinality(found) \in Nat
  <2>1. IsFiniteSet(1 .. K)
    BY <1>2, FS_Interval
  <2>2. found \in SUBSET (1 .. K)
    BY DEF Matches
  <2> QED
    BY <2>1, <2>2, FS_Subset, FS_CardinalityType
<1>10. Cardinality(found) <= Cardinality(before)
  <2> HIDE DEF row, before, found
  <2> QED
    BY <1>7, <1>8, FS_Injection
<1>11. Copies(Told(older), q) \in Nat
  <2>1. Told(older) \in Seq(Turns)
    BY ToldType DEF older, kept
  <2> HIDE DEF Turns
  <2> QED
    BY <2>1, PlacesAreFinite
<1>12. Copies(Told(older), q) <= Cardinality(before)
  BY <1>5, <1>8, <1>9, <1>10, <1>11
<1> QED
  BY <1>12 DEF older, kept, q

\* buildNeuralHistory tells of what somebody says as often as it was stored before,
\* and of the question itself once.
LEMMA CopiesInHistory ==
  ASSUME NEW rows \in Seq(Row), NEW user \in Users \cup Bots, NEW current \in Seq(Words),
         NEW own, own \subseteq DOMAIN rows \cap {1},
         \A i \in own : rows[i].user = user /\ Trimmed(rows[i].text) = current
  PROVE  Copies(History(rows, user, current), Turn("user", user, current))
           <= Cardinality(SaidBefore(rows, own, user, current)) + 1
<1> DEFINE q == Turn("user", user, current)
           older == Reverse(WithoutCurrent(rows, user, current))
           told == Told(older)
           turns == AppendCurrent(told, user, current)
           before == SaidBefore(rows, own, user, current)
<1>1. q \in Turns /\ q.role = "user"
  BY DEF Turn, Turns
<1>2. told \in Seq(Turns)
  BY ToldType
<1>3. Copies(told, q) <= Cardinality(before)
  BY CopiesAreRows
<1>4. History(rows, user, current) = Alternate(turns)
  BY DEF History
<1>5. Cardinality(before) \in Nat
  <2>1. Len(rows) \in Nat /\ DOMAIN rows = 1 .. Len(rows)
    OBVIOUS
  <2>2. IsFiniteSet(1 .. Len(rows))
    BY <2>1, FS_Interval
  <2>3. before \in SUBSET (1 .. Len(rows))
    BY <2>1 DEF SaidBefore
  <2> HIDE DEF before
  <2> QED
    BY <2>2, <2>3, FS_Subset, FS_CardinalityType
<1> HIDE DEF told, q, before
<1>6. Copies(told, q) \in Nat
  BY <1>2, PlacesAreFinite
<1>7. turns \in Seq(Turns) /\ Copies(turns, q) \in Nat /\ Copies(turns, q) <= Copies(told, q) + 1
  <2>1. turns = told \/ turns = Append(told, q)
    BY DEF AppendCurrent, q
  <2>2. CASE turns = told
    BY <1>2, <1>6, <2>2
  <2>3. CASE turns = Append(told, q)
    <3>1. Append(told, q) \in Seq(Turns)
      BY <1>1, <1>2, AppendFacts
    <3>2. Copies(Append(told, q), q) = Copies(told, q) + 1
      BY <1>1, <1>2, CopiesInLonger DEF OneIf
    <3> HIDE DEF turns
    <3> QED
      BY <1>6, <2>3, <3>1, <3>2
  <2> QED
    BY <2>1, <2>2, <2>3
<1> HIDE DEF turns
<1>8. Copies(Alternate(turns), q) <= Copies(turns, q)
  BY <1>1, <1>7, CopiesInAlternate
<1>9. Copies(Alternate(turns), q) \in Nat
  <2>1. turns # <<>>
    <3> HIDE DEF Turns
    <3>1. Append(told, q) # <<>>
      BY <1>2
    <3> QED
      BY <3>1 DEF turns, AppendCurrent, q
  <2>2. Len(turns) > 0
    BY <1>7, <2>1
  <2>3. Alternate(turns) \in Seq(Turns)
    BY <1>7, <2>2, AlternateAlternates DEF EndsWith
  <2> QED
    BY <2>3, PlacesAreFinite
<1>10. Copies(Alternate(turns), q) <= Cardinality(before) + 1
  BY <1>3, <1>5, <1>6, <1>7, <1>8, <1>9
<1> QED
  BY <1>4, <1>10 DEF q, before

-----------------------------------------------------------------------------
(* Rows that are a message's say what it said *)

WasSaid(row) ==
  row.update \in Updates =>
    /\ handler[row.update].at # "new"
    /\ row.user = said[row.update].user /\ row.text = said[row.update].text

Faithful == {row \in Row : WasSaid(row)}

RowsAreSaid ==
  /\ history \in Seq(Faithful)
  /\ \A u \in Updates : handler[u].rows \in Seq(Faithful)

SaidInv == Registration /\ RowsAreSaid

\* The rows a goroutine g may have next.
MayHave(g) == {g.rows, <<>>, Fitting(NewestFirst(g.since)), Latest(NewestFirst(g.since))}

GoesOnWith(g, h) == (g.at # "new" => h.at # "new") /\ h.rows \in MayHave(g)

\* A goroutine gets its rows from the history, and never begins again.
LEMMA RowsMove ==
  ASSUME TypeInv, [Next]_vars, NEW v \in Updates
  PROVE  GoesOnWith(handler[v], handler'[v])
<1> DEFINE P == GoesOnWith(handler[v], handler'[v])
<1>1. handler \in [Updates -> Handler] /\ handler[v] \in Handler
  BY DEF TypeInv, HandlersOK
<1>2. ASSUME NEW u \in Updates, NEW h, Goes(u, h),
             u = v => h.at # "new" /\ h.rows \in MayHave(handler[v])
      PROVE  P
  <2>1. CASE u = v
    <3>1. handler'[v] = h
      BY <1>1, <1>2, <2>1 DEF Goes
    <3> QED
      BY <1>2, <2>1, <3>1 DEF GoesOnWith
  <2>2. CASE u # v
    <3>1. handler'[v] = handler[v]
      BY <1>1, <1>2, <2>2 DEF Goes
    <3> QED
      BY <3>1 DEF GoesOnWith, MayHave
  <2> QED
    BY <2>1, <2>2
<1>3. ASSUME NEW u \in Updates, Done(u)
      PROVE  P
  <2> DEFINE h == [New EXCEPT !.at = "done", !.enabled = handler[u].enabled]
  <2>1. h.at = "done" /\ h.rows = <<>> /\ Goes(u, h)
    BY <1>3 DEF New, Done
  <2> HIDE DEF h
  <2> QED
    BY <1>2, <2>1 DEF MayHave
<1>4. ASSUME NEW u \in Updates, NEW at, To(u, at), at # "new"
      PROVE  P
  <2> DEFINE h == [handler[u] EXCEPT !.at = at]
  <2>1. u = v => h.at = at /\ h.rows = handler[v].rows
    BY <1>1 DEF Handler
  <2>2. Goes(u, h)
    BY <1>4 DEF To
  <2> HIDE DEF h
  <2> QED
    BY <1>2, <1>4, <2>1, <2>2 DEF MayHave
<1>5. ASSUME handler' = handler
      PROVE  P
  BY <1>5 DEF GoesOnWith, MayHave
<1>6. ASSUME NEW u \in Updates, EnsureEntities(u)
      PROVE  P
  <2>1. PICK s \in Settings :
          Goes(u, [handler[u] EXCEPT !.at = "register", !.mode = s.mode, !.enabled = s.enabled,
                                     !.since = IF s.summarized THEN Len(history) ELSE 0])
    BY <1>6 DEF EnsureEntities
  <2> DEFINE mark == IF s.summarized THEN Len(history) ELSE 0
             h == [handler[u] EXCEPT !.at = "register", !.mode = s.mode, !.enabled = s.enabled, !.since = mark]
  <2>2. Goes(u, h)
    BY <2>1
  <2> HIDE DEF mark
  <2>3. u = v => h.at = "register" /\ h.rows = handler[v].rows
    BY <1>1 DEF Handler
  <2> HIDE DEF h
  <2> QED
    BY <1>2, <2>2, <2>3 DEF MayHave
<1>7. ASSUME NEW u \in Updates,
             EnsureFails(u) \/ Ignore(u) \/ GenerateFails(u) \/ SendFails(u) \/ Persist(u) \/ PersistFails(u)
      PROVE  P
  BY <1>3, <1>7 DEF EnsureFails, Ignore, GenerateFails, SendFails, Persist, PersistFails
<1>8. ASSUME NEW u \in Updates, Receive(u) \/ Register(u) \/ Respond(u) \/ ReadFails(u) \/ Send(u)
      PROVE  P
  <2>1. PICK at \in {"ensure", "decide", "read", "seed", "ask", "persist"} : To(u, at)
    <3>1. CASE Respond(u)
      BY <3>1 DEF Respond
    <3>2. CASE Receive(u) \/ Register(u) \/ ReadFails(u) \/ Send(u)
      BY <3>2 DEF Receive, Register, ReadFails, Send
    <3> QED
      BY <1>8, <3>1, <3>2
  <2> QED
    BY <1>4, <2>1
<1>9. ASSUME NEW u \in Updates, Roll(u) \/ ModelAnswers(u)
      PROVE  P
  <2> DEFINE g == [handler[u] EXCEPT !.at = "send", !.reply = Answer]
             h == [handler[u] EXCEPT !.at = "send", !.rows = <<>>, !.reply = Answer]
  <2>1. Goes(u, g) \/ Goes(u, h)
    BY <1>9 DEF Roll, ModelAnswers
  <2>2. u = v => /\ g.at = "send" /\ g.rows = handler[v].rows
                 /\ h.at = "send" /\ h.rows = <<>>
    BY <1>1 DEF Handler
  <2> HIDE DEF g, h
  <2> QED
    BY <1>2, <2>1, <2>2 DEF MayHave
<1>10. ASSUME NEW u \in Updates, ReadRows(u) \/ ReadLatest(u)
       PROVE  P
  <2> DEFINE rows == Fitting(NewestFirst(handler[u].since))
             latest == Latest(NewestFirst(handler[u].since))
             g == [handler[u] EXCEPT !.at = IF rows = <<>> THEN "latest" ELSE "ask", !.rows = rows]
             h == [handler[u] EXCEPT !.at = "ask", !.rows = latest]
  <2>1. Goes(u, g) \/ Goes(u, h)
    BY <1>10 DEF ReadRows, ReadLatest
  <2> HIDE DEF rows, latest
  <2>2. u = v => /\ g.at \in {"latest", "ask"} /\ g.rows = rows
                 /\ h.at = "ask" /\ h.rows = latest
    BY <1>1 DEF Handler
  <2>3. u = v => rows \in MayHave(handler[v]) /\ latest \in MayHave(handler[v])
    BY DEF MayHave, rows, latest
  <2> HIDE DEF g, h
  <2> QED
    BY <1>2, <2>1, <2>2, <2>3
<1>11. ASSUME NEW u \in Updates, ModelFails(u)
       PROVE  P
  <2> DEFINE g == [handler[u] EXCEPT !.provider = @ + 1]
             h == [handler[u] EXCEPT !.at = "seed", !.rows = <<>>]
  <2>1. (Goes(u, g) \/ Goes(u, h)) /\ handler[u].at = "ask"
    BY <1>11 DEF ModelFails
  <2>2. u = v => /\ g.at = handler[v].at /\ g.rows = handler[v].rows
                 /\ h.at = "seed" /\ h.rows = <<>>
    BY <1>1 DEF Handler
  <2> HIDE DEF g, h
  <2> QED
    BY <1>2, <2>1, <2>2 DEF MayHave
<1>12. ASSUME NEW u \in Updates, Seed(u)
       PROVE  P
  <2> DEFINE words == IF handler[u].at = "seed" THEN ToSet(Spoken(u)) ELSE ContextWords
             walk == StartAt(words \cap known)
             h == [handler[u] EXCEPT !.at = IF @ = "seed" THEN "walk" ELSE "walk on", !.walk = walk]
  <2>1. Goes(u, h)
    BY <1>12 DEF Seed
  <2> HIDE DEF walk
  <2>2. u = v => h.at \in {"walk", "walk on"} /\ h.rows = handler[v].rows
    BY <1>1 DEF Handler
  <2> HIDE DEF h
  <2> QED
    BY <1>2, <2>1, <2>2 DEF MayHave
<1>13. ASSUME NEW u \in Updates, Step(u)
       PROVE  P
  <2>1. PICK t : Goes(u, IF t[3] = Null
                  THEN [handler[u] EXCEPT !.at = "send", !.walk = StartAt({}),
                                          !.reply = Sentence(Extended(handler[u].walk, t))]
                  ELSE [handler[u] EXCEPT !.walk = Following(@, t, handler[u].mode = "simplified")])
    BY <1>13 DEF Step
  <2> DEFINE g == [handler[u] EXCEPT !.at = "send", !.walk = StartAt({}), !.reply = Sentence(Extended(handler[u].walk, t))]
             h == [handler[u] EXCEPT !.walk = Following(@, t, handler[u].mode = "simplified")]
  <2>2. (Goes(u, g) \/ Goes(u, h)) /\ handler[u].at # "new"
    BY <1>13, <2>1 DEF Step
  <2>3. u = v => /\ g.at = "send" /\ g.rows = handler[v].rows
                 /\ h.at = handler[v].at /\ h.rows = handler[v].rows
    BY <1>1 DEF Handler
  <2> HIDE DEF g, h
  <2> QED
    BY <1>2, <2>2, <2>3 DEF MayHave
<1>14. ASSUME NEW u \in Updates, EndWalk(u)
       PROVE  P
  <2> DEFINE g == [handler[u] EXCEPT !.at = "send", !.walk = StartAt({}), !.reply = Sentence(handler[u].walk.words)]
  <2>1. Goes(u, g) \/ To(u, "context") \/ Done(u)
    BY <1>14 DEF EndWalk
  <2>2. u = v => g.at = "send" /\ g.rows = handler[v].rows
    BY <1>1 DEF Handler
  <2> HIDE DEF g
  <2> QED
    BY <1>2, <1>3, <1>4, <2>1, <2>2 DEF MayHave
<1>15. ASSUME NEW u \in Updates, CollectStats(u)
       PROVE  P
  BY <1>5, <1>15 DEF CollectStats, Acquire, EnsureIDs, LearnTrigrams, AppendMessage, Score, StatementFails
<1>16. CASE Stop
  BY <1>5, <1>16 DEF Stop, Interrupt, CronStopped, StatsDone, StatsTimeOut, Close
<1>17. CASE UNCHANGED vars
  BY <1>5, <1>17 DEF vars
<1>18. ASSUME NEW u \in Updates, Handle(u)
       PROVE  P
  BY <1>6, <1>7, <1>8, <1>9, <1>10, <1>11, <1>12, <1>13, <1>14, <1>18 DEF Handle, Reply
<1> QED
  BY <1>15, <1>16, <1>17, <1>18 DEF Next

\* What was said stays said.
LEMMA FaithfulGrows ==
  ASSUME TypeInv, [Next]_vars
  PROVE  Faithful \subseteq Faithful'
<1>1. ASSUME NEW row \in Faithful
      PROVE  row \in Row /\ WasSaid(row)'
  <2>1. row \in Row /\ WasSaid(row)
    BY DEF Faithful
  <2>2. ASSUME row.update \in Updates
        PROVE  /\ handler'[row.update].at # "new"
               /\ row.user = said'[row.update].user /\ row.text = said'[row.update].text
    <3> DEFINE u == row.update
    <3>1. u \in Updates /\ handler[u].at # "new" /\ row.user = said[u].user /\ row.text = said[u].text
      BY <2>1, <2>2 DEF WasSaid
    <3> HIDE DEF u
    <3>2. handler'[u].at # "new"
      BY <3>1, RowsMove DEF GoesOnWith
    <3>3. said'[u] = said[u]
      BY <3>1, SaidStays
    <3> QED
      BY <3>1, <3>2, <3>3 DEF u
  <2> QED
    BY <2>1, <2>2 DEF WasSaid
<1> QED
  BY <1>1 DEF Faithful

LEMMA LargerSeq ==
  ASSUME NEW S, NEW T, S \subseteq T
  PROVE  Seq(S) \subseteq Seq(T)
OBVIOUS

\* collectStats stores a message as it was said, and the bot's rows are no message's.
LEMMA HistoryStaysSaid ==
  ASSUME TypeInv, SaidInv, [Next]_vars
  PROVE  history' \in Seq(Faithful')
<1>1. history \in Seq(Faithful) /\ history \in Seq(Row) /\ Faithful \subseteq Faithful'
  BY FaithfulGrows DEF SaidInv, RowsAreSaid, TypeInv, TablesOK
<1>2. history \in Seq(Faithful')
  BY <1>1, LargerSeq
<1>3. ASSUME NEW row \in Faithful', history' = Append(history, row)
      PROVE  history' \in Seq(Faithful')
  BY <1>2, <1>3, AppendFacts
<1>4. ASSUME NEW u \in Updates, AppendMessage(u)
      PROVE  history' \in Seq(Faithful')
  <2> DEFINE row == [user |-> said[u].user, text |-> said[u].text, update |-> u]
  <2>1. row \in Row
    BY TalkAssumption DEF TypeInv, SaidOK, Row, Texts
  <2>2. handler[u].at # "new"
    BY <1>4 DEF AppendMessage, SaidInv, Registration
  <2>3. row \in Faithful
    BY <2>1, <2>2 DEF Faithful, WasSaid
  <2>4. history' = Append(history, row)
    BY <1>4 DEF AppendMessage
  <2> HIDE DEF row
  <2> QED
    BY <1>1, <1>3, <2>3, <2>4
<1>5. ASSUME NEW u \in Updates, Persist(u)
      PROVE  history' \in Seq(Faithful')
  <2> DEFINE row == [user |-> BotID, text |-> Outbound(handler[u].reply), update |-> NoUpdate]
  <2>1. Outbound(handler[u].reply) \in Seq(Words)
    BY OutboundType DEF TypeInv, HandlersOK, Handler
  <2>2. Outbound(handler[u].reply) \in Seq(Words \cup {Break})
    BY <2>1
  <2>3. row \in Row
    BY <2>2, TalkAssumption DEF Row
  <2>4. row \in Faithful'
    BY <2>3, TalkAssumption DEF Faithful, WasSaid
  <2>5. history' = Append(history, row)
    BY <1>5 DEF Persist
  <2> HIDE DEF row
  <2> QED
    BY <1>3, <2>4, <2>5
<1>6. ASSUME NEW u \in Updates, Handle(u), ~Persist(u)
      PROVE  history' = history
  BY <1>6 DEF Handle, Receive, EnsureEntities, EnsureFails, Register, Ignore, Roll, Respond,
     Reply, ReadRows, ReadLatest, ReadFails, ModelAnswers, ModelFails, Seed, Step, EndWalk,
     GenerateFails, Send, SendFails, PersistFails, tables
<1>7. ASSUME NEW u \in Updates, CollectStats(u), ~AppendMessage(u)
      PROVE  history' = history
  BY <1>7 DEF CollectStats, Acquire, EnsureIDs, LearnTrigrams, Score, StatementFails, tables
<1>8. CASE Stop
  BY <1>2, <1>8 DEF Stop, Interrupt, CronStopped, StatsDone, StatsTimeOut, Close, tables
<1>9. CASE UNCHANGED vars
  BY <1>2, <1>9 DEF vars, tables
<1> QED
  BY <1>2, <1>4, <1>5, <1>6, <1>7, <1>8, <1>9 DEF Next

\* What a goroutine reads is the history's.
LEMMA RowsStaySaid ==
  ASSUME TypeInv, SaidInv, [Next]_vars, NEW u \in Updates
  PROVE  handler'[u].rows \in Seq(Faithful')
<1>1. handler[u].since \in Nat
  BY DEF TypeInv, HandlersOK, Handler
<1>2. history \in Seq(Faithful) /\ handler[u].rows \in Seq(Faithful)
  BY DEF SaidInv, RowsAreSaid
<1>3. NewestFirst(handler[u].since) \in Seq(Faithful)
  BY <1>1, <1>2, NewestFirstType
<1>4. /\ Fitting(NewestFirst(handler[u].since)) \in Seq(Faithful)
      /\ Latest(NewestFirst(handler[u].since)) \in Seq(Faithful)
  BY <1>3, FittingType, ReadRowsType
<1>5. <<>> \in Seq(Faithful)
  OBVIOUS
<1>6. handler'[u].rows \in Seq(Faithful)
  BY <1>2, <1>4, <1>5, RowsMove DEF GoesOnWith, MayHave
<1>7. Seq(Faithful) \subseteq Seq(Faithful')
  BY FaithfulGrows, LargerSeq
<1> QED
  BY <1>6, <1>7

\* Every stored row of a message, and every one in hand, says what it said.
THEOREM RowsSaid ==
  Spec => [](TypeInv /\ SaidInv)
<1>1. Init => SaidInv
  <2> SUFFICES ASSUME Init PROVE SaidInv
    OBVIOUS
  <2>1. Registration
    BY StopStarts DEF StopInv
  <2>2. history \in Seq(Faithful)
    <3>1. \A i \in 1 .. Len(Past) : Past[i] \in Row /\ Past[i].update \notin Updates
      <4> DEFINE Stored == [user : Users \cup Bots, text : Seq(Words \cup {Break}), update : {NoUpdate}]
      <4>1. Past \in Seq(Stored)
        BY TalkAssumption
      <4>2. \A row \in Stored : row \in Row /\ row.update \notin Updates
        BY TalkAssumption DEF Row
      <4> HIDE DEF Stored
      <4> QED
        BY <4>1, <4>2
    <3>2. \A i \in 1 .. Len(Past) : Past[i] \in Faithful
      BY <3>1 DEF Faithful, WasSaid
    <3>3. Past \in Seq(Faithful)
      <4>1. Past \in Seq([user : Users \cup Bots, text : Seq(Words \cup {Break}), update : {NoUpdate}])
        BY TalkAssumption
      <4> HIDE DEF Faithful
      <4> QED
        BY <3>2, <4>1
    <3> QED
      BY <3>3 DEF Init
  <2>3. ASSUME NEW u \in Updates
        PROVE  handler[u].rows \in Seq(Faithful)
    <3>1. handler[u].rows = <<>>
      BY DEF Init, New
    <3> QED
      BY <3>1
  <2> QED
    BY <2>1, <2>2, <2>3 DEF SaidInv, RowsAreSaid
<1>2. TypeInv /\ SaidInv /\ [Next]_vars => SaidInv'
  BY RegistrationStays, HistoryStaysSaid, RowsStaySaid DEF SaidInv, RowsAreSaid
<1> QED
  BY <1>1, <1>2, TypesHold, PTL DEF Spec

\* What somebody says is in a conversation as often as it was stored before, and once
\* for the question: the stored copy of the question itself is not told beside it,
\* unless it is laid out in lines or something was stored after it; for every history, every
\* text and any number of messages (buildNeuralHistory).
THEOREM NothingSaidTwice ==
  Spec => []SaidOnce
<1>1. TypeInv /\ SaidInv => SaidOnce
  <2> SUFFICES ASSUME TypeInv, SaidInv, NEW u \in Updates,
                      {i \in DOMAIN handler[u].rows : handler[u].rows[i].update = u} \subseteq {1},
                      Trimmed(said[u].text) = Spoken(u)
               PROVE  Copies(Conversation(u), Turn("user", said[u].user, Spoken(u)))
                        <= Cardinality(SaidBefore(handler[u].rows,
                               {i \in DOMAIN handler[u].rows : handler[u].rows[i].update = u},
                               said[u].user, Spoken(u))) + 1
    BY DEF SaidOnce, Copies, Places, SaidBefore
  <2> DEFINE rows == handler[u].rows
             own == {i \in DOMAIN rows : rows[i].update = u}
  <2>1. rows \in Seq(Faithful) /\ rows \in Seq(Row)
    <3>1. handler[u] \in Handler
      BY DEF TypeInv, HandlersOK
    <3> HIDE DEF Row
    <3> QED
      BY <3>1 DEF Handler, SaidInv, RowsAreSaid
  <2>2. said[u].user \in Users \cup Bots /\ Spoken(u) \in Seq(Words)
    BY TalkAssumption, TypeInvImplies, WordsType DEF TypeInv, SaidOK
  <2>3. \A i \in own : rows[i].user = said[u].user /\ Trimmed(rows[i].text) = Spoken(u)
    <3>1. ASSUME NEW i \in own
          PROVE  rows[i].user = said[u].user /\ Trimmed(rows[i].text) = Spoken(u)
      <4>1. rows[i] \in Faithful /\ rows[i].update = u
        <5> HIDE DEF rows
        <5> QED
          BY <2>1
      <4> QED
        BY <4>1 DEF Faithful, WasSaid
    <3> QED
      BY <3>1
  <2>4. own \subseteq DOMAIN rows \cap {1}
    OBVIOUS
  <2> HIDE DEF rows, own
  <2>5. Copies(History(rows, said[u].user, Spoken(u)), Turn("user", said[u].user, Spoken(u)))
          <= Cardinality(SaidBefore(rows, own, said[u].user, Spoken(u))) + 1
    BY <2>1, <2>2, <2>3, <2>4, CopiesInHistory
  <2> QED
    BY <2>5 DEF rows, own, Conversation
<1> QED
  BY <1>1, RowsSaid, PTL
=============================================================================

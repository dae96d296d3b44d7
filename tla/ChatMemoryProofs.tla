--------------------------- MODULE ChatMemoryProofs ---------------------------
(***************************************************************************)
(* Theorems about ChatMemory for every number of messages, every size and  *)
(* every budget.                                                           *)
(*                                                                         *)
(* What the prune keeps is a question about running sums.  Facts about     *)
(* them need induction on the messages, from the newest down; it is done   *)
(* with the least element of the set of counterexamples (LeastNumber).     *)
(***************************************************************************)
EXTENDS ChatMemory, WellFoundedInduction, TLAPS

InSession == summarizer.phase \in {"model", "store", "mark"}

\* Messages are numbered in the order of their times, and the time a memory is
\* up to has passed.
TimesInOrder ==
  /\ \A m, o \in 1 .. written : m <= o => at[m] <= at[o]
  /\ \A m \in 1 .. written : at[m] <= clock
  /\ summarizedAt < clock \/ summarizedAt = -1

Accounted(m) == folded[m] > 0 \/ m \in passedOver

\* Up to summarizedAt every message is in a memory or was passed over, the prune
\* went no further, and the summary at work will account for all it found.
ReadUpToMark ==
  /\ \A m \in 1 .. written : at[m] <= summarizedAt => Accounted(m)
  /\ Configured => \A m \in Pruned : at[m] <= summarizedAt
  /\ InSession => Configured /\ \A m \in 1 .. summarizer.last :
       m \in summarizer.window \union summarizer.cut \/ Accounted(m)
  /\ summarizer.phase = "mark" => \A m \in summarizer.window : folded[m] > 0

\* A message no memory is up to was folded in by faults alone, or by the summary
\* whose mark comes next; that mark will be later than the message.
UnreadIsUnfolded ==
  /\ \A m \in Messages : m > written => folded[m] = 0
  /\ \A m \in Messages : folded[m] <= 1 + faults
  /\ \A m \in 1 .. written :
       at[m] >= summarizedAt =>
         \/ folded[m] <= faults
         \/ summarizer.phase = "mark" /\ m \in summarizer.window
  /\ InSession => \A m \in summarizer.window : at[m] >= summarizedAt
  /\ summarizer.phase \in {"store", "mark"} => \A m \in summarizer.window : at[m] < clock

-----------------------------------------------------------------------------
(* Running sums *)

\* A set of numbers has a least one.
LEMMA LeastNumber ==
  ASSUME NEW T \in SUBSET Nat, T # {}
  PROVE  \E x \in T : \A y \in T : x <= y
<1> DEFINE R == {p \in Nat \X Nat : p[1] < p[2]}
<1>1. IsWellFoundedOn(R, Nat)
  BY NatLessThanWellFounded DEF OpToRel
<1>2. \A x, y \in Nat : <<y, x>> \notin R => x <= y
  OBVIOUS
<1> HIDE DEF R
<1>3. PICK x \in T : \A y \in T : ~(<<y, x>> \in R)
  BY <1>1, WFMin
<1>4. QED
  BY <1>2, <1>3

\* Induction up to a number, over the set of numbers a fact holds of.
LEMMA CountUp ==
  ASSUME NEW n \in Nat, NEW S, 0 \in S, \A i \in 0 .. n - 1 : i \in S => i + 1 \in S
  PROVE  \A i \in 0 .. n : i \in S
<1> DEFINE T == {i \in 0 .. n : i \notin S}
<1>1. SUFFICES ASSUME T # {} PROVE FALSE
  OBVIOUS
<1>2. T \in SUBSET Nat
  OBVIOUS
<1>3. PICK i \in T : \A j \in T : i <= j
  <2> HIDE DEF T
  <2>1. QED
    BY <1>1, <1>2, LeastNumber
<1>4. i \in 1 .. n /\ i - 1 \notin T
  BY <1>3
<1>5. QED
  BY <1>4

LEMMA Bounds == /\ MaxMessages \in Nat /\ MaxFaults \in Nat /\ MaxClock \in Nat
                /\ KeepBytes \in Nat \ {0}
BY MemoryAssumption DEF MemoryAssumption

\* What a message adds to the sum.
Weight(bytes, rows, m) == IF m \in rows THEN bytes[m] ELSE 0

\* The sums from some message to the newest.
IsSumFrom(bytes, rows, k, g) ==
  /\ g \in [k .. MaxMessages + 1 -> Nat]
  /\ g[MaxMessages + 1] = 0
  /\ \A m \in k .. MaxMessages : g[m] = g[m + 1] + Weight(bytes, rows, m)

LEMMA WeightType ==
  ASSUME NEW bytes \in [Messages -> Nat], NEW rows, NEW m \in Messages
  PROVE  Weight(bytes, rows, m) \in Nat
BY DEF Weight

\* They exist from every message on.
LEMMA SumsExist ==
  ASSUME NEW bytes \in [Messages -> Nat], NEW rows
  PROVE  \E g : IsSumFrom(bytes, rows, 1, g)
<1> DEFINE N == MaxMessages + 1
           S == {i \in Nat : \E g : IsSumFrom(bytes, rows, N - i, g)}
<1>1. N \in Nat /\ MaxMessages \in Nat /\ N = MaxMessages + 1
  BY Bounds
<1> HIDE DEF N
<1>2. 0 \in S
  <2>1. IsSumFrom(bytes, rows, N, [m \in N .. N |-> 0])
    BY <1>1 DEF IsSumFrom
  <2>2. QED
    BY <1>1, <2>1
<1>3. ASSUME NEW i \in 0 .. MaxMessages - 1, i \in S
      PROVE  i + 1 \in S
  <2>1. PICK g : IsSumFrom(bytes, rows, N - i, g)
    BY <1>3
  <2> DEFINE k == N - (i + 1)
             h == [m \in k .. N |-> IF m = k THEN g[k + 1] + Weight(bytes, rows, k) ELSE g[m]]
  <2>2. k \in Messages /\ k \in Nat /\ k <= MaxMessages /\ N - i = k + 1
    BY <1>1 DEF Messages
  <2> HIDE DEF k
  <2>3. /\ g \in [k + 1 .. N -> Nat] /\ g[N] = 0
        /\ \A m \in k + 1 .. MaxMessages : g[m] = g[m + 1] + Weight(bytes, rows, m)
    BY <1>1, <2>1, <2>2 DEF IsSumFrom
  <2>4. Weight(bytes, rows, k) \in Nat
    BY <2>2, WeightType
  <2>5. h \in [k .. N -> Nat]
    BY <1>1, <2>2, <2>3, <2>4
  <2>6. h[N] = 0
    BY <1>1, <2>2, <2>3
  <2>7. \A m \in k .. MaxMessages : h[m] = h[m + 1] + Weight(bytes, rows, m)
    BY <1>1, <2>2, <2>3
  <2>8. IsSumFrom(bytes, rows, k, h)
    BY <1>1, <2>5, <2>6, <2>7 DEF IsSumFrom
  <2>9. QED
    BY <2>8 DEF k
<1>4. MaxMessages \in S
  <2> HIDE DEF S
  <2>1. QED
    BY <1>1, <1>2, <1>3, CountUp
<1>5. QED
  BY <1>1, <1>4

\* The running sum is what the query says: it starts after the newest message,
\* and each row adds its bytes.
LEMMA RunningSum ==
  ASSUME NEW bytes \in [Messages -> Nat], NEW rows
  PROVE  IsSumFrom(bytes, rows, 1, CumBytes(bytes, rows))
<1> DEFINE Step(g) == [m \in 1 .. MaxMessages + 1 |->
                         IF m = MaxMessages + 1 THEN 0 ELSE g[m + 1] + Weight(bytes, rows, m)]
<1>1. PICK g : IsSumFrom(bytes, rows, 1, g)
  BY SumsExist
<1>2. g = Step(g)
  BY <1>1, Bounds DEF IsSumFrom
<1>3. CumBytes(bytes, rows) = CHOOSE f : f = Step(f)
  BY DEF CumBytes, Weight
<1> DEFINE c == CumBytes(bytes, rows)
<1>4. c = Step(c)
  BY <1>2, <1>3
<1> HIDE DEF c
<1>5. \A m \in 1 .. MaxMessages : c[m] = c[m + 1] + Weight(bytes, rows, m)
  BY <1>4, Bounds
<1>6. c[MaxMessages + 1] = 0
  BY <1>4, Bounds
<1>7. \A m \in 1 .. MaxMessages + 1 : c[m] \in Nat
  <2> DEFINE S == {i \in Nat : c[MaxMessages + 1 - i] \in Nat}
  <2>1. 0 \in S
    BY <1>6, Bounds
  <2>2. ASSUME NEW i \in 0 .. MaxMessages - 1, i \in S
        PROVE  i + 1 \in S
    <3>1. MaxMessages - i \in Messages
      BY Bounds DEF Messages
    <3>2. c[MaxMessages - i] = c[MaxMessages + 1 - i] + Weight(bytes, rows, MaxMessages - i)
      BY <1>5, <3>1, Bounds DEF Messages
    <3>3. c[MaxMessages - i] \in Nat
      BY <2>2, <3>1, <3>2, WeightType
    <3>4. QED
      BY <3>3, Bounds
  <2>3. \A i \in 0 .. MaxMessages : i \in S
    <3> HIDE DEF S
    <3>1. QED
      BY <2>1, <2>2, Bounds, CountUp
  <2>4. ASSUME NEW m \in 1 .. MaxMessages + 1
        PROVE  c[m] \in Nat
    <3>1. MaxMessages + 1 - m \in S
      <4> HIDE DEF S
      <4>1. QED
        BY <2>3, Bounds
    <3>2. MaxMessages + 1 - (MaxMessages + 1 - m) = m
      BY Bounds
    <3>3. QED
      BY <3>1, <3>2
  <2>5. QED
    BY <2>4
<1>8. c \in [1 .. MaxMessages + 1 -> Nat]
  BY <1>4, <1>7
<1>9. QED
  BY <1>5, <1>6, <1>8 DEF IsSumFrom, c

LEMMA SumType ==
  ASSUME NEW bytes \in [Messages -> Nat], NEW rows, NEW m \in Messages
  PROVE  CumBytes(bytes, rows)[m] \in Nat
<1>1. CumBytes(bytes, rows) \in [1 .. MaxMessages + 1 -> Nat]
  BY RunningSum DEF IsSumFrom
<1>2. m \in 1 .. MaxMessages + 1
  BY Bounds DEF Messages
<1>3. QED
  BY <1>1, <1>2

\* Older messages come after more bytes.
LEMMA SumGrows ==
  ASSUME NEW bytes \in [Messages -> Nat], NEW rows, NEW o \in Messages, NEW m \in Messages, o <= m
  PROVE  CumBytes(bytes, rows)[m] <= CumBytes(bytes, rows)[o]
<1> DEFINE c == CumBytes(bytes, rows)
           S == {i \in Nat : c[m] <= c[m - i]}
<1>1. /\ c \in [1 .. MaxMessages + 1 -> Nat]
      /\ \A k \in Messages : c[k] = c[k + 1] + Weight(bytes, rows, k)
  BY RunningSum DEF IsSumFrom, Messages
<1> HIDE DEF c
<1>2. m \in Nat /\ o \in Nat /\ 1 <= o /\ m <= MaxMessages
  BY Bounds DEF Messages
<1>3. 0 \in S
  BY <1>1, <1>2, Bounds
<1>4. ASSUME NEW i \in 0 .. m - o - 1, i \in S
      PROVE  i + 1 \in S
  <2> DEFINE k == m - (i + 1)
  <2>1. k \in Messages /\ k + 1 = m - i /\ k \in 1 .. MaxMessages + 1 /\ k + 1 \in 1 .. MaxMessages + 1
    BY <1>2, Bounds DEF Messages
  <2>2. c[m] <= c[k + 1]
    BY <1>4, <2>1
  <2> HIDE DEF k
  <2>3. c[k] = c[k + 1] + Weight(bytes, rows, k)
    BY <1>1, <2>1
  <2>4. c[m] \in Nat /\ c[k + 1] \in Nat /\ Weight(bytes, rows, k) \in Nat
    <3>1. m \in 1 .. MaxMessages + 1
      BY <1>2, Bounds
    <3>2. QED
      BY <1>1, <2>1, <3>1, WeightType
  <2>5. c[m] <= c[k]
    BY <2>2, <2>3, <2>4
  <2>6. QED
    BY <2>5 DEF k
<1>5. m - o \in S
  <2> HIDE DEF S
  <2>1. m - o \in Nat
    BY <1>2
  <2>2. QED
    BY <1>3, <1>4, <2>1, CountUp
<1>6. m - (m - o) = o
  BY <1>2
<1>7. QED
  BY <1>5, <1>6 DEF c

\* More rows with more bytes make no sum smaller.
LEMMA SumMonotone ==
  ASSUME NEW bytes \in [Messages -> Nat], NEW more \in [Messages -> Nat], NEW rows, NEW wider,
         rows \subseteq wider, \A m \in Messages : m \in rows => bytes[m] <= more[m],
         NEW o \in Messages
  PROVE  CumBytes(bytes, rows)[o] <= CumBytes(more, wider)[o]
<1> DEFINE c == CumBytes(bytes, rows)
           d == CumBytes(more, wider)
           S == {i \in Nat : c[MaxMessages + 1 - i] <= d[MaxMessages + 1 - i]}
<1>1. /\ c \in [1 .. MaxMessages + 1 -> Nat] /\ c[MaxMessages + 1] = 0
      /\ \A k \in Messages : c[k] = c[k + 1] + Weight(bytes, rows, k)
  BY RunningSum DEF IsSumFrom, Messages
<1>2. /\ d \in [1 .. MaxMessages + 1 -> Nat] /\ d[MaxMessages + 1] = 0
      /\ \A k \in Messages : d[k] = d[k + 1] + Weight(more, wider, k)
  BY RunningSum DEF IsSumFrom, Messages
<1> HIDE DEF c, d
<1>3. 0 \in S
  BY <1>1, <1>2, Bounds
<1>4. ASSUME NEW i \in 0 .. MaxMessages - 1, i \in S
      PROVE  i + 1 \in S
  <2> DEFINE k == MaxMessages + 1 - (i + 1)
  <2>1. /\ k \in Messages /\ k + 1 = MaxMessages + 1 - i
        /\ k \in 1 .. MaxMessages + 1 /\ k + 1 \in 1 .. MaxMessages + 1
    BY Bounds DEF Messages
  <2>2. c[k + 1] <= d[k + 1]
    BY <1>4, <2>1
  <2> HIDE DEF k
  <2>3. Weight(bytes, rows, k) <= Weight(more, wider, k)
    BY <2>1 DEF Weight
  <2>4. Weight(bytes, rows, k) \in Nat /\ Weight(more, wider, k) \in Nat
    BY <2>1, WeightType
  <2>5. /\ c[k] = c[k + 1] + Weight(bytes, rows, k)
        /\ d[k] = d[k + 1] + Weight(more, wider, k)
        /\ c[k + 1] \in Nat /\ d[k + 1] \in Nat
    BY <1>1, <1>2, <2>1
  <2>6. c[k] <= d[k]
    BY <2>2, <2>3, <2>4, <2>5
  <2>7. QED
    BY <2>6 DEF k
<1>5. MaxMessages + 1 - o \in S
  <2> HIDE DEF S
  <2>1. MaxMessages + 1 - o \in 0 .. MaxMessages
    BY Bounds DEF Messages
  <2>2. QED
    BY <1>3, <1>4, <2>1, Bounds, CountUp
<1>6. MaxMessages + 1 - (MaxMessages + 1 - o) = o
  BY Bounds DEF Messages
<1>7. QED
  BY <1>5, <1>6 DEF c, d

-----------------------------------------------------------------------------
(* Types *)

\* A summary at work holds what it read.
LEMMA SessionTypes ==
  ASSUME TypeOK
  PROVE  /\ summarizer.phase \in {"rest", "model", "store", "mark"}
         /\ InSession => summarizer \in [phase : {"model", "store", "mark"},
                                         window : SUBSET (1 .. written),
                                         cut : SUBSET (1 .. written), last : 0 .. written]
         /\ ~InSession => summarizer = Resting
BY DEF TypeOK, Resting, InSession

LEMMA SizeTypes == TypeOK => size \in [Messages -> Nat] /\ at \in [Messages -> Nat]
<1>1. Sizes \union {0} \subseteq Nat
  BY MemoryAssumption DEF MemoryAssumption
<1>2. 0 .. MaxClock \subseteq Nat
  BY Bounds
<1>3. QED
  BY <1>1, <1>2 DEF TypeOK

LEMMA WrittenTypes ==
  ASSUME TypeOK
  PROVE  /\ written \in Nat /\ written <= MaxMessages
         /\ \A m \in 1 .. written : m \in Messages
         /\ written < MaxMessages => written + 1 \in Messages
BY Bounds DEF TypeOK, Messages

LEMMA InitTypeOK == Init => TypeOK
BY Bounds DEF Init, TypeOK, Resting

LEMMA NextTypeOK == TypeOK /\ [Next]_vars => TypeOK'
<1> SUFFICES ASSUME TypeOK, [Next]_vars PROVE TypeOK'
  OBVIOUS
<1> USE Bounds DEF table
<1>1. ASSUME NEW bytes \in Sizes, Append(bytes)
      PROVE  TypeOK'
  <2>1. /\ written + 1 \in Messages /\ written' = written + 1
        /\ written' \in 0 .. MaxMessages
        /\ 1 .. written \subseteq 1 .. written' /\ 0 .. written \subseteq 0 .. written'
    BY <1>1 DEF Append, TypeOK, Messages
  <2>2. size' \in [Messages -> Sizes \union {0}] /\ at' \in [Messages -> 0 .. MaxClock]
    BY <1>1, <2>1 DEF Append, TypeOK, CreatedAt
  <2>3. history' \subseteq 1 .. written' /\ passedOver' \subseteq 1 .. written'
    BY <1>1, <2>1 DEF Append, TypeOK
  <2>4. summarizer' \in {Resting} \union
          [phase : {"model", "store", "mark"}, window : SUBSET (1 .. written'),
           cut : SUBSET (1 .. written'), last : 0 .. written']
    <3>1. summarizer' = summarizer
      BY <1>1 DEF Append
    <3>2. CASE ~InSession
      BY <3>1, <3>2, SessionTypes
    <3>3. CASE InSession
      BY <2>1, <3>1, <3>3, SessionTypes
    <3>4. QED
      BY <3>2, <3>3
  <2>5. QED
    BY <1>1, <2>1, <2>2, <2>3, <2>4 DEF Append, TypeOK
<1>2. ASSUME NEW budget \in WindowBudgets, ReadWindow(budget)
      PROVE  TypeOK'
  <2>1. Window(budget) \subseteq 1 .. written /\ Since \ Window(budget) \subseteq 1 .. written
        /\ written \in 0 .. written
    <3>1. Since \subseteq 1 .. written
      BY DEF Since, TypeOK
    <3>2. Window(budget) \subseteq Since
      BY DEF Window
    <3>3. written \in 0 .. written
      BY WrittenTypes
    <3>4. QED
      BY <3>1, <3>2, <3>3
  <2>2. QED
    BY <1>2, <2>1 DEF ReadWindow, TypeOK
<1>3. CASE ModelFails
  BY <1>3 DEF ModelFails, TypeOK
<1>4. CASE ModelAnswers
  <2>1. summarizer' \in [phase : {"model", "store", "mark"}, window : SUBSET (1 .. written),
                         cut : SUBSET (1 .. written), last : 0 .. written]
    BY <1>4, SessionTypes DEF ModelAnswers, InSession
  <2>2. QED
    BY <1>4, <2>1 DEF ModelAnswers, TypeOK
<1>5. CASE SetMemory
  <2>1. summarizer' \in [phase : {"model", "store", "mark"}, window : SUBSET (1 .. written),
                         cut : SUBSET (1 .. written), last : 0 .. written]
    BY <1>5, SessionTypes DEF SetMemory, InSession
  <2>2. folded' \in [Messages -> Nat]
    BY <1>5 DEF SetMemory, TypeOK
  <2>3. QED
    BY <1>5, <2>1, <2>2 DEF SetMemory, TypeOK
<1>6. CASE SetMemorySummarizedAt
  <2>1. summarizer.cut \subseteq 1 .. written /\ (summarizer.last + 1) .. written \subseteq 1 .. written
    <3>1. summarizer.cut \in SUBSET (1 .. written) /\ summarizer.last \in 0 .. written
      BY <1>6, SessionTypes DEF SetMemorySummarizedAt, InSession
    <3>2. QED
      BY <3>1, WrittenTypes
  <2>2. clock' \in 0 .. MaxClock /\ summarizedAt' \in -1 .. MaxClock
    BY <1>6 DEF SetMemorySummarizedAt, TypeOK
  <2>3. passedOver' \subseteq 1 .. written
    BY <1>6, <2>1 DEF SetMemorySummarizedAt, TypeOK
  <2>4. QED
    BY <1>6, <2>2, <2>3 DEF SetMemorySummarizedAt, TypeOK
<1>7. CASE Abort
  BY <1>7 DEF Abort, Fault, TypeOK
<1>8. CASE Prune
  BY <1>8 DEF Prune, TypeOK
<1>9. CASE UNCHANGED vars
  BY <1>9 DEF vars, TypeOK
<1>10. QED
  BY <1>1, <1>2, <1>3, <1>4, <1>5, <1>6, <1>7, <1>8, <1>9 DEF Next

-----------------------------------------------------------------------------
(* The clock *)

LEMMA InitTimes == Init => TimesInOrder
BY DEF Init, TimesInOrder

LEMMA NextTimes == TypeOK /\ TimesInOrder /\ [Next]_vars => TimesInOrder'
<1> SUFFICES ASSUME TypeOK, TimesInOrder, [Next]_vars PROVE TimesInOrder'
  OBVIOUS
<1> USE Bounds DEF table
<1>1. written \in Nat /\ clock \in Nat /\ summarizedAt \in Int /\ at \in [Messages -> Nat]
  BY SizeTypes DEF TypeOK
<1>2. ASSUME NEW bytes \in Sizes, Append(bytes)
      PROVE  TimesInOrder'
  <2>1. written' = written + 1 /\ at'[written + 1] = clock /\ clock' = clock
        /\ summarizedAt' = summarizedAt
        /\ \A m \in 1 .. written : at'[m] = at[m]
    BY <1>1, <1>2 DEF Append, CreatedAt, Messages
  <2>2. \A m \in 1 .. written' : m \in 1 .. written \/ m = written + 1
    BY <1>1, <2>1
  <2>3. \A m, o \in 1 .. written' : m <= o => at'[m] <= at'[o]
    <3>1. SUFFICES ASSUME NEW m \in 1 .. written', NEW o \in 1 .. written', m <= o
                   PROVE  at'[m] <= at'[o]
      OBVIOUS
    <3>2. CASE o \in 1 .. written
      BY <1>1, <2>1, <3>1, <3>2 DEF TimesInOrder
    <3>3. CASE o = written + 1 /\ m \in 1 .. written
      BY <1>1, <2>1, <3>3 DEF TimesInOrder
    <3>4. CASE o = written + 1 /\ m = written + 1
      BY <1>1, <2>1, <3>4
    <3>5. QED
      BY <2>2, <3>2, <3>3, <3>4
  <2>4. \A m \in 1 .. written' : at'[m] <= clock'
    BY <1>1, <2>1, <2>2 DEF TimesInOrder
  <2>5. QED
    BY <2>1, <2>3, <2>4 DEF TimesInOrder
<1>3. ASSUME UNCHANGED <<written, at>>, clock' \in {clock, clock + 1},
             summarizedAt' = summarizedAt \/ (summarizedAt' = clock /\ clock' = clock + 1)
      PROVE  TimesInOrder'
  <2>1. \A m \in 1 .. written : at[m] \in Nat
    BY <1>1, WrittenTypes
  <2>2. \A m \in 1 .. written : at[m] <= clock'
    BY <1>1, <1>3, <2>1 DEF TimesInOrder
  <2>3. summarizedAt' < clock' \/ summarizedAt' = -1
    BY <1>1, <1>3 DEF TimesInOrder
  <2>4. QED
    BY <1>3, <2>2, <2>3 DEF TimesInOrder
<1>4. QED
  BY <1>2, <1>3 DEF Next, ReadWindow, ModelFails, ModelAnswers, SetMemory, SetMemorySummarizedAt,
    Abort, Prune, vars

-----------------------------------------------------------------------------
(* The history *)

\* Older messages go first: with a row its elders are prunable.
LEMMA PruneTakesTheOldest ==
  ASSUME TypeOK, TimesInOrder, NEW m \in Prunable, NEW o \in history, o <= m
  PROVE  o \in Prunable
<1>1. m \in history /\ m \in Messages /\ o \in Messages /\ m \in 1 .. written /\ o \in 1 .. written
  BY Bounds DEF TypeOK, Prunable, Messages
<1>2. CumBytes(size, history)[m] <= CumBytes(size, history)[o]
  BY <1>1, SizeTypes, SumGrows
<1>3. CumBytes(size, history)[m] \in Nat /\ CumBytes(size, history)[o] \in Nat
  BY <1>1, SizeTypes, SumType
<1>4. at[o] <= at[m] /\ at[o] \in Nat /\ at[m] \in Nat /\ summarizedAt \in Int
  BY <1>1, SizeTypes DEF TimesInOrder, TypeOK
<1>5. QED
  BY <1>1, <1>2, <1>3, <1>4, Bounds DEF Prunable

LEMMA NextHistory ==
  ASSUME TypeOK, TypeOK', TimesInOrder, HistoryHasNoHoles, RecentHistoryKept, [Next]_vars
  PROVE  HistoryHasNoHoles' /\ RecentHistoryKept'
<1> USE DEF table
<1>1. CASE UNCHANGED table
  BY <1>1 DEF HistoryHasNoHoles, RecentHistoryKept, Pruned
<1>2. ASSUME NEW bytes \in Sizes, Append(bytes)
      PROVE  HistoryHasNoHoles' /\ RecentHistoryKept'
  <2>1. /\ written \in Nat /\ written' = written + 1 /\ written + 1 \in Messages
        /\ history' = history \union {written + 1}
        /\ \A m \in Messages : m # written + 1 => size'[m] = size[m]
    BY <1>2, Bounds DEF Append, TypeOK, Messages
  <2>2. Pruned' = Pruned
    BY <2>1 DEF Pruned, TypeOK
  <2>3. HistoryHasNoHoles'
    BY <2>1, <2>2 DEF HistoryHasNoHoles, Pruned
  <2>4. ASSUME NEW m \in 1 .. written', CumBytes(size', 1 .. written')[m] <= KeepBytes
        PROVE  m \in history'
    <3>1. CASE m = written + 1
      BY <2>1, <3>1
    <3>2. CASE m \in 1 .. written
      <4>1. m \in Messages /\ 1 .. written \subseteq 1 .. written'
            /\ \A o \in Messages : o \in 1 .. written => o # written + 1
        BY <2>1, <3>2, WrittenTypes
      <4>2. size \in [Messages -> Nat] /\ size' \in [Messages -> Nat]
        <5>1. Sizes \union {0} \subseteq Nat
          BY MemoryAssumption DEF MemoryAssumption
        <5>2. QED
          BY <5>1 DEF TypeOK
      <4>3. \A o \in Messages : o \in 1 .. written => size[o] <= size'[o]
        BY <2>1, <4>1, <4>2
      <4>4. CumBytes(size, 1 .. written)[m] <= CumBytes(size', 1 .. written')[m]
        BY <4>1, <4>2, <4>3, SumMonotone
      <4>5. CumBytes(size, 1 .. written)[m] \in Nat /\ CumBytes(size', 1 .. written')[m] \in Nat
        BY <4>1, <4>2, SumType
      <4>6. CumBytes(size, 1 .. written)[m] <= KeepBytes
        BY <2>4, <4>4, <4>5, Bounds
      <4>7. QED
        BY <2>1, <3>2, <4>6 DEF RecentHistoryKept
    <3>3. QED
      BY <2>1, <3>1, <3>2
  <2>5. QED
    BY <2>3, <2>4 DEF RecentHistoryKept
<1>3. CASE Prune
  <2>1. history' = history \ Prunable /\ UNCHANGED <<written, size>> /\ history \subseteq 1 .. written
    BY <1>3 DEF Prune, TypeOK
  <2>2. ASSUME NEW m \in Pruned', NEW o \in history'
        PROVE  m < o
    <3>1. o \in history /\ o \notin Prunable /\ o \in 1 .. written /\ m \in 1 .. written
      BY <2>1 DEF Pruned
    <3>2. CASE m \in Pruned
      BY <3>1, <3>2 DEF HistoryHasNoHoles
    <3>3. CASE m \in Prunable
      BY <3>1, <3>3, PruneTakesTheOldest
    <3>4. QED
      BY <2>1, <3>2, <3>3 DEF Pruned
  <2>3. ASSUME NEW m \in 1 .. written, CumBytes(size, 1 .. written)[m] <= KeepBytes
        PROVE  m \in history'
    <3>1. m \in history /\ m \in Messages
      BY <2>3, WrittenTypes DEF RecentHistoryKept
    <3>2. CumBytes(size, history)[m] <= CumBytes(size, 1 .. written)[m]
      <4>1. size \in [Messages -> Nat] /\ \A o \in Messages : size[o] <= size[o]
        BY SizeTypes
      <4>2. QED
        BY <2>1, <3>1, <4>1, SumMonotone
    <3>3. CumBytes(size, history)[m] \in Nat /\ CumBytes(size, 1 .. written)[m] \in Nat
      BY <3>1, SizeTypes, SumType
    <3>4. CumBytes(size, history)[m] <= KeepBytes
      BY <2>3, <3>2, <3>3, Bounds
    <3>5. m \notin Prunable
      BY <3>3, <3>4, Bounds DEF Prunable
    <3>6. QED
      BY <2>1, <3>1, <3>5
  <2>4. QED
    BY <2>1, <2>2, <2>3 DEF HistoryHasNoHoles, RecentHistoryKept
<1>4. QED
  BY <1>1, <1>2, <1>3 DEF Next, ReadWindow, ModelFails, ModelAnswers, SetMemory,
    SetMemorySummarizedAt, Abort, vars

-----------------------------------------------------------------------------
(* What was read *)

LEMMA NextReadUpToMark == TypeOK /\ TimesInOrder /\ ReadUpToMark /\ [Next]_vars => ReadUpToMark'
<1> SUFFICES ASSUME TypeOK, TimesInOrder, ReadUpToMark, [Next]_vars PROVE ReadUpToMark'
  OBVIOUS
<1> USE DEF table
<1>1. /\ written \in Nat /\ clock \in Nat /\ summarizedAt \in Int
      /\ \A m \in 1 .. written : at[m] \in Nat /\ folded[m] \in Nat
      /\ written <= MaxMessages
  BY SizeTypes, Bounds, WrittenTypes DEF TypeOK
<1>2. ASSUME NEW bytes \in Sizes, Append(bytes)
      PROVE  ReadUpToMark'
  <2>1. /\ written' = written + 1 /\ at'[written + 1] = clock
        /\ UNCHANGED <<folded, passedOver, summarizedAt, summarizer>>
        /\ \A m \in 1 .. written : at'[m] = at[m]
    <3>1. /\ written' = written + 1 /\ written + 1 \in Messages
          /\ UNCHANGED <<folded, passedOver, summarizedAt, summarizer>>
      BY <1>2, WrittenTypes DEF Append
    <3>2. \A m \in 1 .. written : m # written + 1 /\ m \in Messages
      BY <1>1, WrittenTypes
    <3>3. QED
      BY <1>2, <3>1, <3>2, SizeTypes DEF Append, CreatedAt
  <2>2. \A m \in 1 .. written' : m \in 1 .. written \/ m = written + 1
    BY <1>1, <2>1
  <2>3. \A m \in 1 .. written' : at'[m] <= summarizedAt => Accounted(m)'
    BY <1>1, <2>1, <2>2 DEF ReadUpToMark, TimesInOrder, Accounted
  <2>4. Pruned' = Pruned /\ Pruned \subseteq 1 .. written
    BY <1>1, <1>2, <2>1 DEF Pruned, Append, TypeOK
  <2>5. Configured => \A m \in Pruned' : at'[m] <= summarizedAt'
    BY <2>1, <2>4 DEF ReadUpToMark
  <2>6. QED
    BY <2>1, <2>3, <2>5 DEF ReadUpToMark, Accounted, InSession
<1>3. ASSUME NEW budget \in WindowBudgets, ReadWindow(budget)
      PROVE  ReadUpToMark'
  <2>1. /\ Configured /\ summarizer'.phase = "model" /\ summarizer'.last = written
        /\ summarizer'.window \union summarizer'.cut = Since
        /\ UNCHANGED <<written, at, history, folded, passedOver, summarizedAt>>
    BY <1>3 DEF ReadWindow, Window
  <2>2. ASSUME NEW m \in 1 .. written
        PROVE  m \in Since \/ Accounted(m)
    <3>1. CASE m \in history
      BY <1>1, <3>1 DEF Since, ReadUpToMark
    <3>2. CASE m \notin history
      BY <2>1, <3>2 DEF Pruned, ReadUpToMark
    <3>3. QED
      BY <3>1, <3>2
  <2>3. QED
    BY <2>1, <2>2 DEF ReadUpToMark, Accounted, InSession, Pruned
<1>4. CASE ModelFails \/ Abort
  BY <1>4 DEF ModelFails, Abort, Resting, ReadUpToMark, Accounted, InSession, Pruned
<1>5. CASE ModelAnswers
  <2>1. /\ InSession /\ summarizer'.phase = "store" /\ summarizer'.window = summarizer.window
        /\ summarizer'.cut = summarizer.cut /\ summarizer'.last = summarizer.last
    BY <1>5, SessionTypes DEF ModelAnswers, InSession
  <2>2. QED
    BY <1>5, <2>1 DEF ModelAnswers, ReadUpToMark, Accounted, InSession, Pruned
<1>6. CASE SetMemory
  <2>1. /\ InSession /\ summarizer'.phase = "mark" /\ summarizer'.window = summarizer.window
        /\ summarizer'.cut = summarizer.cut /\ summarizer'.last = summarizer.last
        /\ summarizer.window \subseteq 1 .. written /\ summarizer.last \in 0 .. written
    BY <1>6, SessionTypes DEF SetMemory, InSession
  <2>2. \A m \in 1 .. written :
          folded'[m] \in Nat /\ folded[m] <= folded'[m]
            /\ (m \in summarizer.window => folded'[m] > 0)
    BY <1>1, <1>6, WrittenTypes DEF SetMemory
  <2>3. \A m \in 1 .. written : Accounted(m) => Accounted(m)'
    BY <1>1, <1>6, <2>2 DEF SetMemory, Accounted
  <2>4. 1 .. summarizer.last \subseteq 1 .. written
    BY <1>1, <2>1
  <2>5. UNCHANGED <<written, at, history, passedOver, summarizedAt>>
    BY <1>6 DEF SetMemory
  <2>6. QED
    BY <2>1, <2>2, <2>3, <2>4, <2>5 DEF ReadUpToMark, InSession, Pruned
<1>7. CASE SetMemorySummarizedAt
  <2>1. /\ summarizer.phase = "mark" /\ InSession /\ summarizer.last \in 0 .. written
        /\ summarizer'.phase = "rest"
        /\ summarizedAt' = clock /\ UNCHANGED <<written, at, history, folded>>
        /\ passedOver' = passedOver \union summarizer.cut \union (summarizer.last + 1) .. written
    BY <1>7, SessionTypes DEF SetMemorySummarizedAt, InSession, Resting
  <2>2. ASSUME NEW m \in 1 .. written
        PROVE  Accounted(m)' /\ at[m] <= clock
    <3>1. CASE m \in 1 .. summarizer.last
      BY <2>1, <3>1 DEF ReadUpToMark, Accounted, TimesInOrder
    <3>2. CASE m \in (summarizer.last + 1) .. written
      BY <2>1, <3>2 DEF Accounted, TimesInOrder
    <3>3. QED
      BY <1>1, <2>1, <3>1, <3>2
  <2>3. QED
    BY <2>1, <2>2 DEF ReadUpToMark, InSession, Pruned
<1>8. CASE Prune
  <2>1. /\ UNCHANGED <<written, at, folded, passedOver, summarizedAt, summarizer>>
        /\ history' = history \ Prunable
    BY <1>8 DEF Prune
  <2>2. Configured => \A m \in Pruned' : at[m] <= summarizedAt
    BY <2>1 DEF Pruned, Prunable, ReadUpToMark
  <2>3. QED
    BY <2>1, <2>2 DEF ReadUpToMark, Accounted, InSession
<1>9. CASE UNCHANGED vars
  BY <1>9 DEF vars, ReadUpToMark, Accounted, InSession, Pruned
<1>10. QED
  BY <1>2, <1>3, <1>4, <1>5, <1>6, <1>7, <1>8, <1>9 DEF Next

LEMMA NextUnfolded == TypeOK /\ TimesInOrder /\ UnreadIsUnfolded /\ [Next]_vars => UnreadIsUnfolded'
<1> SUFFICES ASSUME TypeOK, TimesInOrder, UnreadIsUnfolded, [Next]_vars PROVE UnreadIsUnfolded'
  OBVIOUS
<1> USE DEF table
<1>1. /\ written \in Nat /\ clock \in Nat /\ summarizedAt \in Int /\ faults \in Nat
      /\ \A m \in Messages : folded[m] \in Nat
      /\ \A m \in 1 .. written : m \in Messages /\ at[m] \in Nat
      /\ written <= MaxMessages
  BY SizeTypes, Bounds DEF TypeOK, Messages
<1>2. ASSUME NEW bytes \in Sizes, Append(bytes)
      PROVE  UnreadIsUnfolded'
  <2>1. /\ written' = written + 1 /\ written + 1 \in Messages
        /\ UNCHANGED <<clock, folded, faults, summarizedAt, summarizer>>
        /\ \A m \in 1 .. written : at'[m] = at[m]
        /\ \A m \in 1 .. written' : m \in 1 .. written \/ m = written + 1
    <3>1. /\ written' = written + 1 /\ written + 1 \in Messages
          /\ UNCHANGED <<clock, folded, faults, summarizedAt, summarizer>>
      BY <1>2, WrittenTypes DEF Append
    <3>2. \A m \in 1 .. written : m # written + 1 /\ m \in Messages
      BY <1>1, WrittenTypes
    <3>3. \A m \in 1 .. written + 1 : m \in 1 .. written \/ m = written + 1
      BY <1>1
    <3>4. QED
      BY <1>2, <3>1, <3>2, <3>3, SizeTypes DEF Append
  <2>2. folded[written + 1] = 0
    BY <1>1, <2>1 DEF UnreadIsUnfolded
  <2>3. \A m \in Messages : m > written' => m > written
    BY <1>1, <2>1, Bounds DEF Messages
  <2>4. InSession => summarizer.window \subseteq 1 .. written
    BY SessionTypes
  <2>5. \A m \in 1 .. written' :
          at'[m] >= summarizedAt =>
            folded[m] <= faults \/ (summarizer.phase = "mark" /\ m \in summarizer.window)
    BY <1>1, <2>1, <2>2 DEF UnreadIsUnfolded
  <2>6. QED
    BY <2>1, <2>3, <2>4, <2>5 DEF UnreadIsUnfolded, InSession
<1>3. ASSUME NEW budget \in WindowBudgets, ReadWindow(budget)
      PROVE  UnreadIsUnfolded'
  <2>1. /\ summarizer'.phase = "model" /\ summarizer'.window \subseteq Since
        /\ summarizer.phase = "rest"
        /\ UNCHANGED <<clock, written, at, folded, faults, summarizedAt>>
    BY <1>3 DEF ReadWindow, Window, Resting
  <2>2. QED
    BY <2>1 DEF UnreadIsUnfolded, InSession, Since
<1>4. CASE ModelFails
  BY <1>4 DEF ModelFails, Resting, UnreadIsUnfolded, InSession
<1>5. CASE Abort
  <2>1. /\ faults' = faults + 1 /\ summarizer'.phase = "rest"
        /\ UNCHANGED <<clock, written, at, folded, summarizedAt>>
    BY <1>5 DEF Abort, Fault, Resting
  <2>2. \A m \in Messages : folded[m] <= faults'
    BY <1>1, <2>1 DEF UnreadIsUnfolded
  <2>3. \A m \in Messages : folded[m] <= 1 + faults'
    BY <1>1, <2>1, <2>2
  <2>4. QED
    BY <1>1, <2>1, <2>2, <2>3 DEF UnreadIsUnfolded, InSession
<1>6. CASE ModelAnswers
  <2>1. /\ InSession /\ summarizer.phase = "model" /\ summarizer'.phase = "store"
        /\ summarizer'.window = summarizer.window /\ summarizer.window \subseteq 1 .. written
        /\ clock' = clock + 1 /\ UNCHANGED <<written, at, folded, faults, summarizedAt>>
    BY <1>6, SessionTypes DEF ModelAnswers, InSession
  <2>2. \A m \in summarizer.window : at[m] < clock'
    BY <1>1, <2>1 DEF TimesInOrder
  <2>3. QED
    BY <2>1, <2>2 DEF UnreadIsUnfolded, InSession
<1>7. CASE SetMemory
  <2>1. /\ InSession /\ summarizer.phase = "store" /\ summarizer'.phase = "mark"
        /\ summarizer'.window = summarizer.window /\ summarizer.window \subseteq 1 .. written
        /\ UNCHANGED <<clock, written, at, faults, summarizedAt>>
    BY <1>7, SessionTypes DEF SetMemory, InSession
  <2>2. \A m \in Messages :
          folded'[m] = IF m \in summarizer.window THEN folded[m] + 1 ELSE folded[m]
    BY <1>7 DEF SetMemory
  <2>3. \A m \in summarizer.window : folded[m] <= faults
    BY <2>1 DEF UnreadIsUnfolded
  <2>4. \A m \in Messages : folded'[m] <= 1 + faults
    BY <1>1, <2>2, <2>3 DEF UnreadIsUnfolded
  <2>5. \A m \in Messages : m > written => folded'[m] = 0
    BY <1>1, <2>1, <2>2 DEF UnreadIsUnfolded
  <2>6. \A m \in 1 .. written : at[m] >= summarizedAt =>
          folded'[m] <= faults \/ m \in summarizer.window
    BY <1>1, <2>1, <2>2 DEF UnreadIsUnfolded
  <2>7. QED
    BY <2>1, <2>4, <2>5, <2>6 DEF UnreadIsUnfolded, InSession
<1>8. CASE SetMemorySummarizedAt
  <2>1. /\ InSession /\ summarizer.phase = "mark" /\ summarizer'.phase = "rest"
        /\ summarizedAt' = clock /\ UNCHANGED <<written, at, folded, faults>>
    BY <1>8 DEF SetMemorySummarizedAt, InSession, Resting
  <2>2. ASSUME NEW m \in 1 .. written, at[m] >= clock
        PROVE  folded[m] <= faults
    <3>1. at[m] >= summarizedAt
      BY <1>1, <2>2 DEF TimesInOrder
    <3>2. m \notin summarizer.window
      BY <1>1, <2>1, <2>2 DEF UnreadIsUnfolded
    <3>3. QED
      BY <3>1, <3>2 DEF UnreadIsUnfolded
  <2>3. QED
    BY <2>1, <2>2 DEF UnreadIsUnfolded, InSession
<1>9. CASE Prune \/ UNCHANGED vars
  BY <1>9 DEF Prune, vars, UnreadIsUnfolded, InSession
<1>10. QED
  BY <1>2, <1>3, <1>4, <1>5, <1>6, <1>7, <1>8, <1>9 DEF Next

-----------------------------------------------------------------------------
(* The theorems *)

\* The table holds the newest of what was written, without a hole, and at least
\* what the byte budget keeps (PruneChatByBytes).
THEOREM HistoryStaysWhole == Spec => []HistoryInv
<1> DEFINE Inv == TypeOK /\ TimesInOrder /\ HistoryHasNoHoles /\ RecentHistoryKept
<1>1. Init => Inv
  <2>1. Init => HistoryHasNoHoles /\ RecentHistoryKept
    BY DEF Init, HistoryHasNoHoles, RecentHistoryKept
  <2>2. QED
    BY <2>1, InitTypeOK, InitTimes
<1>2. Inv /\ [Next]_vars => Inv'
  BY NextTypeOK, NextTimes, NextHistory
<1>3. QED
  BY <1>1, <1>2, PTL DEF Spec, HistoryInv

\* However long the chain is out, only what a completed summary passed over goes
\* without having been read (PruneChatByBytes and SetMemorySummarizedAt).
THEOREM OutagesLoseNothing == Spec => []OutageLosesNothing
<1> DEFINE Inv == TypeOK /\ TimesInOrder /\ ReadUpToMark
<1>1. Init => Inv
  <2>1. Init => ReadUpToMark
    BY DEF Init, ReadUpToMark, Pruned, InSession, Resting
  <2>2. QED
    BY <2>1, InitTypeOK, InitTimes
<1>2. Inv /\ [Next]_vars => Inv'
  BY NextTypeOK, NextTimes, NextReadUpToMark
<1>3. Inv => OutageLosesNothing
  BY DEF OutageLosesNothing, ReadUpToMark, Pruned, Accounted
<1>4. QED
  BY <1>1, <1>2, <1>3, PTL DEF Spec

\* A message is folded in again only after a fault (SetMemory and
\* SetMemorySummarizedAt are two statements).
THEOREM FoldsFollowFaults == Spec => []FoldedOncePerFault
<1> DEFINE Inv == TypeOK /\ TimesInOrder /\ UnreadIsUnfolded
<1>1. Init => Inv
  <2>1. Init => UnreadIsUnfolded
    BY DEF Init, UnreadIsUnfolded, InSession, Resting
  <2>2. QED
    BY <2>1, InitTypeOK, InitTimes
<1>2. Inv /\ [Next]_vars => Inv'
  BY NextTypeOK, NextTimes, NextUnfolded
<1>3. Inv => FoldedOncePerFault
  BY DEF FoldedOncePerFault, UnreadIsUnfolded
<1>4. QED
  BY <1>1, <1>2, <1>3, PTL DEF Spec
=============================================================================

--------------------------- MODULE MemberJoinProofs ---------------------------
(***************************************************************************)
(* Theorems about MemberJoin for every set of people, symbols and          *)
(* goroutines and every number of joins, presses and failures.             *)
(***************************************************************************)
EXTENDS MemberJoin, TLAPS

Rows == [left : BOOLEAN, requested : {"null", "fresh", "old"},
         emoji : Emojis \union {NoEmoji}, message : 0 .. posted,
         solved : BOOLEAN, greeted : BOOLEAN]

-----------------------------------------------------------------------------
(* Facts about the helpers *)

\* What a goroutine carries is told by where it is.
LEMMA AtTypes ==
  ASSUME TypeOK, NEW a \in Actors
  PROVE  /\ proc[a].at = "member" =>
              proc[a] \in [at : {"member"}, batch : Batches, todo : SUBSET Members]
         /\ proc[a].at \in {"inherit", "claim"} =>
              proc[a] \in [at : {"inherit", "claim"}, member : Members,
                           batch : Batches, todo : SUBSET Members]
         /\ proc[a].at \in {"mute", "post", "release"} =>
              proc[a] \in [at : {"mute", "post", "release"}, member : Members, emoji : Emojis,
                           batch : Batches, todo : SUBSET Members]
         /\ proc[a].at = "details" =>
              proc[a] \in [at : {"details"}, post : PostRecord, batch : Batches,
                           todo : SUBSET Members]
         /\ proc[a].at = "greet" =>
              proc[a] \in [at : {"greet"}, batch : Batches, todo : SUBSET Members,
                           claimed : SUBSET Members]
         /\ proc[a].at \in {"welcome", "ungreet"} =>
              proc[a] \in [at : {"welcome", "ungreet"}, claimed : SUBSET Members]
         /\ proc[a].at \in {"pending", "ensure", "mark", "markUser", "unmute", "tidy"} =>
              proc[a] \in PressStates
         /\ proc[a].at \in {"isMuted", "ban", "unban", "delete", "clear"} =>
              proc[a] \in FailStates(IF a = Sweeper THEN SUBSET Expiry ELSE {{}})
         /\ proc[a].at = "expired" =>
              a = Sweeper /\ proc[a] \in [at : {"expired"}, todo : SUBSET Expiry]
BY DEF TypeOK, States, HandlerStates, SweeperStates, ChallengeStates, GreetStates,
       PressStates, FailStates, Resting

\* Only the goroutine of an update handles joins, greetings and presses.
LEMMA SweeperOnlySweeps ==
  ASSUME TypeOK
  PROVE  proc[Sweeper].at \in {"rest", "expired", "isMuted", "ban", "unban", "delete", "clear"}
BY DEF TypeOK, States, SweeperStates, FailStates, Resting, Actors

\* While nothing is posted the types of what goroutines carry stay the same.
LEMMA SameStates ==
  ASSUME posted' = posted
  PROVE  PostRecord' = PostRecord /\ Rows' = Rows /\ \A a \in Actors : States(a)' = States(a)
BY DEF PostRecord, Rows, Expiry, States, HandlerStates, SweeperStates, ChallengeStates,
       GreetStates, PressStates, FailStates

\* One goroutine moves on to a state of its own.
LEMMA GotoType ==
  ASSUME TypeOK, posted' = posted, NEW a \in Actors, NEW s \in States(a), Goto(a, s)
  PROVE  /\ proc' \in [Actors -> HandlerStates \union SweeperStates]'
         /\ \A b \in Actors : proc'[b] \in States(b)'
BY SameStates DEF TypeOK, Goto, States

\* The next state of a delivery, of a greeting and of a failure is one of its own.
LEMMA NextStateTypes ==
  ASSUME TypeOK
  PROVE  /\ \A batch \in Batches, todo \in SUBSET Members, claimed \in SUBSET Members :
              /\ Greet(batch, todo, claimed) \in HandlerStates
              /\ Challenge(batch, todo) \in HandlerStates
         /\ FailNext({}) \in HandlerStates
         /\ \A todo \in SUBSET Expiry : FailNext(todo) \in SweeperStates
         /\ \A m \in Members, n \in 0 .. posted :
              /\ Fail(m, n, {}) \in HandlerStates
              /\ \A todo \in SUBSET Expiry : Fail(m, n, todo) \in SweeperStates
<1>1. ASSUME NEW batch \in Batches, NEW todo \in SUBSET Members, NEW claimed \in SUBSET Members
      PROVE  Greet(batch, todo, claimed) \in GreetStates \union {Resting}
  BY DEF Greet, GreetStates
<1>2. ASSUME NEW batch \in Batches, NEW todo \in SUBSET Members
      PROVE  Challenge(batch, todo) \in HandlerStates
  <2>1. batch \in SUBSET Members /\ {} \in SUBSET Members
    BY DEF Batches
  <2>2. Greet(batch, batch, {}) \in GreetStates \union {Resting}
    BY <1>1, <2>1
  <2>3. [at |-> "member", batch |-> batch, todo |-> todo] \in ChallengeStates
    BY DEF ChallengeStates
  <2>4. QED
    BY <2>2, <2>3 DEF Challenge, HandlerStates
<1>3. QED
  BY <1>1, <1>2 DEF FailNext, Fail, HandlerStates, SweeperStates, FailStates

\* What the statements write is a row.
LEMMA RowTypes ==
  ASSUME TypeOK, NEW r \in Rows
  PROVE  /\ WithoutChallenge(r) \in Rows /\ Solved(r) \in Rows
         /\ \A b \in BOOLEAN : /\ [r EXCEPT !.left = b] \in Rows
                               /\ [r EXCEPT !.greeted = b] \in Rows
         /\ \A q \in {"fresh", "old"} : [r EXCEPT !.requested = q] \in Rows
         /\ \A e \in Emojis, n \in 0 .. posted :
              [r EXCEPT !.emoji = e, !.message = n] \in Rows
<1>1. 0 \in 0 .. posted
  BY DEF TypeOK
<1>2. WithoutChallenge(r) \in Rows
  BY <1>1 DEF Rows, WithoutChallenge
<1>3. Solved(r) \in Rows
  BY <1>2 DEF Rows, Solved
<1>4. \A e \in Emojis, n \in 0 .. posted : [r EXCEPT !.emoji = e, !.message = n] \in Rows
  BY DEF Rows
<1>5. QED
  BY <1>2, <1>3, <1>4 DEF Rows

\* A statement on the row of one member keeps the table.
LEMMA SetRowType ==
  ASSUME TypeOK, posted' = posted, NEW m \in Members, NEW r \in Rows, SetRow(m, r)
  PROVE  row' \in [Members -> Rows]'
BY SameStates DEF TypeOK, SetRow, Rows

\* So does giving a claim up, and its count.
LEMMA ReleaseType ==
  ASSUME TypeOK, posted' = posted, NEW m \in Members, Release(m)
  PROVE  row' \in [Members -> Rows]' /\ releases' \in [Members -> Nat]
<1>1. row[m] \in Rows /\ releases[m] + 1 \in Nat
  BY DEF TypeOK, Rows
<1>2. row' \in [Members -> Rows]'
  BY <1>1, RowTypes, SetRowType DEF Release
<1>3. QED
  BY <1>1, <1>2 DEF Release, TypeOK

-----------------------------------------------------------------------------
(* Types *)

\* The chat, the tables and the process begin with their types.
LEMMA InitTypeOK == Init => TypeOK
<1> SUFFICES ASSUME Init PROVE TypeOK
  OBVIOUS
<1>1. 0 \in 0 .. MaxPresses /\ 0 \in 0 .. MaxFaults
  BY JoinAssumption
<1>2. NewRow \in Rows
  BY DEF NewRow, Rows, Init
<1>3. \A a \in Actors : proc[a] = Resting /\ Resting \in States(a)
  BY DEF Init, States, HandlerStates, SweeperStates
<1>4. proc \in [Actors -> HandlerStates \union SweeperStates]
  BY DEF Init, HandlerStates
<1>5. solvedGlobally \in [Members -> BOOLEAN]
  BY DEF Init
<1>6. QED
  BY <1>1, <1>2, <1>3, <1>4, <1>5 DEF Init, TypeOK, Rows

\* No statement, call, failure, restart or person leaves the types.
LEMMA StepTypeOK == TypeOK /\ [Next]_vars => TypeOK'
<1> SUFFICES ASSUME TypeOK, [Next]_vars PROVE TypeOK'
  OBVIOUS
<1> USE DEF telegram, database, settings, history
<1>a. Fault \/ UNCHANGED faults => faults' \in 0 .. MaxFaults
  BY JoinAssumption DEF Fault, TypeOK
<1>b. \A a \in Actors : States(a) = IF a = Sweeper THEN SweeperStates ELSE HandlerStates
  BY DEF States
<1>c. \A h \in Handlers : h \in Actors /\ h # Sweeper /\ States(h) = HandlerStates
  BY JoinAssumption DEF Actors, States
<1>d. \A m \in Members : row[m] \in Rows
  BY DEF TypeOK, Rows
<1>e. UNCHANGED row /\ posted' = posted => row' \in [Members -> Rows]'
  BY SameStates DEF TypeOK, Rows
<1>f. UNCHANGED proc /\ posted' = posted =>
        /\ proc' \in [Actors -> HandlerStates \union SweeperStates]'
        /\ \A a \in Actors : proc'[a] \in States(a)'
  BY SameStates DEF TypeOK, States, HandlerStates, SweeperStates, ChallengeStates,
       GreetStates, PressStates, FailStates, Expiry
<1>g. UNCHANGED <<posted, posts>> => posts' \subseteq PostRecord'
  BY DEF TypeOK, PostRecord
<1>h. Resting \in HandlerStates /\ Resting \in SweeperStates
  BY DEF HandlerStates, SweeperStates
<1>1. ASSUME NEW S \in Batches, Join(S) PROVE TypeOK'
  <2> QED
    BY <1>1, <1>a, <1>d, <1>e, <1>f, <1>g DEF Join, TypeOK, Rows, Attempt
<1>2. ASSUME NEW m \in Members, Leave(m) PROVE TypeOK'
  <2> QED
    BY <1>2, <1>a, <1>d, <1>e, <1>f, <1>g DEF Leave, TypeOK, Rows, Attempt
<1>3. ASSUME NEW m \in Members, SolveElsewhere(m) PROVE TypeOK'
  <2> QED
    BY <1>3, <1>a, <1>d, <1>e, <1>f, <1>g DEF SolveElsewhere, TypeOK, Rows, Attempt
<1>4. ASSUME NEW m \in Members, Age(m) PROVE TypeOK'
  <2>1. row' \in [Members -> Rows]'
    BY <1>4, <1>d, RowTypes, SetRowType DEF Age
  <2> QED
    BY <1>4, <2>1, <1>a, <1>d, <1>e, <1>f, <1>g DEF Age, TypeOK, Rows, Attempt
<1>5. ASSUME NEW on \in Captcha, SetCaptcha(on) PROVE TypeOK'
  <2> QED
    BY <1>5, <1>a, <1>d, <1>e, <1>f, <1>g DEF SetCaptcha, TypeOK, Rows, Attempt
<1>6. ASSUME NEW h \in Handlers, NEW m \in Members, NEW p \in posts, NEW emoji \in Emojis,
             Press(h, m, p, emoji) PROVE TypeOK'
  <2>1. [at |-> "pending", member |-> m, post |-> p, pressed |-> emoji] \in HandlerStates
    BY DEF TypeOK, HandlerStates, PressStates
  <2>2. /\ proc' \in [Actors -> HandlerStates \union SweeperStates]'
       /\ \A b \in Actors : proc'[b] \in States(b)'
    BY <1>6, <2>1, <1>c, GotoType DEF Press, Goto
  <2>3. presses' \in 0 .. MaxPresses
    BY <1>6, JoinAssumption DEF Press, TypeOK
  <2> QED
    BY <1>6, <2>1, <2>2, <2>3, <1>a, <1>d, <1>e, <1>f, <1>g DEF Press, TypeOK, Rows, Attempt
<1>7. ASSUME NEW h \in Handlers, NEW S \in Batches, ReceiveJoin(h, S) PROVE TypeOK'
  <2>1. S \in SUBSET Members /\ {} \in SUBSET Members
    BY DEF Batches
  <2>2. \A on \in BOOLEAN : Challenge(S, IF on THEN S ELSE {}) \in HandlerStates
    BY <2>1, NextStateTypes
  <2>3. Challenge(S, IF captchaOn THEN S ELSE {}) \in HandlerStates
    BY <2>2, JoinAssumption DEF TypeOK
  <2>4. \A m \in Members : [row[m] EXCEPT !.left = m \notin S /\ @] \in Rows
    BY <1>d DEF Rows
  <2>5. row' \in [Members -> Rows]'
    BY <1>7, <2>4, <1>e, SameStates DEF ReceiveJoin, Attempt
  <2>6. joinNotices' \in [Batches -> Nat]
    BY <1>7 DEF ReceiveJoin, TypeOK
  <2>7. /\ proc' \in [Actors -> HandlerStates \union SweeperStates]'
       /\ \A b \in Actors : proc'[b] \in States(b)'
    BY <1>7, <2>1, <2>2, <2>3, <2>4, <2>5, <2>6, <1>c, <1>f, <1>h, GotoType DEF ReceiveJoin, Attempt
  <2> QED
    BY <1>7, <2>1, <2>2, <2>3, <2>4, <2>5, <2>6, <2>7, <1>a, <1>d, <1>e, <1>f, <1>g DEF ReceiveJoin, TypeOK, Rows, Attempt
<1>8. ASSUME NEW h \in Handlers, NEW m \in Members, ReadGlobal(h, m) PROVE TypeOK'
  <2>1. proc[h] \in [at : {"member"}, batch : Batches, todo : SUBSET Members]
    BY <1>8, <1>c, AtTypes DEF ReadGlobal
  <2>2. [at |-> IF solvedGlobally[m] THEN "inherit" ELSE "claim", member |-> m,
        batch |-> proc[h].batch, todo |-> proc[h].todo \ {m}] \in HandlerStates
    BY <2>1 DEF HandlerStates, ChallengeStates
  <2>3. /\ proc' \in [Actors -> HandlerStates \union SweeperStates]'
       /\ \A b \in Actors : proc'[b] \in States(b)'
    BY <1>8, <2>1, <2>2, <1>c, <1>f, <1>h, GotoType DEF ReadGlobal, Attempt
  <2> QED
    BY <1>8, <2>1, <2>2, <2>3, <1>a, <1>d, <1>e, <1>f, <1>g DEF ReadGlobal, TypeOK, Rows, Attempt
<1>9. ASSUME NEW h \in Handlers, Inherit(h) PROVE TypeOK'
  <2>1. proc[h] \in [at : {"inherit", "claim"}, member : Members, batch : Batches, todo : SUBSET Members]
    BY <1>9, <1>c, AtTypes DEF Inherit
  <2>2. NextMember(h) \in HandlerStates
    BY <2>1, NextStateTypes DEF NextMember
  <2>3. row' \in [Members -> Rows]'
    BY <1>9, <2>1, <1>d, <1>e, RowTypes, SetRowType DEF Inherit, Attempt
  <2>4. /\ proc' \in [Actors -> HandlerStates \union SweeperStates]'
       /\ \A b \in Actors : proc'[b] \in States(b)'
    BY <1>9, <2>1, <2>2, <2>3, <1>c, <1>f, <1>h, GotoType DEF Inherit, Attempt
  <2> QED
    BY <1>9, <2>1, <2>2, <2>3, <2>4, <1>a, <1>d, <1>e, <1>f, <1>g DEF Inherit, TypeOK, Rows, Attempt
<1>10. ASSUME NEW h \in Handlers, NEW emoji \in Emojis, Claim(h, emoji) PROVE TypeOK'
  <2>1. proc[h] \in [at : {"inherit", "claim"}, member : Members, batch : Batches, todo : SUBSET Members]
    BY <1>10, <1>c, AtTypes DEF Claim
  <2>2. [at |-> "mute", member |-> proc[h].member, emoji |-> emoji,
        batch |-> proc[h].batch, todo |-> proc[h].todo] \in HandlerStates
    BY <2>1 DEF HandlerStates, ChallengeStates
  <2>3. row' \in [Members -> Rows]'
    BY <1>10, <2>1, <1>d, <1>e, RowTypes, SetRowType DEF Claim
  <2>4. /\ proc' \in [Actors -> HandlerStates \union SweeperStates]'
       /\ \A b \in Actors : proc'[b] \in States(b)'
    BY <1>10, <2>1, <2>2, <2>3, <1>c, <1>f, <1>h, GotoType DEF Claim, Attempt
  <2>5. claims' \in [Members -> Nat]
    BY <1>10, <2>1 DEF Claim, TypeOK
  <2> QED
    BY <1>10, <2>1, <2>2, <2>3, <2>4, <2>5, <1>a, <1>d, <1>e, <1>f, <1>g DEF Claim, TypeOK, Rows, Attempt
<1>11. ASSUME NEW h \in Handlers, ClaimLost(h) PROVE TypeOK'
  <2>1. proc[h] \in [at : {"inherit", "claim"}, member : Members, batch : Batches, todo : SUBSET Members]
    BY <1>11, <1>c, AtTypes DEF ClaimLost
  <2>2. NextMember(h) \in HandlerStates
    BY <2>1, NextStateTypes DEF NextMember
  <2>3. /\ proc' \in [Actors -> HandlerStates \union SweeperStates]'
       /\ \A b \in Actors : proc'[b] \in States(b)'
    BY <1>11, <2>1, <2>2, <1>c, <1>f, <1>h, GotoType DEF ClaimLost, Attempt
  <2> QED
    BY <1>11, <2>1, <2>2, <2>3, <1>a, <1>d, <1>e, <1>f, <1>g DEF ClaimLost, TypeOK, Rows, Attempt
<1>12. ASSUME NEW h \in Handlers, Mute(h) PROVE TypeOK'
  <2>1. proc[h] \in [at : {"mute", "post", "release"}, member : Members, emoji : Emojis,
                       batch : Batches, todo : SUBSET Members]
    BY <1>12, <1>c, AtTypes DEF Mute
  <2>2. [proc[h] EXCEPT !.at = "post"] \in HandlerStates
    BY <2>1 DEF HandlerStates, ChallengeStates
  <2>3. /\ proc' \in [Actors -> HandlerStates \union SweeperStates]'
       /\ \A b \in Actors : proc'[b] \in States(b)'
    BY <1>12, <2>1, <2>2, <1>c, <1>f, <1>h, GotoType DEF Mute, Attempt
  <2>4. muted' \in [Members -> BOOLEAN]
    BY <1>12, <2>1 DEF Mute, Attempt, TypeOK
  <2> QED
    BY <1>12, <2>1, <2>2, <2>3, <2>4, <1>a, <1>d, <1>e, <1>f, <1>g DEF Mute, TypeOK, Rows, Attempt
<1>13. ASSUME NEW h \in Handlers, Post(h) PROVE TypeOK'
  <2> DEFINE p == NewPost(proc[h].member, proc[h].emoji)
             s == [at |-> "details", post |-> p, batch |-> proc[h].batch, todo |-> proc[h].todo]
  <2>1. proc[h] \in [at : {"mute", "post", "release"}, member : Members, emoji : Emojis,
                       batch : Batches, todo : SUBSET Members]
    BY <1>13, <1>c, AtTypes DEF Post
  <2>2. posted \in Nat /\ posted' = posted + 1
    BY <1>13 DEF Post, NewPost, TypeOK
  <2>3. PostRecord \subseteq PostRecord' /\ Rows \subseteq Rows'
    BY <2>2 DEF PostRecord, Rows
  <2>4. p \in PostRecord'
    BY <2>1, <2>2 DEF NewPost, PostRecord
  <2>5. posts' \subseteq PostRecord' /\ row' \in [Members -> Rows]'
    BY <1>13, <2>3, <2>4 DEF Post, TypeOK, Rows
  <2>6. PressStates \subseteq PressStates' /\ ChallengeStates \subseteq ChallengeStates'
    BY <2>3 DEF PressStates, ChallengeStates
  <2>7. Expiry \subseteq Expiry' /\ 0 .. posted \subseteq 0 .. posted'
    BY <2>2 DEF Expiry
  <2>8. /\ FailStates({{}}) \subseteq FailStates({{}})'
        /\ FailStates(SUBSET Expiry) \subseteq FailStates(SUBSET Expiry)'
    BY <2>7 DEF FailStates
  <2>9. HandlerStates \subseteq HandlerStates' /\ SweeperStates \subseteq SweeperStates'
    BY <2>6, <2>7, <2>8 DEF HandlerStates, SweeperStates, GreetStates
  <2>10. s \in HandlerStates'
    BY <2>1, <2>4 DEF HandlerStates, ChallengeStates
  <2>11. proc' = [proc EXCEPT ![h] = s]
    BY <1>13 DEF Post, Goto
  <2>12. /\ proc' \in [Actors -> HandlerStates \union SweeperStates]'
         /\ \A b \in Actors : proc'[b] \in States(b)'
    BY <2>9, <2>10, <2>11, <1>b, <1>c DEF TypeOK, States
  <2> QED
    BY <1>13, <2>2, <2>5, <2>12 DEF Post, TypeOK, Rows
<1>14. ASSUME NEW h \in Handlers, PostFails(h) PROVE TypeOK'
  <2>1. proc[h] \in [at : {"mute", "post", "release"}, member : Members, emoji : Emojis,
                       batch : Batches, todo : SUBSET Members]
    BY <1>14, <1>c, AtTypes DEF PostFails
  <2>2. [proc[h] EXCEPT !.at = "release"] \in HandlerStates
    BY <2>1 DEF HandlerStates, ChallengeStates
  <2>3. /\ proc' \in [Actors -> HandlerStates \union SweeperStates]'
       /\ \A b \in Actors : proc'[b] \in States(b)'
    BY <1>14, <2>1, <2>2, <1>c, <1>f, <1>h, GotoType DEF PostFails, Attempt
  <2> QED
    BY <1>14, <2>1, <2>2, <2>3, <1>a, <1>d, <1>e, <1>f, <1>g DEF PostFails, TypeOK, Rows, Attempt
<1>14b. ASSUME NEW h \in Handlers, PostUnseen(h) PROVE TypeOK'
  <2> DEFINE p == NewPost(proc[h].member, proc[h].emoji)
             s == [proc[h] EXCEPT !.at = "release"]
  <2>1. proc[h] \in [at : {"mute", "post", "release"}, member : Members, emoji : Emojis,
                       batch : Batches, todo : SUBSET Members]
    BY <1>14b, <1>c, AtTypes DEF PostUnseen
  <2>2. posted \in Nat /\ posted' = posted + 1
    BY <1>14b DEF PostUnseen, NewPost, TypeOK
  <2>3. PostRecord \subseteq PostRecord' /\ Rows \subseteq Rows'
    BY <2>2 DEF PostRecord, Rows
  <2>4. p \in PostRecord'
    BY <2>1, <2>2 DEF NewPost, PostRecord
  <2>5. posts' \subseteq PostRecord' /\ row' \in [Members -> Rows]'
    BY <1>14b, <2>3, <2>4 DEF PostUnseen, TypeOK, Rows
  <2>6. PressStates \subseteq PressStates' /\ ChallengeStates \subseteq ChallengeStates'
    BY <2>3 DEF PressStates, ChallengeStates
  <2>7. Expiry \subseteq Expiry' /\ 0 .. posted \subseteq 0 .. posted'
    BY <2>2 DEF Expiry
  <2>8. /\ FailStates({{}}) \subseteq FailStates({{}})'
        /\ FailStates(SUBSET Expiry) \subseteq FailStates(SUBSET Expiry)'
    BY <2>7 DEF FailStates
  <2>9. HandlerStates \subseteq HandlerStates' /\ SweeperStates \subseteq SweeperStates'
    BY <2>6, <2>7, <2>8 DEF HandlerStates, SweeperStates, GreetStates
  <2>10. s \in HandlerStates'
    BY <2>1, <2>4 DEF HandlerStates, ChallengeStates
  <2>11. proc' = [proc EXCEPT ![h] = s]
    BY <1>14b DEF PostUnseen, Goto
  <2>12. /\ proc' \in [Actors -> HandlerStates \union SweeperStates]'
         /\ \A b \in Actors : proc'[b] \in States(b)'
    BY <2>9, <2>10, <2>11, <1>b, <1>c DEF TypeOK, States
  <2>13. faults' \in 0 .. MaxFaults
    BY <1>14b, <1>a DEF PostUnseen
  <2> QED
    BY <1>14b, <2>2, <2>5, <2>12, <2>13 DEF PostUnseen, TypeOK, Rows
<1>15. ASSUME NEW h \in Handlers, ReleaseClaim(h) PROVE TypeOK'
  <2>1. proc[h] \in [at : {"mute", "post", "release"}, member : Members, emoji : Emojis,
                       batch : Batches, todo : SUBSET Members]
    BY <1>15, <1>c, AtTypes DEF ReleaseClaim
  <2>2. NextMember(h) \in HandlerStates
    BY <2>1, NextStateTypes DEF NextMember
  <2>3. row' \in [Members -> Rows]'
    BY <1>15, <2>1, <1>e, ReleaseType DEF ReleaseClaim, Attempt
  <2>4. /\ proc' \in [Actors -> HandlerStates \union SweeperStates]'
       /\ \A b \in Actors : proc'[b] \in States(b)'
    BY <1>15, <2>1, <2>2, <2>3, <1>c, <1>f, <1>h, GotoType DEF ReleaseClaim, Attempt
  <2>5. releases' \in [Members -> Nat]
    BY <1>15, <2>1, ReleaseType DEF ReleaseClaim, Attempt, TypeOK
  <2> QED
    BY <1>15, <2>1, <2>2, <2>3, <2>4, <2>5, <1>a, <1>d, <1>e, <1>f, <1>g DEF ReleaseClaim, TypeOK, Rows, Attempt
<1>16. ASSUME NEW h \in Handlers, SetCaptchaDetails(h) PROVE TypeOK'
  <2>1. proc[h] \in [at : {"details"}, post : PostRecord, batch : Batches, todo : SUBSET Members]
    BY <1>16, <1>c, AtTypes DEF SetCaptchaDetails
  <2>2. NextMember(h) \in HandlerStates
    BY <2>1, NextStateTypes DEF NextMember
  <2>3. /\ proc[h].post.member \in Members /\ proc[h].post.emoji \in Emojis
        /\ proc[h].post.id \in 0 .. posted
    BY <2>1 DEF PostRecord, TypeOK
  <2>4. row' \in [Members -> Rows]'
    BY <1>16, <2>3, <1>d, <1>e, RowTypes, SetRowType DEF SetCaptchaDetails, Attempt
  <2>5. /\ proc' \in [Actors -> HandlerStates \union SweeperStates]'
       /\ \A b \in Actors : proc'[b] \in States(b)'
    BY <1>16, <2>1, <2>2, <2>3, <2>4, <1>c, <1>f, <1>h, GotoType DEF SetCaptchaDetails, Attempt
  <2> QED
    BY <1>16, <2>1, <2>2, <2>3, <2>4, <2>5, <1>a, <1>d, <1>e, <1>f, <1>g DEF SetCaptchaDetails, TypeOK, Rows, Attempt
<1>17. ASSUME NEW h \in Handlers, NEW m \in Members, ClaimGreeting(h, m) PROVE TypeOK'
  <2>1. proc[h] \in [at : {"greet"}, batch : Batches, todo : SUBSET Members,
                       claimed : SUBSET Members]
    BY <1>17, <1>c, AtTypes DEF ClaimGreeting
  <2>2. proc[h].claimed \union Ungreeted(m) \in SUBSET Members
    BY <2>1 DEF Ungreeted
  <2>3. Greet(proc[h].batch, proc[h].todo \ {m}, proc[h].claimed \union Ungreeted(m)) \in HandlerStates
    BY <2>1, <2>2, NextStateTypes
  <2>4. Greet(proc[h].batch, proc[h].todo \ {m}, proc[h].claimed) \in HandlerStates
    BY <2>1, NextStateTypes
  <2>5. row' \in [Members -> Rows]'
    BY <1>17, <2>1, <1>d, <1>e, RowTypes, SetRowType DEF ClaimGreeting, Attempt
  <2>6. /\ proc' \in [Actors -> HandlerStates \union SweeperStates]'
       /\ \A b \in Actors : proc'[b] \in States(b)'
    BY <1>17, <2>1, <2>2, <2>3, <2>4, <2>5, <1>c, <1>f, <1>h, GotoType DEF ClaimGreeting, Attempt
  <2> QED
    BY <1>17, <2>1, <2>2, <2>3, <2>4, <2>5, <2>6, <1>a, <1>d, <1>e, <1>f, <1>g DEF ClaimGreeting, TypeOK, Rows, Attempt
<1>18. ASSUME NEW h \in Handlers, SendGreeting(h) PROVE TypeOK'
  <2>1. proc[h] \in [at : {"welcome", "ungreet"}, claimed : SUBSET Members]
    BY <1>18, <1>c, AtTypes DEF SendGreeting
  <2>2. [proc[h] EXCEPT !.at = "ungreet"] \in HandlerStates
    BY <2>1 DEF HandlerStates, GreetStates
  <2>3. /\ proc' \in [Actors -> HandlerStates \union SweeperStates]'
       /\ \A b \in Actors : proc'[b] \in States(b)'
    BY <1>18, <2>1, <2>2, <1>c, <1>f, <1>h, GotoType DEF SendGreeting, Attempt
  <2>4. greetings' \in [Members -> Nat]
    BY <1>18 DEF SendGreeting, TypeOK
  <2> QED
    BY <1>18, <2>1, <2>2, <2>3, <2>4, <1>a, <1>d, <1>e, <1>f, <1>g DEF SendGreeting, TypeOK, Rows, Attempt
<1>19. ASSUME NEW h \in Handlers, SendGreetingFails(h) PROVE TypeOK'
  <2>1. proc[h] \in [at : {"welcome", "ungreet"}, claimed : SUBSET Members]
    BY <1>19, <1>c, AtTypes DEF SendGreetingFails
  <2>2. [proc[h] EXCEPT !.at = "ungreet"] \in HandlerStates
    BY <2>1 DEF HandlerStates, GreetStates
  <2>3. /\ proc' \in [Actors -> HandlerStates \union SweeperStates]'
       /\ \A b \in Actors : proc'[b] \in States(b)'
    BY <1>19, <2>1, <2>2, <1>c, <1>f, <1>h, GotoType DEF SendGreetingFails, Attempt
  <2>4. greetings' \in [Members -> Nat]
    BY <1>19 DEF SendGreetingFails, TypeOK
  <2> QED
    BY <1>19, <2>1, <2>2, <2>3, <2>4, <1>a, <1>d, <1>e, <1>f, <1>g DEF SendGreetingFails, TypeOK, Rows, Attempt
<1>20. ASSUME NEW h \in Handlers, NEW m \in Members, ClearGreeting(h, m) PROVE TypeOK'
  <2>1. proc[h] \in [at : {"welcome", "ungreet"}, claimed : SUBSET Members]
    BY <1>20, <1>c, AtTypes DEF ClearGreeting
  <2>2. [proc[h] EXCEPT !.claimed = proc[h].claimed \ {m}] \in HandlerStates
    BY <2>1 DEF HandlerStates, GreetStates
  <2>3. row' \in [Members -> Rows]'
    BY <1>20, <2>1, <1>d, <1>e, RowTypes, SetRowType DEF ClearGreeting, Attempt
  <2>4. /\ proc' \in [Actors -> HandlerStates \union SweeperStates]'
       /\ \A b \in Actors : proc'[b] \in States(b)'
    BY <1>20, <2>1, <2>2, <2>3, <1>c, <1>f, <1>h, GotoType DEF ClearGreeting, Attempt
  <2> QED
    BY <1>20, <2>1, <2>2, <2>3, <2>4, <1>a, <1>d, <1>e, <1>f, <1>g DEF ClearGreeting, TypeOK, Rows, Attempt
<1>21. ASSUME NEW h \in Handlers, NEW m \in Members, ReceiveLeave(h, m) PROVE TypeOK'
  <2>1. row' \in [Members -> Rows]'
    BY <1>21, <1>d, <1>e, RowTypes, SetRowType DEF ReceiveLeave, Attempt
  <2>2. leaveNotices' \in [Members -> Nat]
    BY <1>21 DEF ReceiveLeave, TypeOK
  <2>3. \A a \in Actors : proc'[a] \in States(a)'
    BY <1>21, <1>f DEF ReceiveLeave
  <2> QED
    BY <1>21, <2>1, <2>2, <2>3, <1>a, <1>d, <1>e, <1>f, <1>g DEF ReceiveLeave, TypeOK, Rows, Attempt
<1>22. ASSUME NEW h \in Handlers, GetPending(h) PROVE TypeOK'
  <2>1. proc[h] \in PressStates
    BY <1>22, <1>c, AtTypes DEF GetPending
  <2>2. proc[h].member \in Members
    BY <2>1 DEF PressStates
  <2>3. [proc[h] EXCEPT !.at = "ensure"] \in HandlerStates
    BY <2>1 DEF HandlerStates, PressStates
  <2>4. row[proc[h].member].message \in 0 .. posted
    BY <2>2, <1>d DEF Rows
  <2>5. Fail(proc[h].member, row[proc[h].member].message, {}) \in HandlerStates
    BY <2>2, <2>4, NextStateTypes
  <2>6. /\ proc' \in [Actors -> HandlerStates \union SweeperStates]'
       /\ \A b \in Actors : proc'[b] \in States(b)'
    BY <1>22, <2>1, <2>2, <2>3, <2>4, <2>5, <1>c, <1>f, <1>h, GotoType DEF GetPending, Attempt
  <2> QED
    BY <1>22, <2>1, <2>2, <2>3, <2>4, <2>5, <2>6, <1>a, <1>d, <1>e, <1>f, <1>g DEF GetPending, TypeOK, Rows, Attempt
<1>23. ASSUME NEW h \in Handlers, EnsureMember(h) PROVE TypeOK'
  <2>1. proc[h] \in PressStates
    BY <1>23, <1>c, AtTypes DEF EnsureMember
  <2>2. proc[h].member \in Members
    BY <2>1 DEF PressStates
  <2>3. [proc[h] EXCEPT !.at = "mark"] \in HandlerStates
    BY <2>1 DEF HandlerStates, PressStates
  <2>4. row' \in [Members -> Rows]'
    BY <1>23, <2>2, <1>d, <1>e, RowTypes, SetRowType DEF EnsureMember, Attempt
  <2>5. /\ proc' \in [Actors -> HandlerStates \union SweeperStates]'
       /\ \A b \in Actors : proc'[b] \in States(b)'
    BY <1>23, <2>1, <2>2, <2>3, <2>4, <1>c, <1>f, <1>h, GotoType DEF EnsureMember, Attempt
  <2> QED
    BY <1>23, <2>1, <2>2, <2>3, <2>4, <2>5, <1>a, <1>d, <1>e, <1>f, <1>g DEF EnsureMember, TypeOK, Rows, Attempt
<1>24. ASSUME NEW h \in Handlers, MarkSolved(h) PROVE TypeOK'
  <2>1. proc[h] \in PressStates
    BY <1>24, <1>c, AtTypes DEF MarkSolved
  <2>2. proc[h].member \in Members
    BY <2>1 DEF PressStates
  <2>3. [proc[h] EXCEPT !.at = "markUser"] \in HandlerStates
    BY <2>1 DEF HandlerStates, PressStates
  <2>4. row' \in [Members -> Rows]'
    BY <1>24, <2>2, <1>d, <1>e, RowTypes, SetRowType DEF MarkSolved, Attempt
  <2>5. /\ proc' \in [Actors -> HandlerStates \union SweeperStates]'
       /\ \A b \in Actors : proc'[b] \in States(b)'
    BY <1>24, <2>1, <2>2, <2>3, <2>4, <1>c, <1>f, <1>h, GotoType DEF MarkSolved, Attempt
  <2> QED
    BY <1>24, <2>1, <2>2, <2>3, <2>4, <2>5, <1>a, <1>d, <1>e, <1>f, <1>g DEF MarkSolved, TypeOK, Rows, Attempt
<1>25. ASSUME NEW h \in Handlers, MarkUser(h) PROVE TypeOK'
  <2>1. proc[h] \in PressStates
    BY <1>25, <1>c, AtTypes DEF MarkUser
  <2>2. proc[h].member \in Members
    BY <2>1 DEF PressStates
  <2>3. [proc[h] EXCEPT !.at = "unmute"] \in HandlerStates
    BY <2>1 DEF HandlerStates, PressStates
  <2>4. /\ proc' \in [Actors -> HandlerStates \union SweeperStates]'
       /\ \A b \in Actors : proc'[b] \in States(b)'
    BY <1>25, <2>1, <2>2, <2>3, <1>c, <1>f, <1>h, GotoType DEF MarkUser, Attempt
  <2>5. solvedGlobally' \in [Members -> BOOLEAN]
    BY <1>25, <2>2 DEF MarkUser, Attempt, TypeOK
  <2> QED
    BY <1>25, <2>1, <2>2, <2>3, <2>4, <2>5, <1>a, <1>d, <1>e, <1>f, <1>g DEF MarkUser, TypeOK, Rows, Attempt
<1>26. ASSUME NEW h \in Handlers, Unmute(h) PROVE TypeOK'
  <2>1. proc[h] \in PressStates
    BY <1>26, <1>c, AtTypes DEF Unmute
  <2>2. proc[h].member \in Members
    BY <2>1 DEF PressStates
  <2>3. [proc[h] EXCEPT !.at = "tidy"] \in HandlerStates
    BY <2>1 DEF HandlerStates, PressStates
  <2>4. /\ proc' \in [Actors -> HandlerStates \union SweeperStates]'
       /\ \A b \in Actors : proc'[b] \in States(b)'
    BY <1>26, <2>1, <2>2, <2>3, <1>c, <1>f, <1>h, GotoType DEF Unmute, Attempt
  <2>5. muted' \in [Members -> BOOLEAN]
    BY <1>26, <2>2 DEF Unmute, Attempt, TypeOK
  <2> QED
    BY <1>26, <2>1, <2>2, <2>3, <2>4, <2>5, <1>a, <1>d, <1>e, <1>f, <1>g DEF Unmute, TypeOK, Rows, Attempt
<1>27. ASSUME NEW h \in Handlers, Tidy(h) PROVE TypeOK'
  <2>1. proc[h] \in PressStates
    BY <1>27, <1>c, AtTypes DEF Tidy
  <2>2. /\ proc' \in [Actors -> HandlerStates \union SweeperStates]'
       /\ \A b \in Actors : proc'[b] \in States(b)'
    BY <1>27, <2>1, <1>c, <1>f, <1>h, GotoType DEF Tidy, Attempt
  <2>3. posts' \subseteq PostRecord'
    BY <1>27, <1>g, SameStates DEF Tidy, Attempt, TypeOK
  <2> QED
    BY <1>27, <2>1, <2>2, <2>3, <1>a, <1>d, <1>e, <1>f, <1>g DEF Tidy, TypeOK, Rows, Attempt
<1>28. ASSUME StartSweep PROVE TypeOK'
  <2>1. Sweeper \in Actors /\ States(Sweeper) = SweeperStates
    BY DEF Actors, States
  <2>2. \A m \in Members : Expired(row[m]) => <<m, row[m].message>> \in Expiry
    BY <1>d DEF Expired, Rows, Expiry, TypeOK
  <2>3. \E todo \in SUBSET Expiry : Goto(Sweeper, FailNext(todo))
    BY <1>28, <2>2 DEF StartSweep
  <2>4. /\ proc' \in [Actors -> HandlerStates \union SweeperStates]'
       /\ \A b \in Actors : proc'[b] \in States(b)'
    BY <1>28, <2>1, <2>3, NextStateTypes, GotoType DEF StartSweep
  <2> QED
    BY <1>28, <2>1, <2>2, <2>3, <2>4, <1>a, <1>d, <1>e, <1>f, <1>g DEF StartSweep, TypeOK, Rows, Attempt
<1>29. ASSUME NEW m \in Members, NEW i \in 1 .. posted, TakeExpired(<<m, i>>) PROVE TypeOK'
  <2>1. Sweeper \in Actors /\ States(Sweeper) = SweeperStates
    BY DEF Actors, States
  <2>2. proc[Sweeper].todo \ {<<m, i>>} \in SUBSET Expiry
    BY <1>29, <2>1, AtTypes DEF TakeExpired
  <2>3. i \in 0 .. posted
    BY DEF TypeOK
  <2>4. Goto(Sweeper, Fail(m, i, proc[Sweeper].todo \ {<<m, i>>}))
    BY <1>29 DEF TakeExpired
  <2>5. /\ proc' \in [Actors -> HandlerStates \union SweeperStates]'
       /\ \A b \in Actors : proc'[b] \in States(b)'
    BY <1>29, <2>1, <2>2, <2>3, <2>4, NextStateTypes, GotoType DEF TakeExpired
  <2> QED
    BY <1>29, <2>1, <2>2, <2>3, <2>4, <2>5, <1>a, <1>d, <1>e, <1>f, <1>g DEF TakeExpired, TypeOK, Rows, Attempt
<1>30. ASSUME NEW a \in Actors, IsMuted(a) PROVE TypeOK'
  <2>1. proc[a] \in FailStates(IF a = Sweeper THEN SUBSET Expiry ELSE {{}})
    BY <1>30, <1>c, AtTypes DEF IsMuted
  <2>2. [proc[a] EXCEPT !.at = "ban"] \in States(a)
    BY <2>1 DEF States, HandlerStates, SweeperStates, FailStates
  <2>3. [proc[a] EXCEPT !.at = "delete"] \in States(a)
    BY <2>1 DEF States, HandlerStates, SweeperStates, FailStates
  <2>4. /\ proc' \in [Actors -> HandlerStates \union SweeperStates]'
       /\ \A b \in Actors : proc'[b] \in States(b)'
    BY <1>30, <2>1, <2>2, <2>3, <1>c, <1>f, <1>h, GotoType DEF IsMuted, Attempt
  <2> QED
    BY <1>30, <2>1, <2>2, <2>3, <2>4, <1>a, <1>d, <1>e, <1>f, <1>g DEF IsMuted, TypeOK, Rows, Attempt
<1>31. ASSUME NEW a \in Actors, Ban(a) PROVE TypeOK'
  <2>1. proc[a] \in FailStates(IF a = Sweeper THEN SUBSET Expiry ELSE {{}})
    BY <1>31, <1>c, AtTypes DEF Ban
  <2>2. proc[a].member \in Members
    BY <2>1 DEF FailStates
  <2>3. [proc[a] EXCEPT !.at = "unban"] \in States(a)
    BY <2>1 DEF States, HandlerStates, SweeperStates, FailStates
  <2>4. [proc[a] EXCEPT !.at = "delete"] \in States(a)
    BY <2>1 DEF States, HandlerStates, SweeperStates, FailStates
  <2>5. /\ proc' \in [Actors -> HandlerStates \union SweeperStates]'
       /\ \A b \in Actors : proc'[b] \in States(b)'
    BY <1>31, <2>1, <2>2, <2>3, <2>4, <1>c, <1>f, <1>h, GotoType DEF Ban, Attempt
  <2>6. {banned', inChat', muted'} \subseteq [Members -> BOOLEAN]
    <3>1. inChat \in [Members -> BOOLEAN] /\ muted \in [Members -> BOOLEAN]
          /\ banned \in [Members -> BOOLEAN]
      BY DEF TypeOK
    <3>2. banned' \in [Members -> BOOLEAN]
      BY <1>31, <2>2, <3>1 DEF Ban, Attempt
    <3>3. inChat' \in [Members -> BOOLEAN]
      BY <1>31, <2>2, <3>1 DEF Ban, Attempt
    <3>4. muted' \in [Members -> BOOLEAN]
      BY <1>31, <2>2, <3>1 DEF Ban, Attempt
    <3>5. QED
      BY <3>2, <3>3, <3>4
  <2>7. leaveNotices[proc[a].member] + 1 \in Nat
    BY <2>2 DEF TypeOK
  <2>8. leaveNotices' \in [Members -> Nat]
    <3>1. [leaveNotices EXCEPT ![proc[a].member] = @ + 1] \in [Members -> Nat]
      BY <2>7 DEF TypeOK
    <3>2. leaveNotices' \in {leaveNotices, [leaveNotices EXCEPT ![proc[a].member] = @ + 1]}
      BY <1>31 DEF Ban, Attempt
    <3>3. QED
      BY <3>1, <3>2 DEF TypeOK
  <2> QED
    BY <1>31, <2>5, <2>6, <2>8, <1>a, <1>d, <1>e, <1>f, <1>g DEF Ban, TypeOK, Rows, Attempt
<1>32. ASSUME NEW a \in Actors, Unban(a) PROVE TypeOK'
  <2>1. proc[a] \in FailStates(IF a = Sweeper THEN SUBSET Expiry ELSE {{}})
    BY <1>32, <1>c, AtTypes DEF Unban
  <2>2. proc[a].member \in Members
    BY <2>1 DEF FailStates
  <2>3. [proc[a] EXCEPT !.at = "delete"] \in States(a)
    BY <2>1 DEF States, HandlerStates, SweeperStates, FailStates
  <2>4. /\ proc' \in [Actors -> HandlerStates \union SweeperStates]'
       /\ \A b \in Actors : proc'[b] \in States(b)'
    BY <1>32, <2>1, <2>2, <2>3, <1>c, <1>f, <1>h, GotoType DEF Unban, Attempt
  <2>5. banned' \in [Members -> BOOLEAN]
    BY <1>32, <2>2 DEF Unban, Attempt, TypeOK
  <2> QED
    BY <1>32, <2>1, <2>2, <2>3, <2>4, <2>5, <1>a, <1>d, <1>e, <1>f, <1>g DEF Unban, TypeOK, Rows, Attempt
<1>33. ASSUME NEW a \in Actors, DeletePost(a) PROVE TypeOK'
  <2>1. proc[a] \in FailStates(IF a = Sweeper THEN SUBSET Expiry ELSE {{}})
    BY <1>33, <1>c, AtTypes DEF DeletePost
  <2>2. [proc[a] EXCEPT !.at = "clear"] \in States(a)
    BY <2>1 DEF States, HandlerStates, SweeperStates, FailStates
  <2>3. /\ proc' \in [Actors -> HandlerStates \union SweeperStates]'
       /\ \A b \in Actors : proc'[b] \in States(b)'
    BY <1>33, <2>1, <2>2, <1>c, <1>f, <1>h, GotoType DEF DeletePost, Attempt
  <2>4. posts' \subseteq PostRecord'
    BY <1>33, <1>g, SameStates DEF DeletePost, Attempt, TypeOK
  <2> QED
    BY <1>33, <2>1, <2>2, <2>3, <2>4, <1>a, <1>d, <1>e, <1>f, <1>g DEF DeletePost, TypeOK, Rows, Attempt
<1>34. ASSUME NEW a \in Actors, ClearCaptcha(a) PROVE TypeOK'
  <2>1. proc[a] \in FailStates(IF a = Sweeper THEN SUBSET Expiry ELSE {{}})
    BY <1>34, <1>c, AtTypes DEF ClearCaptcha
  <2>2. proc[a].member \in Members
    BY <2>1 DEF FailStates
  <2>3. FailNext(proc[a].todo) \in States(a)
    BY <2>1, NextStateTypes DEF FailStates, States
  <2>4. row' \in [Members -> Rows]'
    BY <1>34, <2>2, <1>e, ReleaseType DEF ClearCaptcha, Attempt
  <2>5. /\ proc' \in [Actors -> HandlerStates \union SweeperStates]'
       /\ \A b \in Actors : proc'[b] \in States(b)'
    BY <1>34, <2>1, <2>2, <2>3, <2>4, <1>c, <1>f, <1>h, GotoType DEF ClearCaptcha, Attempt
  <2>6. releases' \in [Members -> Nat]
    BY <1>34, <2>2, ReleaseType DEF ClearCaptcha, Attempt, TypeOK
  <2> QED
    BY <1>34, <2>1, <2>2, <2>3, <2>4, <2>5, <2>6, <1>a, <1>d, <1>e, <1>f, <1>g DEF ClearCaptcha, TypeOK, Rows, Attempt
<1>35. ASSUME Restart PROVE TypeOK'
  <2>1. proc' = [a \in Actors |-> Resting]
    BY <1>35 DEF Restart
  <2>2. /\ proc' \in [Actors -> HandlerStates \union SweeperStates]'
       /\ \A b \in Actors : proc'[b] \in States(b)'
    BY <1>35, <2>1, <1>b, <1>h, SameStates DEF Restart, States, HandlerStates, SweeperStates
  <2> QED
    BY <1>35, <2>1, <2>2, <1>a, <1>d, <1>e, <1>f, <1>g DEF Restart, TypeOK, Rows, Attempt
<1>36. ASSUME UNCHANGED vars PROVE TypeOK'
  <2> QED
    BY <1>36, <1>a, <1>e, <1>f, <1>g DEF vars, TypeOK, Rows
<1> QED
  <2>1. Sweeper \in Actors /\ Handlers \subseteq Actors
    BY DEF Actors
  <2> QED
    BY <2>1, <1>1, <1>2, <1>3, <1>4, <1>5, <1>6, <1>7, <1>8, <1>9, <1>10, <1>11, <1>12, <1>13, <1>14, <1>14b, <1>15, <1>16, <1>17, <1>18, <1>19, <1>20, <1>21, <1>22, <1>23, <1>24, <1>25, <1>26, <1>27, <1>28, <1>29, <1>30, <1>31, <1>32, <1>33, <1>34, <1>35, <1>36
    DEF Next, People, Work, HandleJoin, HandlePress, FailCaptcha, Sweep

\* TypeOK holds in every reachable state.
THEOREM TypeCorrect == Spec => []TypeOK
<1>. QED BY InitTypeOK, StepTypeOK, PTL DEF Spec

-----------------------------------------------------------------------------
(* How the row of a member changes *)

SameClaims(m) == claims'[m] = claims[m] /\ releases'[m] = releases[m]

Marked(m) == \E b \in BOOLEAN : row'[m] \in {[row[m] EXCEPT !.left = b], [row[m] EXCEPT !.greeted = b]}

Aged(m) == row[m].requested = "fresh" /\ row'[m] = [row[m] EXCEPT !.requested = "old"]

Detailed(m) == /\ Pending(row[m])
               /\ \E e \in Emojis, n \in 1 .. posted :
                    row'[m] = [row[m] EXCEPT !.emoji = e, !.message = n]

Claimed(m) == /\ Claimable(row[m])
              /\ row'[m] = [row[m] EXCEPT !.requested = "fresh"]
              /\ claims'[m] = claims[m] + 1 /\ releases'[m] = releases[m]

Released(m) == /\ row'[m] = WithoutChallenge(row[m])
               /\ claims'[m] = claims[m]
               /\ releases'[m] = IF row[m].requested = "null" THEN releases[m] ELSE releases[m] + 1

RowMove(m) ==
  \/ SameClaims(m) /\ (row'[m] \in {row[m], Solved(row[m])} \/ Marked(m) \/ Aged(m) \/ Detailed(m))
  \/ Claimed(m)
  \/ Released(m)

\* The statements of this code are the only ways a row, its claims and its
\* releases change, and every one of them writes the row it names.
LEMMA RowMoves ==
  ASSUME TypeOK, [Next]_vars, NEW m \in Members
  PROVE  RowMove(m)
<1> USE DEF telegram, database, settings, history
<1>a. row[m] \in Rows /\ row \in [Members -> Rows] /\ DOMAIN claims = Members /\ DOMAIN releases = Members
  BY DEF TypeOK, Rows
<1>b. \A h \in Handlers : h \in Actors
  BY DEF Actors
<1>1. ASSUME UNCHANGED <<row, claims, releases>> PROVE RowMove(m)
  BY <1>1 DEF RowMove, SameClaims
<1>2. ASSUME NEW x \in Members, Age(x) PROVE RowMove(m)
  BY <1>2, <1>a DEF Age, SetRow, RowMove, SameClaims, Aged
<1>3. ASSUME NEW h \in Handlers, NEW S \in Batches, ReceiveJoin(h, S) PROVE RowMove(m)
  <2>1. row[m].left \in BOOLEAN
    BY <1>a DEF Rows
  <2>2. (m \notin S /\ row[m].left) \in BOOLEAN
    OBVIOUS
  <2>3. row'[m] = row[m] \/ row'[m] = [row[m] EXCEPT !.left = m \notin S /\ row[m].left]
    BY <1>3 DEF ReceiveJoin, Attempt
  <2>4. row'[m] = row[m] \/ Marked(m)
    BY <2>2, <2>3 DEF Marked
  <2>5. QED
    BY <1>3, <2>4 DEF RowMove, SameClaims, ReceiveJoin
<1>4. ASSUME NEW h \in Handlers, Inherit(h) PROVE RowMove(m)
  BY <1>4, <1>a DEF Inherit, Attempt, SetRow, RowMove, SameClaims
<1>5. ASSUME NEW h \in Handlers, NEW emoji \in Emojis, Claim(h, emoji) PROVE RowMove(m)
  BY <1>5, <1>a DEF Claim, SetRow, RowMove, SameClaims, Claimed
<1>6. ASSUME NEW x \in Members, Release(x), UNCHANGED claims PROVE RowMove(m)
  BY <1>6, <1>a DEF Release, SetRow, RowMove, SameClaims, Released
<1>7. ASSUME NEW h \in Handlers, ReleaseClaim(h) PROVE RowMove(m)
  <2>1. proc[h].member \in Members
    BY <1>7, <1>b, AtTypes DEF ReleaseClaim
  <2>2. QED
    BY <1>7, <2>1, <1>1, <1>6 DEF ReleaseClaim, Attempt
<1>8. ASSUME NEW h \in Handlers, SetCaptchaDetails(h) PROVE RowMove(m)
  <2>1. proc[h].post \in PostRecord
    BY <1>8, <1>b, AtTypes DEF SetCaptchaDetails
  <2>2. proc[h].post.emoji \in Emojis /\ proc[h].post.id \in 1 .. posted
    BY <2>1 DEF PostRecord
  <2>3. row'[m] = row[m] \/ Detailed(m)
    BY <1>8, <1>a, <2>2 DEF SetCaptchaDetails, Attempt, SetRow, Detailed
  <2>4. QED
    BY <1>8, <2>3 DEF SetCaptchaDetails, RowMove, SameClaims
<1>9. ASSUME NEW h \in Handlers, NEW x \in Members, ClaimGreeting(h, x) \/ ClearGreeting(h, x) PROVE RowMove(m)
  <2>1. row'[m] = row[m] \/ Marked(m)
    BY <1>9, <1>a DEF ClaimGreeting, ClearGreeting, Attempt, SetRow, Marked
  <2>2. QED
    BY <1>9, <2>1 DEF ClaimGreeting, ClearGreeting, RowMove, SameClaims
<1>10. ASSUME NEW h \in Handlers, NEW x \in Members, ReceiveLeave(h, x) PROVE RowMove(m)
  <2>1. row'[m] = row[m] \/ Marked(m)
    BY <1>10, <1>a DEF ReceiveLeave, Attempt, SetRow, Marked
  <2>2. QED
    BY <1>10, <2>1 DEF ReceiveLeave, RowMove, SameClaims
<1>11. ASSUME NEW h \in Handlers, EnsureMember(h) PROVE RowMove(m)
  <2>1. row'[m] = row[m] \/ Marked(m)
    BY <1>11, <1>a DEF EnsureMember, Attempt, SetRow, Marked
  <2>2. QED
    BY <1>11, <2>1 DEF EnsureMember, RowMove, SameClaims
<1>12. ASSUME NEW h \in Handlers, MarkSolved(h) PROVE RowMove(m)
  BY <1>12, <1>a DEF MarkSolved, Attempt, SetRow, RowMove, SameClaims
<1>13. ASSUME NEW a \in Actors, ClearCaptcha(a) PROVE RowMove(m)
  <2>1. proc[a].member \in Members
    BY <1>13, AtTypes DEF ClearCaptcha, FailStates
  <2>2. QED
    BY <1>13, <2>1, <1>1, <1>6 DEF ClearCaptcha, Attempt
<1>14. ASSUME People PROVE RowMove(m)
  BY <1>14, <1>1, <1>2 DEF People, Join, Leave, SolveElsewhere, Press, SetCaptcha
<1>15. ASSUME NEW h \in Handlers, Work(h) PROVE RowMove(m)
  <2>1. CASE HandleJoin(h)
    BY <2>1, <1>1, <1>3, <1>4, <1>5, <1>7, <1>8, <1>9
       DEF HandleJoin, ReadGlobal, ClaimLost, Mute, Post, PostFails, PostUnseen,
           SendGreeting, SendGreetingFails
  <2>2. CASE HandlePress(h)
    BY <2>2, <1>1, <1>11, <1>12 DEF HandlePress, GetPending, MarkUser, Unmute, Tidy
  <2>3. CASE FailCaptcha(h)
    BY <2>3, <1>b, <1>1, <1>13 DEF FailCaptcha, IsMuted, Ban, Unban, DeletePost
  <2>4. QED
    BY <1>15, <2>1, <2>2, <2>3, <1>10 DEF Work
<1>16. ASSUME Sweep \/ FailCaptcha(Sweeper) \/ Restart \/ UNCHANGED vars PROVE RowMove(m)
  BY <1>16, <1>1, <1>13 DEF Sweep, StartSweep, TakeExpired, FailCaptcha, IsMuted, Ban, Unban,
                            DeletePost, Restart, Actors, vars
<1>17. QED
  BY <1>14, <1>15, <1>16 DEF Next

-----------------------------------------------------------------------------
(* Rows and claims *)

\* RowsAreConsistent holds in every state: a solved row carries no challenge and
\* a row without a claim no details, so that no sweep finds a member who solved it.
LEMMA StepRowsAreConsistent == TypeOK /\ RowsAreConsistent /\ [Next]_vars => RowsAreConsistent'
<1> SUFFICES ASSUME TypeOK, RowsAreConsistent, [Next]_vars, NEW m \in Members
             PROVE  /\ row'[m].solved => row'[m].requested = "null"
                    /\ row'[m].message # 0 => row'[m].requested # "null"
                    /\ (row'[m].message = 0) = (row'[m].emoji = NoEmoji)
  BY DEF RowsAreConsistent
<1>1. row[m] \in Rows
  BY DEF TypeOK, Rows
<1>2. /\ row[m].solved => row[m].requested = "null"
      /\ row[m].message # 0 => row[m].requested # "null"
      /\ (row[m].message = 0) = (row[m].emoji = NoEmoji)
  BY DEF RowsAreConsistent
<1>3. CASE row'[m] = row[m] \/ Marked(m)
  BY <1>1, <1>2, <1>3 DEF Marked, Rows
<1>4. CASE Aged(m) \/ Claimed(m)
  BY <1>1, <1>2, <1>4 DEF Aged, Claimed, Claimable, Rows
<1>5. CASE Detailed(m)
  BY <1>1, <1>2, <1>5, JoinAssumption DEF Detailed, Pending, Rows, TypeOK
<1>6. CASE row'[m] = WithoutChallenge(row[m])
  BY <1>1, <1>2, <1>6 DEF WithoutChallenge, Rows
<1>7. CASE row'[m] = Solved(row[m])
  <2>1. WithoutChallenge(row[m]) \in Rows
    BY <1>1, RowTypes
  <2>2. QED
    BY <1>1, <1>7, <2>1 DEF Solved, WithoutChallenge, Rows
<1>8. QED
  BY <1>3, <1>4, <1>5, <1>6, <1>7, RowMoves DEF RowMove, Released

\* The rows are of their type, and their columns agree with each other.
THEOREM RowsStayConsistent == Spec => []RowInv
<1>1. Init => RowsAreConsistent
  BY DEF Init, RowsAreConsistent, NewRow
<1>2. QED
  BY <1>1, TypeCorrect, StepRowsAreConsistent, PTL DEF Spec, RowInv

\* A claim that is held is one above the claims given up; a row that can be
\* claimed has none to give up.
ClaimsAreHeldOnce ==
  \A m \in Members : claims[m] <= releases[m] + (IF Claimable(row[m]) THEN 0 ELSE 1)

\* No statement wins a claim that somebody holds.
LEMMA StepClaimsAreHeldOnce == TypeOK /\ ClaimsAreHeldOnce /\ [Next]_vars => ClaimsAreHeldOnce'
<1> SUFFICES ASSUME TypeOK, ClaimsAreHeldOnce, [Next]_vars, NEW m \in Members
             PROVE  claims'[m] <= releases'[m] + (IF Claimable(row'[m]) THEN 0 ELSE 1)
  BY DEF ClaimsAreHeldOnce, Claimable
<1>1. row[m] \in Rows /\ claims[m] \in Nat /\ releases[m] \in Nat
  BY DEF TypeOK, Rows
<1>2. claims[m] <= releases[m] + (IF Claimable(row[m]) THEN 0 ELSE 1)
  BY DEF ClaimsAreHeldOnce
<1>3. CASE SameClaims(m) /\ (row'[m] = row[m] \/ Marked(m) \/ Aged(m) \/ Detailed(m))
  BY <1>1, <1>2, <1>3 DEF SameClaims, Marked, Aged, Detailed, Claimable, Rows
<1>4. CASE SameClaims(m) /\ row'[m] = Solved(row[m])
  <2>1. WithoutChallenge(row[m]) \in Rows
    BY <1>1, RowTypes
  <2>2. ~Claimable(row'[m])
    BY <1>4, <2>1 DEF Solved, Claimable, Rows
  <2>3. QED
    BY <1>1, <1>2, <1>4, <2>2 DEF SameClaims
<1>5. CASE Claimed(m)
  BY <1>1, <1>2, <1>5 DEF Claimed, Claimable, Rows
<1>6. CASE Released(m)
  BY <1>1, <1>2, <1>6 DEF Released, WithoutChallenge, Claimable, Rows
<1>7. QED
  BY <1>3, <1>4, <1>5, <1>6, RowMoves DEF RowMove

\* However deliveries, presses, sweeps and failures overlap, another challenge
\* takes another release of the claim before it.
THEOREM ClaimsFollowReleases == Spec => []ClaimsNeedReleases
<1>1. Init => ClaimsAreHeldOnce
  BY DEF Init, ClaimsAreHeldOnce
<1>2. TypeOK /\ ClaimsAreHeldOnce => ClaimsNeedReleases
  BY DEF TypeOK, ClaimsAreHeldOnce, ClaimsNeedReleases
<1>3. QED
  BY <1>1, <1>2, TypeCorrect, StepClaimsAreHeldOnce, PTL DEF Spec

-----------------------------------------------------------------------------
(* The greeting *)

\* A claim marks the row and has one holder; what is held or unmarked was greeted
\* only as often as something failed.
GreetingHeldOnce(m) ==
  /\ \A a \in Actors : HoldsGreeting(a, m) => row[m].greeted
  /\ \A a, b \in Actors : HoldsGreeting(a, m) /\ HoldsGreeting(b, m) => a = b
  /\ (\E a \in Actors : HoldsGreeting(a, m)) \/ ~row[m].greeted => greetings[m] <= faults
  /\ greetings[m] <= 1 + faults
  /\ row[m].greeted /\ faults = 0 => \/ greetings[m] > 0
                                     \/ \E a \in Actors : HoldsGreeting(a, m)

OthersHold(h, m) == \A b \in Actors \ {h} : HoldsGreeting(b, m)' <=> HoldsGreeting(b, m)

StillHeld(m) == /\ row'[m].greeted = row[m].greeted /\ greetings'[m] = greetings[m]
                /\ faults' >= faults
                /\ \A b \in Actors : HoldsGreeting(b, m)' <=> HoldsGreeting(b, m)

Won(h, m) == /\ ~row[m].greeted /\ row'[m].greeted
             /\ greetings'[m] = greetings[m] /\ faults' = faults
             /\ HoldsGreeting(h, m)' /\ OthersHold(h, m)

Sent(h, m) == /\ HoldsGreeting(h, m) /\ ~HoldsGreeting(h, m)' /\ OthersHold(h, m)
              /\ greetings'[m] = greetings[m] + 1 /\ faults' = faults
              /\ row'[m].greeted = row[m].greeted

SentOrLost(h, m) == /\ HoldsGreeting(h, m) /\ HoldsGreeting(h, m)' /\ OthersHold(h, m)
                    /\ greetings'[m] \in {greetings[m], greetings[m] + 1} /\ faults' = faults + 1
                    /\ row'[m].greeted = row[m].greeted

GivenUp(h, m) == /\ HoldsGreeting(h, m) /\ ~HoldsGreeting(h, m)' /\ OthersHold(h, m)
                 /\ greetings'[m] = greetings[m]
                 /\ \/ ~row'[m].greeted /\ faults' = faults
                    \/ row'[m].greeted = row[m].greeted /\ faults' = faults + 1

LostByRestart(m) == /\ \A b \in Actors : ~HoldsGreeting(b, m)'
                    /\ greetings'[m] = greetings[m] /\ faults' = faults + 1
                    /\ row'[m].greeted = row[m].greeted

GreetingMove(m) ==
  \/ StillHeld(m) \/ LostByRestart(m)
  \/ \E h \in Handlers : Won(h, m) \/ Sent(h, m) \/ SentOrLost(h, m) \/ GivenUp(h, m)

Greets(s, m) == s.at \in {"greet", "welcome", "ungreet"} /\ m \in s.claimed

\* What one goroutine does moves only its own hold on a greeting.
LEMMA OneHolderMoves ==
  ASSUME TypeOK, NEW m \in Members, NEW a \in Actors, NEW s, Goto(a, s)
  PROVE  (HoldsGreeting(a, m)' <=> Greets(s, m)) /\ OthersHold(a, m)
BY DEF TypeOK, Goto, HoldsGreeting, Greets, OthersHold

\* Going on with a batch begins without a claim, and keeps the claims won.
LEMMA GreetKeepsClaims ==
  ASSUME NEW m \in Members
  PROVE  /\ \A batch, todo, claimed : Greets(Greet(batch, todo, claimed), m) <=> m \in claimed
         /\ \A batch, todo : ~Greets(Challenge(batch, todo), m)
         /\ \A todo : ~Greets(FailNext(todo), m)
         /\ \A x, n, todo : ~Greets(Fail(x, n, todo), m)
         /\ ~Greets(Resting, m)
<1>1. ASSUME NEW batch, NEW todo, NEW claimed
      PROVE  Greets(Greet(batch, todo, claimed), m) <=> m \in claimed
  BY DEF Greets, Greet, Resting
<1>2. QED
  BY <1>1 DEF Greets, Challenge, FailNext, Fail, Resting

\* A step of a goroutine that holds nothing before or after it.
LEMMA QuietStep ==
  ASSUME TypeOK, NEW m \in Members, NEW a \in Actors, NEW s, Goto(a, s),
         ~HoldsGreeting(a, m), ~Greets(s, m), row'[m].greeted = row[m].greeted,
         UNCHANGED greetings, Fault \/ UNCHANGED faults
  PROVE  StillHeld(m)
<1>1. faults' >= faults
  BY DEF Fault, TypeOK
<1>2. QED
  BY <1>1, OneHolderMoves DEF StillHeld, OthersHold

\* The statements of the captcha keep the mark of the greeting.
LEMMA GreetedKept ==
  ASSUME TypeOK, NEW m \in Members
  PROVE  /\ Solved(row[m]).greeted = row[m].greeted
         /\ WithoutChallenge(row[m]).greeted = row[m].greeted
         /\ \A e \in Emojis, n \in 1 .. posted :
              [row[m] EXCEPT !.emoji = e, !.message = n].greeted = row[m].greeted
         /\ \A x, r : SetRow(x, r) /\ (x = m => r.greeted = row[m].greeted)
                     => row'[m].greeted = row[m].greeted
<1>1. row[m] \in Rows /\ row \in [Members -> Rows]
  BY DEF TypeOK, Rows
<1>2. WithoutChallenge(row[m]) \in Rows
  BY <1>1, RowTypes
<1>3. WithoutChallenge(row[m]).greeted = row[m].greeted
  BY <1>1 DEF WithoutChallenge, Rows
<1>4. \A e \in Emojis, n \in 1 .. posted :
        [row[m] EXCEPT !.emoji = e, !.message = n].greeted = row[m].greeted
  BY <1>1 DEF Rows
<1>5. QED
  BY <1>1, <1>2, <1>3, <1>4 DEF Solved, SetRow, Rows

\* Claiming, sending and giving up, as often as they are begun again, are the only
\* steps that move a greeting.
LEMMA GreetingMoves ==
  ASSUME TypeOK, [Next]_vars, NEW m \in Members
  PROVE  GreetingMove(m)
<1> USE DEF telegram, database, settings, history
<1>a. \A x \in Members : row[x] \in Rows
  BY DEF TypeOK, Rows
<1>b. row \in [Members -> Rows] /\ faults \in Nat
  BY JoinAssumption DEF TypeOK, Rows
<1>c. \A h \in Handlers : h \in Actors
  BY DEF Actors
<1>d. Fault \/ UNCHANGED faults => faults' >= faults
  BY <1>b DEF Fault
<1>1. ASSUME UNCHANGED <<proc, greetings, faults>>, row'[m].greeted = row[m].greeted PROVE GreetingMove(m)
  BY <1>1, <1>b DEF GreetingMove, StillHeld, HoldsGreeting
<1>2. ASSUME NEW h \in Handlers, NEW x \in Members, NEW p \in posts, NEW emoji \in Emojis,
             Press(h, x, p, emoji) PROVE GreetingMove(m)
  <2>1. ~HoldsGreeting(h, m)
    BY <1>2 DEF Press, HoldsGreeting, Resting
  <2>2. row'[m].greeted = row[m].greeted
    BY <1>2 DEF Press
  <2>3. ~Greets([at |-> "pending", member |-> x, post |-> p, pressed |-> emoji], m)
    BY <2>1, GreetKeepsClaims DEF Greets, HoldsGreeting, NextMember
  <2>4. Goto(h, [at |-> "pending", member |-> x, post |-> p, pressed |-> emoji])
    BY <1>2 DEF Press, Attempt, Goto
  <2>5. UNCHANGED greetings /\ (Fault \/ UNCHANGED faults)
    BY <1>2 DEF Press, Attempt
  <2>6. h \in Actors
    BY <1>c DEF Actors
  <2>7. StillHeld(m)
    BY <2>1, <2>2, <2>3, <2>4, <2>5, <2>6, QuietStep
  <2>8. QED
    BY <2>7 DEF GreetingMove
<1>3. ASSUME NEW h \in Handlers, NEW S \in Batches, ReceiveJoin(h, S) PROVE GreetingMove(m)
  <2>1. ~HoldsGreeting(h, m)
    BY <1>3 DEF ReceiveJoin, HoldsGreeting, Resting
  <2>2. row'[m].greeted = row[m].greeted
    BY <1>3, <1>a DEF ReceiveJoin, Attempt, Rows
  <2>3. ~Greets(Challenge(S, IF captchaOn THEN S ELSE {}), m)
    BY GreetKeepsClaims
  <2>4. CASE Goto(h, Challenge(S, IF captchaOn THEN S ELSE {})) /\ UNCHANGED faults
    <3>1. StillHeld(m)
      BY <1>3, <2>1, <2>2, <2>3, <2>4, <1>c, QuietStep DEF ReceiveJoin
    <3>2. QED
      BY <3>1 DEF GreetingMove
  <2>5. CASE UNCHANGED proc /\ Fault
    BY <1>3, <2>2, <2>5, <1>d DEF ReceiveJoin, GreetingMove, StillHeld, HoldsGreeting
  <2>6. QED
    BY <1>3, <2>4, <2>5 DEF ReceiveJoin, Attempt
<1>4. ASSUME NEW h \in Handlers, NEW x \in Members, ReadGlobal(h, x) PROVE GreetingMove(m)
  <2>1. ~HoldsGreeting(h, m)
    BY <1>4 DEF ReadGlobal, HoldsGreeting, Resting
  <2>2. row'[m].greeted = row[m].greeted
    BY <1>4 DEF ReadGlobal
  <2>3. ~Greets([at |-> IF solvedGlobally[x] THEN "inherit" ELSE "claim", member |-> x,
                batch |-> proc[h].batch, todo |-> proc[h].todo \ {x}], m)
    BY <2>1, GreetKeepsClaims DEF Greets, HoldsGreeting, NextMember
  <2>4. Goto(h, [at |-> IF solvedGlobally[x] THEN "inherit" ELSE "claim", member |-> x,
                batch |-> proc[h].batch, todo |-> proc[h].todo \ {x}])
    BY <1>4 DEF ReadGlobal, Attempt
  <2>5. UNCHANGED greetings /\ (Fault \/ UNCHANGED faults)
    BY <1>4 DEF ReadGlobal, Attempt
  <2>6. h \in Actors
    BY <1>c DEF Actors
  <2>7. StillHeld(m)
    BY <2>1, <2>2, <2>3, <2>4, <2>5, <2>6, QuietStep
  <2>8. QED
    BY <2>7 DEF GreetingMove
<1>5. ASSUME NEW h \in Handlers, Inherit(h) PROVE GreetingMove(m)
  <2>1. ~HoldsGreeting(h, m)
    BY <1>5 DEF Inherit, HoldsGreeting, Resting
  <2>2. row'[m].greeted = row[m].greeted
    BY <1>5, GreetedKept DEF Inherit, Attempt
  <2>3. ~Greets(NextMember(h), m)
    BY <2>1, GreetKeepsClaims DEF Greets, HoldsGreeting, NextMember
  <2>4. Goto(h, NextMember(h))
    BY <1>5 DEF Inherit, Attempt
  <2>5. UNCHANGED greetings /\ (Fault \/ UNCHANGED faults)
    BY <1>5 DEF Inherit, Attempt
  <2>6. h \in Actors
    BY <1>c DEF Actors
  <2>7. StillHeld(m)
    BY <2>1, <2>2, <2>3, <2>4, <2>5, <2>6, QuietStep
  <2>8. QED
    BY <2>7 DEF GreetingMove
<1>6. ASSUME NEW h \in Handlers, NEW emoji \in Emojis, Claim(h, emoji) PROVE GreetingMove(m)
  <2>1. ~HoldsGreeting(h, m)
    BY <1>6 DEF Claim, HoldsGreeting, Resting
  <2>2. row'[m].greeted = row[m].greeted
    BY <1>6, <1>a, <1>b DEF Claim, Attempt, SetRow, Rows
  <2>3. ~Greets([at |-> "mute", member |-> proc[h].member, emoji |-> emoji,
                  batch |-> proc[h].batch, todo |-> proc[h].todo], m)
    BY <2>1, GreetKeepsClaims DEF Greets, HoldsGreeting, NextMember
  <2>4. Goto(h, [at |-> "mute", member |-> proc[h].member, emoji |-> emoji,
                  batch |-> proc[h].batch, todo |-> proc[h].todo])
    BY <1>6 DEF Claim, Attempt
  <2>5. UNCHANGED greetings /\ (Fault \/ UNCHANGED faults)
    BY <1>6 DEF Claim, Attempt
  <2>6. h \in Actors
    BY <1>c DEF Actors
  <2>7. StillHeld(m)
    BY <2>1, <2>2, <2>3, <2>4, <2>5, <2>6, QuietStep
  <2>8. QED
    BY <2>7 DEF GreetingMove
<1>7. ASSUME NEW h \in Handlers, ClaimLost(h) PROVE GreetingMove(m)
  <2>1. ~HoldsGreeting(h, m)
    BY <1>7 DEF ClaimLost, HoldsGreeting, Resting
  <2>2. row'[m].greeted = row[m].greeted
    BY <1>7 DEF ClaimLost
  <2>3. ~Greets(NextMember(h), m)
    BY <2>1, GreetKeepsClaims DEF Greets, HoldsGreeting, NextMember
  <2>4. Goto(h, NextMember(h))
    BY <1>7 DEF ClaimLost, Attempt
  <2>5. UNCHANGED greetings /\ (Fault \/ UNCHANGED faults)
    BY <1>7 DEF ClaimLost, Attempt
  <2>6. h \in Actors
    BY <1>c DEF Actors
  <2>7. StillHeld(m)
    BY <2>1, <2>2, <2>3, <2>4, <2>5, <2>6, QuietStep
  <2>8. QED
    BY <2>7 DEF GreetingMove
<1>8. ASSUME NEW h \in Handlers, Mute(h) PROVE GreetingMove(m)
  <2>1. ~HoldsGreeting(h, m)
    BY <1>8 DEF Mute, HoldsGreeting, Resting
  <2>2. row'[m].greeted = row[m].greeted
    BY <1>8 DEF Mute
  <2>3. ~Greets([proc[h] EXCEPT !.at = "post"], m)
    BY <2>1, GreetKeepsClaims DEF Greets, HoldsGreeting, NextMember
  <2>4. Goto(h, [proc[h] EXCEPT !.at = "post"])
    BY <1>8 DEF Mute, Attempt
  <2>5. UNCHANGED greetings /\ (Fault \/ UNCHANGED faults)
    BY <1>8 DEF Mute, Attempt
  <2>6. h \in Actors
    BY <1>c DEF Actors
  <2>7. StillHeld(m)
    BY <2>1, <2>2, <2>3, <2>4, <2>5, <2>6, QuietStep
  <2>8. QED
    BY <2>7 DEF GreetingMove
<1>9. ASSUME NEW h \in Handlers, Post(h) PROVE GreetingMove(m)
  <2>1. ~HoldsGreeting(h, m)
    BY <1>9 DEF Post, HoldsGreeting, Resting
  <2>2. row'[m].greeted = row[m].greeted
    BY <1>9 DEF Post
  <2>3. ~Greets([at |-> "details", post |-> NewPost(proc[h].member, proc[h].emoji),
                  batch |-> proc[h].batch, todo |-> proc[h].todo], m)
    BY <2>1, GreetKeepsClaims DEF Greets, HoldsGreeting, NextMember
  <2>4. Goto(h, [at |-> "details", post |-> NewPost(proc[h].member, proc[h].emoji),
                  batch |-> proc[h].batch, todo |-> proc[h].todo])
    BY <1>9 DEF Post, Attempt
  <2>5. UNCHANGED greetings /\ (Fault \/ UNCHANGED faults)
    BY <1>9 DEF Post, Attempt
  <2>6. h \in Actors
    BY <1>c DEF Actors
  <2>7. StillHeld(m)
    BY <2>1, <2>2, <2>3, <2>4, <2>5, <2>6, QuietStep
  <2>8. QED
    BY <2>7 DEF GreetingMove
<1>10. ASSUME NEW h \in Handlers, PostFails(h) PROVE GreetingMove(m)
  <2>1. ~HoldsGreeting(h, m)
    BY <1>10 DEF PostFails, HoldsGreeting, Resting
  <2>2. row'[m].greeted = row[m].greeted
    BY <1>10 DEF PostFails
  <2>3. ~Greets([proc[h] EXCEPT !.at = "release"], m)
    BY <2>1, GreetKeepsClaims DEF Greets, HoldsGreeting, NextMember
  <2>4. Goto(h, [proc[h] EXCEPT !.at = "release"])
    BY <1>10 DEF PostFails, Attempt
  <2>5. UNCHANGED greetings /\ (Fault \/ UNCHANGED faults)
    BY <1>10 DEF PostFails, Attempt
  <2>6. h \in Actors
    BY <1>c DEF Actors
  <2>7. StillHeld(m)
    BY <2>1, <2>2, <2>3, <2>4, <2>5, <2>6, QuietStep
  <2>8. QED
    BY <2>7 DEF GreetingMove
<1>10b. ASSUME NEW h \in Handlers, PostUnseen(h) PROVE GreetingMove(m)
  <2>1. ~HoldsGreeting(h, m)
    BY <1>10b DEF PostUnseen, HoldsGreeting, Resting
  <2>2. row'[m].greeted = row[m].greeted
    BY <1>10b DEF PostUnseen
  <2>3. ~Greets([proc[h] EXCEPT !.at = "release"], m)
    BY <2>1, GreetKeepsClaims DEF Greets, HoldsGreeting, NextMember
  <2>4. Goto(h, [proc[h] EXCEPT !.at = "release"])
    BY <1>10b DEF PostUnseen, Attempt
  <2>5. UNCHANGED greetings /\ (Fault \/ UNCHANGED faults)
    BY <1>10b DEF PostUnseen, Attempt
  <2>6. h \in Actors
    BY <1>c DEF Actors
  <2>7. StillHeld(m)
    BY <2>1, <2>2, <2>3, <2>4, <2>5, <2>6, QuietStep
  <2>8. QED
    BY <2>7 DEF GreetingMove
<1>11. ASSUME NEW h \in Handlers, ReleaseClaim(h) PROVE GreetingMove(m)
  <2>1. ~HoldsGreeting(h, m)
    BY <1>11 DEF ReleaseClaim, HoldsGreeting, Resting
  <2>2. row'[m].greeted = row[m].greeted
    BY <1>11, GreetedKept DEF ReleaseClaim, Attempt, Release
  <2>3. ~Greets(NextMember(h), m)
    BY <2>1, GreetKeepsClaims DEF Greets, HoldsGreeting, NextMember
  <2>4. Goto(h, NextMember(h))
    BY <1>11 DEF ReleaseClaim, Attempt
  <2>5. UNCHANGED greetings /\ (Fault \/ UNCHANGED faults)
    BY <1>11 DEF ReleaseClaim, Attempt
  <2>6. h \in Actors
    BY <1>c DEF Actors
  <2>7. StillHeld(m)
    BY <2>1, <2>2, <2>3, <2>4, <2>5, <2>6, QuietStep
  <2>8. QED
    BY <2>7 DEF GreetingMove
<1>12. ASSUME NEW h \in Handlers, SetCaptchaDetails(h) PROVE GreetingMove(m)
  <2>1. ~HoldsGreeting(h, m)
    BY <1>12 DEF SetCaptchaDetails, HoldsGreeting, Resting
  <2>2. row'[m].greeted = row[m].greeted
    BY <1>12, <1>a, GreetedKept DEF SetCaptchaDetails, Attempt, Rows
  <2>3. ~Greets(NextMember(h), m)
    BY <2>1, GreetKeepsClaims DEF Greets, HoldsGreeting, NextMember
  <2>4. Goto(h, NextMember(h))
    BY <1>12 DEF SetCaptchaDetails, Attempt
  <2>5. UNCHANGED greetings /\ (Fault \/ UNCHANGED faults)
    BY <1>12 DEF SetCaptchaDetails, Attempt
  <2>6. h \in Actors
    BY <1>c DEF Actors
  <2>7. StillHeld(m)
    BY <2>1, <2>2, <2>3, <2>4, <2>5, <2>6, QuietStep
  <2>8. QED
    BY <2>7 DEF GreetingMove
<1>13. ASSUME NEW h \in Handlers, GetPending(h) PROVE GreetingMove(m)
  <2>1. ~HoldsGreeting(h, m)
    BY <1>13 DEF GetPending, HoldsGreeting, Resting
  <2>2. row'[m].greeted = row[m].greeted
    BY <1>13 DEF GetPending
  <2>3. ~Greets(Resting, m)
    BY <2>1, GreetKeepsClaims DEF Greets, HoldsGreeting, NextMember
  <2>4. ~Greets([proc[h] EXCEPT !.at = "ensure"], m)
    BY <2>1, GreetKeepsClaims DEF Greets, HoldsGreeting, NextMember
  <2>5. ~Greets(Fail(proc[h].member, row[proc[h].member].message, {}), m)
    BY <2>1, GreetKeepsClaims DEF Greets, HoldsGreeting, NextMember
  <2>6. Goto(h, Resting) \/ Goto(h, [proc[h] EXCEPT !.at = "ensure"]) \/ Goto(h, Fail(proc[h].member, row[proc[h].member].message, {}))
    BY <1>13 DEF GetPending, Attempt
  <2>7. UNCHANGED greetings /\ (Fault \/ UNCHANGED faults)
    BY <1>13 DEF GetPending, Attempt
  <2>8. h \in Actors
    BY <1>c DEF Actors
  <2>9. StillHeld(m)
    BY <2>1, <2>2, <2>3, <2>4, <2>5, <2>6, <2>7, <2>8, QuietStep
  <2>10. QED
    BY <2>9 DEF GreetingMove
<1>14. ASSUME NEW h \in Handlers, EnsureMember(h) PROVE GreetingMove(m)
  <2>1. ~HoldsGreeting(h, m)
    BY <1>14 DEF EnsureMember, HoldsGreeting, Resting
  <2>2. row'[m].greeted = row[m].greeted
    BY <1>14, <1>a, <1>b DEF EnsureMember, Attempt, SetRow, Rows
  <2>3. ~Greets([proc[h] EXCEPT !.at = "mark"], m)
    BY <2>1, GreetKeepsClaims DEF Greets, HoldsGreeting, NextMember
  <2>4. ~Greets(Resting, m)
    BY <2>1, GreetKeepsClaims DEF Greets, HoldsGreeting, NextMember
  <2>5. Goto(h, [proc[h] EXCEPT !.at = "mark"]) \/ Goto(h, Resting)
    BY <1>14 DEF EnsureMember, Attempt
  <2>6. UNCHANGED greetings /\ (Fault \/ UNCHANGED faults)
    BY <1>14 DEF EnsureMember, Attempt
  <2>7. h \in Actors
    BY <1>c DEF Actors
  <2>8. StillHeld(m)
    BY <2>1, <2>2, <2>3, <2>4, <2>5, <2>6, <2>7, QuietStep
  <2>9. QED
    BY <2>8 DEF GreetingMove
<1>15. ASSUME NEW h \in Handlers, MarkSolved(h) PROVE GreetingMove(m)
  <2>1. ~HoldsGreeting(h, m)
    BY <1>15 DEF MarkSolved, HoldsGreeting, Resting
  <2>2. row'[m].greeted = row[m].greeted
    BY <1>15, GreetedKept DEF MarkSolved, Attempt
  <2>3. ~Greets([proc[h] EXCEPT !.at = "markUser"], m)
    BY <2>1, GreetKeepsClaims DEF Greets, HoldsGreeting, NextMember
  <2>4. ~Greets(Resting, m)
    BY <2>1, GreetKeepsClaims DEF Greets, HoldsGreeting, NextMember
  <2>5. Goto(h, [proc[h] EXCEPT !.at = "markUser"]) \/ Goto(h, Resting)
    BY <1>15 DEF MarkSolved, Attempt
  <2>6. UNCHANGED greetings /\ (Fault \/ UNCHANGED faults)
    BY <1>15 DEF MarkSolved, Attempt
  <2>7. h \in Actors
    BY <1>c DEF Actors
  <2>8. StillHeld(m)
    BY <2>1, <2>2, <2>3, <2>4, <2>5, <2>6, <2>7, QuietStep
  <2>9. QED
    BY <2>8 DEF GreetingMove
<1>16. ASSUME NEW h \in Handlers, MarkUser(h) PROVE GreetingMove(m)
  <2>1. ~HoldsGreeting(h, m)
    BY <1>16 DEF MarkUser, HoldsGreeting, Resting
  <2>2. row'[m].greeted = row[m].greeted
    BY <1>16 DEF MarkUser
  <2>3. ~Greets([proc[h] EXCEPT !.at = "unmute"], m)
    BY <2>1, GreetKeepsClaims DEF Greets, HoldsGreeting, NextMember
  <2>4. Goto(h, [proc[h] EXCEPT !.at = "unmute"])
    BY <1>16 DEF MarkUser, Attempt
  <2>5. UNCHANGED greetings /\ (Fault \/ UNCHANGED faults)
    BY <1>16 DEF MarkUser, Attempt
  <2>6. h \in Actors
    BY <1>c DEF Actors
  <2>7. StillHeld(m)
    BY <2>1, <2>2, <2>3, <2>4, <2>5, <2>6, QuietStep
  <2>8. QED
    BY <2>7 DEF GreetingMove
<1>17. ASSUME NEW h \in Handlers, Unmute(h) PROVE GreetingMove(m)
  <2>1. ~HoldsGreeting(h, m)
    BY <1>17 DEF Unmute, HoldsGreeting, Resting
  <2>2. row'[m].greeted = row[m].greeted
    BY <1>17 DEF Unmute
  <2>3. ~Greets([proc[h] EXCEPT !.at = "tidy"], m)
    BY <2>1, GreetKeepsClaims DEF Greets, HoldsGreeting, NextMember
  <2>4. Goto(h, [proc[h] EXCEPT !.at = "tidy"])
    BY <1>17 DEF Unmute, Attempt
  <2>5. UNCHANGED greetings /\ (Fault \/ UNCHANGED faults)
    BY <1>17 DEF Unmute, Attempt
  <2>6. h \in Actors
    BY <1>c DEF Actors
  <2>7. StillHeld(m)
    BY <2>1, <2>2, <2>3, <2>4, <2>5, <2>6, QuietStep
  <2>8. QED
    BY <2>7 DEF GreetingMove
<1>18. ASSUME NEW h \in Handlers, Tidy(h) PROVE GreetingMove(m)
  <2>1. ~HoldsGreeting(h, m)
    BY <1>18 DEF Tidy, HoldsGreeting, Resting
  <2>2. row'[m].greeted = row[m].greeted
    BY <1>18 DEF Tidy
  <2>3. ~Greets(Resting, m)
    BY <2>1, GreetKeepsClaims DEF Greets, HoldsGreeting, NextMember
  <2>4. Goto(h, Resting)
    BY <1>18 DEF Tidy, Attempt
  <2>5. UNCHANGED greetings /\ (Fault \/ UNCHANGED faults)
    BY <1>18 DEF Tidy, Attempt
  <2>6. h \in Actors
    BY <1>c DEF Actors
  <2>7. StillHeld(m)
    BY <2>1, <2>2, <2>3, <2>4, <2>5, <2>6, QuietStep
  <2>8. QED
    BY <2>7 DEF GreetingMove
<1>19. ASSUME NEW h \in Handlers, NEW x \in Members, ReceiveLeave(h, x) PROVE GreetingMove(m)
  <2>1. row'[m].greeted = row[m].greeted
    BY <1>19, <1>a, <1>b DEF ReceiveLeave, Attempt, SetRow, Rows
  <2>2. UNCHANGED <<proc, greetings>> /\ faults' >= faults
    BY <1>19, <1>d DEF ReceiveLeave, Attempt
  <2>3. QED
    BY <2>1, <2>2 DEF GreetingMove, StillHeld, HoldsGreeting
<1>20. ASSUME StartSweep PROVE GreetingMove(m)
  <2>1. PICK todo : Goto(Sweeper, FailNext(todo))
    BY <1>20 DEF StartSweep
  <2>2. ~HoldsGreeting(Sweeper, m)
    BY <1>20 DEF StartSweep, HoldsGreeting, Resting
  <2>3. ~Greets(FailNext(todo), m) /\ Sweeper \in Actors
    BY GreetKeepsClaims DEF Actors
  <2>4. row'[m].greeted = row[m].greeted /\ UNCHANGED <<greetings, faults>>
    BY <1>20 DEF StartSweep
  <2>5. StillHeld(m)
    BY <2>1, <2>2, <2>3, <2>4, QuietStep
  <2>6. QED
    BY <2>5 DEF GreetingMove
<1>21. ASSUME NEW x \in Members, NEW i \in 1 .. posted, TakeExpired(<<x, i>>) PROVE GreetingMove(m)
  <2>1. ~HoldsGreeting(Sweeper, m)
    BY <1>21 DEF TakeExpired, HoldsGreeting, Resting
  <2>2. row'[m].greeted = row[m].greeted
    BY <1>21 DEF TakeExpired
  <2>3. ~Greets(Fail(x, i, proc[Sweeper].todo \ {<<x, i>>}), m)
    BY <2>1, GreetKeepsClaims DEF Greets, HoldsGreeting, NextMember
  <2>4. Goto(Sweeper, Fail(x, i, proc[Sweeper].todo \ {<<x, i>>}))
    BY <1>21 DEF TakeExpired, Attempt
  <2>5. UNCHANGED greetings /\ (Fault \/ UNCHANGED faults)
    BY <1>21 DEF TakeExpired, Attempt
  <2>6. Sweeper \in Actors
    BY <1>c DEF Actors
  <2>7. StillHeld(m)
    BY <2>1, <2>2, <2>3, <2>4, <2>5, <2>6, QuietStep
  <2>8. QED
    BY <2>7 DEF GreetingMove
<1>22. ASSUME NEW a \in Actors, IsMuted(a) PROVE GreetingMove(m)
  <2>1. ~HoldsGreeting(a, m)
    BY <1>22 DEF IsMuted, HoldsGreeting, Resting
  <2>2. row'[m].greeted = row[m].greeted
    BY <1>22 DEF IsMuted
  <2>3. ~Greets([proc[a] EXCEPT !.at = "ban"], m)
    BY <2>1, GreetKeepsClaims DEF Greets, HoldsGreeting, NextMember
  <2>4. ~Greets([proc[a] EXCEPT !.at = "delete"], m)
    BY <2>1, GreetKeepsClaims DEF Greets, HoldsGreeting, NextMember
  <2>5. Goto(a, [proc[a] EXCEPT !.at = "ban"]) \/ Goto(a, [proc[a] EXCEPT !.at = "delete"])
    BY <1>22 DEF IsMuted, Attempt
  <2>6. UNCHANGED greetings /\ (Fault \/ UNCHANGED faults)
    BY <1>22 DEF IsMuted, Attempt
  <2>7. a \in Actors
    BY <1>c DEF Actors
  <2>8. StillHeld(m)
    BY <2>1, <2>2, <2>3, <2>4, <2>5, <2>6, <2>7, QuietStep
  <2>9. QED
    BY <2>8 DEF GreetingMove
<1>23. ASSUME NEW a \in Actors, Ban(a) PROVE GreetingMove(m)
  <2>1. ~HoldsGreeting(a, m)
    BY <1>23 DEF Ban, HoldsGreeting, Resting
  <2>2. row'[m].greeted = row[m].greeted
    BY <1>23 DEF Ban
  <2>3. ~Greets([proc[a] EXCEPT !.at = "unban"], m)
    BY <2>1, GreetKeepsClaims DEF Greets, HoldsGreeting, NextMember
  <2>4. ~Greets([proc[a] EXCEPT !.at = "delete"], m)
    BY <2>1, GreetKeepsClaims DEF Greets, HoldsGreeting, NextMember
  <2>5. Goto(a, [proc[a] EXCEPT !.at = "unban"]) \/ Goto(a, [proc[a] EXCEPT !.at = "delete"])
    BY <1>23 DEF Ban, Attempt
  <2>6. UNCHANGED greetings /\ (Fault \/ UNCHANGED faults)
    BY <1>23 DEF Ban, Attempt
  <2>7. a \in Actors
    BY <1>c DEF Actors
  <2>8. StillHeld(m)
    BY <2>1, <2>2, <2>3, <2>4, <2>5, <2>6, <2>7, QuietStep
  <2>9. QED
    BY <2>8 DEF GreetingMove
<1>24. ASSUME NEW a \in Actors, Unban(a) PROVE GreetingMove(m)
  <2>1. ~HoldsGreeting(a, m)
    BY <1>24 DEF Unban, HoldsGreeting, Resting
  <2>2. row'[m].greeted = row[m].greeted
    BY <1>24 DEF Unban
  <2>3. ~Greets([proc[a] EXCEPT !.at = "delete"], m)
    BY <2>1, GreetKeepsClaims DEF Greets, HoldsGreeting, NextMember
  <2>4. Goto(a, [proc[a] EXCEPT !.at = "delete"])
    BY <1>24 DEF Unban, Attempt
  <2>5. UNCHANGED greetings /\ (Fault \/ UNCHANGED faults)
    BY <1>24 DEF Unban, Attempt
  <2>6. a \in Actors
    BY <1>c DEF Actors
  <2>7. StillHeld(m)
    BY <2>1, <2>2, <2>3, <2>4, <2>5, <2>6, QuietStep
  <2>8. QED
    BY <2>7 DEF GreetingMove
<1>25. ASSUME NEW a \in Actors, DeletePost(a) PROVE GreetingMove(m)
  <2>1. ~HoldsGreeting(a, m)
    BY <1>25 DEF DeletePost, HoldsGreeting, Resting
  <2>2. row'[m].greeted = row[m].greeted
    BY <1>25 DEF DeletePost
  <2>3. ~Greets([proc[a] EXCEPT !.at = "clear"], m)
    BY <2>1, GreetKeepsClaims DEF Greets, HoldsGreeting, NextMember
  <2>4. Goto(a, [proc[a] EXCEPT !.at = "clear"])
    BY <1>25 DEF DeletePost, Attempt
  <2>5. UNCHANGED greetings /\ (Fault \/ UNCHANGED faults)
    BY <1>25 DEF DeletePost, Attempt
  <2>6. a \in Actors
    BY <1>c DEF Actors
  <2>7. StillHeld(m)
    BY <2>1, <2>2, <2>3, <2>4, <2>5, <2>6, QuietStep
  <2>8. QED
    BY <2>7 DEF GreetingMove
<1>26. ASSUME NEW a \in Actors, ClearCaptcha(a) PROVE GreetingMove(m)
  <2>1. ~HoldsGreeting(a, m)
    BY <1>26 DEF ClearCaptcha, HoldsGreeting, Resting
  <2>2. row'[m].greeted = row[m].greeted
    BY <1>26, GreetedKept DEF ClearCaptcha, Attempt, Release
  <2>3. ~Greets(FailNext(proc[a].todo), m)
    BY <2>1, GreetKeepsClaims DEF Greets, HoldsGreeting, NextMember
  <2>4. Goto(a, FailNext(proc[a].todo))
    BY <1>26 DEF ClearCaptcha, Attempt
  <2>5. UNCHANGED greetings /\ (Fault \/ UNCHANGED faults)
    BY <1>26 DEF ClearCaptcha, Attempt
  <2>6. a \in Actors
    BY <1>c DEF Actors
  <2>7. StillHeld(m)
    BY <2>1, <2>2, <2>3, <2>4, <2>5, <2>6, QuietStep
  <2>8. QED
    BY <2>7 DEF GreetingMove
<1>27. ASSUME NEW h \in Handlers, NEW x \in Members, ClaimGreeting(h, x) PROVE GreetingMove(m)
  <2> DEFINE rest == proc[h].todo \ {x}
             won == Greet(proc[h].batch, rest, proc[h].claimed \union Ungreeted(x))
             kept == Greet(proc[h].batch, rest, proc[h].claimed)
  <2>1. HoldsGreeting(h, m) <=> m \in proc[h].claimed
    BY <1>27 DEF ClaimGreeting, HoldsGreeting
  <2>2. (Greets(kept, m) <=> HoldsGreeting(h, m)) /\ (Greets(won, m) <=> HoldsGreeting(h, m) \/ m \in Ungreeted(x))
    BY <2>1, GreetKeepsClaims
  <2>3. m \in Ungreeted(x) <=> m = x /\ ~row[m].greeted
    BY DEF Ungreeted
  <2>4. h \in Actors /\ UNCHANGED greetings
    BY <1>27, <1>c DEF ClaimGreeting
  <2>5. CASE SetRow(x, [row[x] EXCEPT !.greeted = TRUE]) /\ Goto(h, won) /\ UNCHANGED faults
    <3>1. (HoldsGreeting(h, m)' <=> Greets(won, m)) /\ OthersHold(h, m)
      BY <2>4, <2>5, OneHolderMoves
    <3>2. row'[m].greeted <=> row[m].greeted \/ m = x
      BY <2>5, <1>a, <1>b DEF SetRow, Rows
    <3>3. row[m].greeted \in BOOLEAN /\ row'[m].greeted \in BOOLEAN
      BY <2>5, <1>a, <1>b DEF SetRow, Rows
    <3>4. CASE m \in Ungreeted(x)
      <4>1. Won(h, m)
        BY <2>2, <2>3, <2>4, <2>5, <3>1, <3>2, <3>4 DEF Won
      <4>2. QED
        BY <4>1 DEF GreetingMove
    <3>5. CASE m \notin Ungreeted(x)
      <4>1. HoldsGreeting(h, m)' <=> HoldsGreeting(h, m)
        BY <2>2, <3>1, <3>5
      <4>2. row'[m].greeted = row[m].greeted
        BY <2>3, <3>2, <3>3, <3>5
      <4>3. StillHeld(m)
        BY <1>b, <2>4, <2>5, <3>1, <4>1, <4>2 DEF StillHeld, OthersHold
      <4>4. QED
        BY <4>3 DEF GreetingMove
    <3>6. QED
      BY <3>4, <3>5
  <2>6. CASE UNCHANGED row /\ Goto(h, kept) /\ Fault
    <3>1. (HoldsGreeting(h, m)' <=> Greets(kept, m)) /\ OthersHold(h, m)
      BY <2>4, <2>6, OneHolderMoves
    <3>2. StillHeld(m)
      BY <1>d, <2>2, <2>4, <2>6, <3>1 DEF StillHeld, OthersHold
    <3>3. QED
      BY <3>2 DEF GreetingMove
  <2>7. QED
    BY <1>27, <2>5, <2>6 DEF ClaimGreeting, Attempt
<1>28. ASSUME NEW h \in Handlers, SendGreeting(h) PROVE GreetingMove(m)
  <2>1. HoldsGreeting(h, m) <=> m \in proc[h].claimed
    BY <1>28 DEF SendGreeting, HoldsGreeting
  <2>2. h \in Actors /\ row'[m].greeted = row[m].greeted /\ faults' = faults
    BY <1>28, <1>c DEF SendGreeting
  <2>3. proc[h] \in [at : {"welcome", "ungreet"}, claimed : SUBSET Members]
    BY <1>28, <1>c, AtTypes DEF SendGreeting
  <2>4. greetings[m] \in Nat
    BY DEF TypeOK
  <2>5. CASE Welcomed
    <3>1. Goto(h, Resting)
      BY <1>28, <2>5 DEF SendGreeting
    <3>2. ~HoldsGreeting(h, m)' /\ OthersHold(h, m)
      BY <2>2, <3>1, OneHolderMoves, GreetKeepsClaims
    <3>3. greetings'[m] = greetings[m] + (IF m \in proc[h].claimed THEN 1 ELSE 0)
      BY <1>28, <2>5 DEF SendGreeting, Welcomed
    <3>4. CASE m \in proc[h].claimed
      <4>1. Sent(h, m)
        BY <2>1, <2>2, <3>2, <3>3, <3>4 DEF Sent
      <4>2. QED
        BY <4>1 DEF GreetingMove
    <3>5. CASE m \notin proc[h].claimed
      <4>1. StillHeld(m)
        BY <1>b, <2>1, <2>2, <2>4, <3>2, <3>3, <3>5 DEF StillHeld, OthersHold
      <4>2. QED
        BY <4>1 DEF GreetingMove
    <3>6. QED
      BY <3>4, <3>5
  <2>6. CASE ~Welcomed
    <3>1. Goto(h, [proc[h] EXCEPT !.at = "ungreet"])
      BY <1>28, <2>6 DEF SendGreeting
    <3>2. Greets([proc[h] EXCEPT !.at = "ungreet"], m) <=> m \in proc[h].claimed
      BY <2>3 DEF Greets
    <3>3. (HoldsGreeting(h, m)' <=> HoldsGreeting(h, m)) /\ OthersHold(h, m)
      BY <2>1, <2>2, <3>1, <3>2, OneHolderMoves
    <3>4. greetings'[m] = greetings[m]
      BY <1>28, <2>4, <2>6 DEF SendGreeting, Welcomed
    <3>5. StillHeld(m)
      BY <1>b, <2>2, <3>3, <3>4 DEF StillHeld, OthersHold
    <3>6. QED
      BY <3>5 DEF GreetingMove
  <2>7. QED
    BY <2>5, <2>6
<1>29. ASSUME NEW h \in Handlers, SendGreetingFails(h) PROVE GreetingMove(m)
  <2>1. HoldsGreeting(h, m) <=> m \in proc[h].claimed
    BY <1>29 DEF SendGreetingFails, HoldsGreeting
  <2>2. h \in Actors /\ row'[m].greeted = row[m].greeted /\ faults' = faults + 1
    BY <1>29, <1>c DEF SendGreetingFails, Fault
  <2>3. proc[h] \in [at : {"welcome", "ungreet"}, claimed : SUBSET Members]
    BY <1>29, <1>c, AtTypes DEF SendGreetingFails
  <2>4. greetings[m] \in Nat
    BY DEF TypeOK
  <2>5. Greets([proc[h] EXCEPT !.at = "ungreet"], m) <=> m \in proc[h].claimed
    BY <2>3 DEF Greets
  <2>6. (HoldsGreeting(h, m)' <=> HoldsGreeting(h, m)) /\ OthersHold(h, m)
    BY <1>29, <2>1, <2>2, <2>5, OneHolderMoves DEF SendGreetingFails
  <2>7. greetings'[m] = greetings[m] \/ greetings'[m] = greetings[m] + (IF m \in proc[h].claimed THEN 1 ELSE 0)
    BY <1>29 DEF SendGreetingFails
  <2>8. CASE m \in proc[h].claimed
    <3>1. SentOrLost(h, m)
      BY <2>1, <2>2, <2>6, <2>7, <2>8 DEF SentOrLost
    <3>2. QED
      BY <3>1 DEF GreetingMove
  <2>9. CASE m \notin proc[h].claimed
    <3>1. StillHeld(m)
      BY <1>b, <2>2, <2>4, <2>6, <2>7, <2>9 DEF StillHeld, OthersHold
    <3>2. QED
      BY <3>1 DEF GreetingMove
  <2>10. QED
    BY <2>8, <2>9
<1>30. ASSUME NEW h \in Handlers, NEW x \in Members, ClearGreeting(h, x) PROVE GreetingMove(m)
  <2> DEFINE rest == proc[h].claimed \ {x}
             next == IF rest = {} THEN Resting ELSE [proc[h] EXCEPT !.claimed = rest]
  <2>1. HoldsGreeting(h, m) <=> m \in proc[h].claimed
    BY <1>30 DEF ClearGreeting, HoldsGreeting
  <2>2. h \in Actors /\ UNCHANGED greetings /\ Goto(h, next) /\ x \in proc[h].claimed
    BY <1>30, <1>c DEF ClearGreeting
  <2>3. proc[h] \in [at : {"welcome", "ungreet"}, claimed : SUBSET Members]
    BY <1>30, <1>c, AtTypes DEF ClearGreeting
  <2>4. Greets(next, m) <=> m \in proc[h].claimed /\ m # x
    BY <2>3 DEF Greets, Resting
  <2>5. (HoldsGreeting(h, m)' <=> HoldsGreeting(h, m) /\ m # x) /\ OthersHold(h, m)
    <3> HIDE DEF next
    <3>1. QED
      BY <2>1, <2>2, <2>4, OneHolderMoves
  <2>6. \/ row'[x].greeted = FALSE /\ (m # x => row'[m].greeted = row[m].greeted) /\ faults' = faults
        \/ row'[m].greeted = row[m].greeted /\ faults' = faults + 1
    BY <1>30, <1>a, <1>b DEF ClearGreeting, Attempt, SetRow, Fault, Rows
  <2>7. CASE m = x
    <3>1. GivenUp(h, m)
      BY <2>1, <2>2, <2>5, <2>6, <2>7 DEF GivenUp
    <3>2. QED
      BY <3>1 DEF GreetingMove
  <2>8. CASE m # x
    <3>1. StillHeld(m)
      BY <1>b, <2>2, <2>5, <2>6, <2>8 DEF StillHeld, OthersHold
    <3>2. QED
      BY <3>1 DEF GreetingMove
  <2>9. QED
    BY <2>7, <2>8
<1>31. ASSUME Restart PROVE GreetingMove(m)
  <2>1. \A b \in Actors : ~HoldsGreeting(b, m)'
    BY <1>31 DEF Restart, HoldsGreeting, Resting
  <2>2. LostByRestart(m)
    BY <1>31, <2>1 DEF Restart, Fault, LostByRestart
  <2>3. QED
    BY <2>2 DEF GreetingMove
<1>32. ASSUME People PROVE GreetingMove(m)
  <2>1. ASSUME NEW x \in Members, Age(x) PROVE row'[m].greeted = row[m].greeted
    BY <2>1, <1>a, <1>b DEF Age, SetRow, Rows
  <2>2. QED
    BY <1>32, <2>1, <1>1, <1>2 DEF People, Join, Leave, SolveElsewhere, Age, SetCaptcha
<1>33. ASSUME NEW h \in Handlers, HandleJoin(h) PROVE GreetingMove(m)
  BY <1>33, <1>3, <1>4, <1>5, <1>6, <1>7, <1>8, <1>9, <1>10, <1>10b, <1>11, <1>12, <1>27, <1>28, <1>29, <1>30 DEF HandleJoin
<1>34. QED
  <2>1. Sweeper \in Actors
    BY DEF Actors
  <2>2. CASE UNCHANGED vars
    BY <2>2, <1>1 DEF vars
  <2>3. QED
    BY <2>1, <2>2, <1>c, <1>13, <1>14, <1>15, <1>16, <1>17, <1>18, <1>19, <1>20, <1>21, <1>22, <1>23, <1>24, <1>25, <1>26, <1>31, <1>32, <1>33
       DEF Next, Work, HandlePress, FailCaptcha, Sweep

AllGreetingsHeldOnce == \A m \in Members : GreetingHeldOnce(m)

\* No step makes a second holder or a second greeting without a failure.
LEMMA StepGreetingHeldOnce ==
  ASSUME TypeOK, [Next]_vars, NEW m \in Members, GreetingHeldOnce(m)
  PROVE  GreetingHeldOnce(m)'
<1> DEFINE held == \E a \in Actors : HoldsGreeting(a, m)
<1>a. greetings[m] \in Nat /\ greetings'[m] \in Nat /\ faults \in Nat /\ faults' \in Nat
  <2>1. TypeOK'
    BY StepTypeOK
  <2>2. QED
    BY <2>1, JoinAssumption DEF TypeOK
<1>b. row[m].greeted \in BOOLEAN /\ row'[m].greeted \in BOOLEAN
  <2>1. TypeOK'
    BY StepTypeOK
  <2>2. row[m] \in Rows /\ row'[m] \in Rows'
    BY <2>1 DEF TypeOK, Rows
  <2>3. QED
    BY <2>2 DEF Rows
<1>c. \A h \in Handlers : h \in Actors
  BY DEF Actors
<1>d. /\ \A a \in Actors : HoldsGreeting(a, m) => row[m].greeted
      /\ \A a, b \in Actors : HoldsGreeting(a, m) /\ HoldsGreeting(b, m) => a = b
      /\ held \/ ~row[m].greeted => greetings[m] <= faults
      /\ greetings[m] <= 1 + faults
      /\ row[m].greeted /\ faults = 0 => greetings[m] > 0 \/ held
  BY DEF GreetingHeldOnce
<1>1. CASE StillHeld(m)
  <2>1. held' <=> held
    BY <1>1 DEF StillHeld
  <2>2. QED
    BY <1>1, <1>a, <1>d, <2>1 DEF StillHeld, GreetingHeldOnce
<1>2. CASE LostByRestart(m)
  BY <1>2, <1>a, <1>d DEF LostByRestart, GreetingHeldOnce
<1>3. ASSUME NEW h \in Handlers, Won(h, m) PROVE GreetingHeldOnce(m)'
  <2>1. \A a \in Actors : HoldsGreeting(a, m)' <=> a = h
    BY <1>3, <1>d DEF Won, OthersHold
  <2>2. greetings'[m] <= faults'
    BY <1>3, <1>d DEF Won
  <2>3. QED
    BY <1>3, <1>a, <1>c, <2>1, <2>2 DEF Won, GreetingHeldOnce
<1>4. ASSUME NEW h \in Handlers, Sent(h, m) PROVE GreetingHeldOnce(m)'
  <2>1. \A a \in Actors : ~HoldsGreeting(a, m)'
    BY <1>4, <1>c, <1>d DEF Sent, OthersHold
  <2>2. row'[m].greeted /\ greetings[m] <= faults
    BY <1>4, <1>c, <1>d DEF Sent
  <2>3. QED
    BY <1>4, <1>a, <2>1, <2>2 DEF Sent, GreetingHeldOnce
<1>5. ASSUME NEW h \in Handlers, SentOrLost(h, m) PROVE GreetingHeldOnce(m)'
  <2>1. \A a \in Actors : HoldsGreeting(a, m)' <=> a = h
    BY <1>5, <1>c, <1>d DEF SentOrLost, OthersHold
  <2>2. row'[m].greeted /\ greetings[m] <= faults
    BY <1>5, <1>c, <1>d DEF SentOrLost
  <2>3. QED
    BY <1>5, <1>a, <2>1, <2>2 DEF SentOrLost, GreetingHeldOnce
<1>6. ASSUME NEW h \in Handlers, GivenUp(h, m) PROVE GreetingHeldOnce(m)'
  <2>1. \A a \in Actors : ~HoldsGreeting(a, m)'
    BY <1>6, <1>c, <1>d DEF GivenUp, OthersHold
  <2>2. row[m].greeted /\ greetings[m] <= faults
    BY <1>6, <1>c, <1>d DEF GivenUp
  <2>3. greetings'[m] = greetings[m]
    BY <1>6 DEF GivenUp
  <2>4. (faults' = faults /\ ~row'[m].greeted) \/ faults' = faults + 1
    BY <1>6 DEF GivenUp
  <2>5. QED
    BY <1>a, <2>1, <2>2, <2>3, <2>4 DEF GreetingHeldOnce
<1>7. QED
  BY <1>1, <1>2, <1>3, <1>4, <1>5, <1>6, GreetingMoves DEF GreetingMove

\* Whatever order the deliveries of a join come in and whatever fails, a member is
\* greeted at most once more than something failed, and a mark without a failure
\* means that the greeting was sent or is being sent.
THEOREM GreetedOnlyOnce == Spec => []GreetedOnce
<1>1. Init => AllGreetingsHeldOnce
  BY DEF Init, AllGreetingsHeldOnce, GreetingHeldOnce, HoldsGreeting, NewRow, Resting
<1>2. TypeOK /\ AllGreetingsHeldOnce /\ [Next]_vars => AllGreetingsHeldOnce'
  BY StepGreetingHeldOnce DEF AllGreetingsHeldOnce
<1>3. TypeOK /\ AllGreetingsHeldOnce => GreetedOnce
  <2> SUFFICES ASSUME TypeOK, NEW m \in Members, GreetingHeldOnce(m)
               PROVE  /\ greetings[m] <= 1 + faults
                      /\ row[m].greeted /\ faults = 0
                           => \/ greetings[m] > 0
                              \/ \E h \in Handlers : HoldsGreeting(h, m)
    BY DEF AllGreetingsHeldOnce, GreetedOnce
  <2>1. ~HoldsGreeting(Sweeper, m)
    BY SweeperOnlySweeps DEF HoldsGreeting
  <2>2. QED
    BY <2>1 DEF GreetingHeldOnce, Actors
<1>4. QED
  BY <1>1, <1>2, <1>3, TypeCorrect, PTL DEF Spec

\* Both claims a delivery makes are held by one delivery at a time.
THEOREM ClaimsHeldOnce == Spec => []ClaimsInv
<1>. QED BY ClaimsFollowReleases, GreetedOnlyOnce, PTL DEF ClaimsInv

-----------------------------------------------------------------------------
(* A newcomer can answer: the captcha never leaves one silenced without a       *)
(* challenge (NewcomerCanAnswer of MemberJoin).                                 *)

(* The challenge of a message id belongs to one member, for whoever kept the id. *)

Failing == {"isMuted", "ban", "unban", "delete", "clear"}
Pressing == {"pending", "ensure", "mark", "markUser", "unmute", "tidy"}

\* What a goroutine remembers of a post in the chat is that post.
KnowsOwner(s) ==
  /\ s.at \in Pressing => s.post.member = s.member
  /\ \A p \in posts :
       /\ s.at = "details" /\ s.post.id = p.id => s.post = p
       /\ s.at \in Failing /\ s.message = p.id => s.member = p.member
       /\ s.at \in Failing \union {"expired"} =>
            \A x \in Members : <<x, p.id>> \in s.todo => x = p.member

\* Ids are given once, and rows and goroutines keep the ids of their own members.
PostsHaveOneOwner ==
  /\ \A p, q \in posts : p.id = q.id => p = q
  /\ \A p \in posts, x \in Members : row[x].message = p.id => p.member = x
  /\ \A a \in Actors : KnowsOwner(proc[a])

(* Nothing is under way about somebody who never joined. *)

\* The goroutine is at work on m.
About(s, m) ==
  \/ s.at \in {"inherit", "claim", "mute", "post", "release"} \union Pressing \union Failing
       /\ s.member = m
  \/ s.at = "details" /\ s.post.member = m

\* The goroutine will come to m: a delivery to challenge, a sweep to fail.
Awaited(s, m) ==
  s.at \in {"member", "inherit", "claim", "mute", "post", "release", "details"} /\ m \in s.todo

Listed(s, m) == s.at \in Failing \union {"expired"} /\ \E e \in s.todo : e[1] = m

Involves(s, m) == About(s, m) \/ Awaited(s, m) \/ Listed(s, m)

StrangerIsIdle(m) ==
  joins[m] = 0 =>
    /\ ~inChat[m]
    /\ \A S \in Batches : m \in S => joinNotices[S] = 0
    /\ \A a \in Actors : ~Involves(proc[a], m)
    /\ \A p \in posts : p.member # m
    /\ row[m].message = 0

StrangersAreIdle == \A m \in Members : StrangerIsIdle(m)

(* A newcomer: somebody who has not left since the first join. *)

Newcomer(m) == /\ faults = 0 /\ ~solvedGlobally[m]
               /\ joins[m] = 0 \/ (joins[m] = 1 /\ inChat[m])

\* The goroutine has claimed the captcha of m and not stored the details yet.
Challenging(s, m) == \/ s.at \in {"mute", "post"} /\ s.member = m
                     \/ s.at = "details" /\ s.post.member = m

MarkingUser(s, m) == s.at = "markUser" /\ s.member = m

\* What each goroutine about m may count on: it is still muted, the row still
\* waits for the details, and a right answer was an answer.
CountsOn(s, m) ==
  /\ s.at \in {"inherit", "release", "unmute", "tidy", "unban", "delete", "clear"} => s.member # m
  /\ s.at \in {"post", "pending", "ensure", "mark", "markUser", "isMuted", "ban"} /\ s.member = m
       => muted[m]
  /\ s.at = "details" /\ s.post.member = m => muted[m] /\ s.post \in posts
  /\ Listed(s, m) => muted[m]
  /\ Challenging(s, m) => Pending(row[m]) /\ row[m].emoji = NoEmoji
  /\ s.at \in {"ensure", "mark"} /\ s.member = m => row[m].emoji # NoEmoji \/ row[m].solved

NewcomerIsCovered(m) ==
  Newcomer(m) =>
    /\ \A a \in Actors : CountsOn(proc[a], m)
    /\ \A a, b \in Actors : Challenging(proc[a], m) /\ Challenging(proc[b], m) => a = b
    /\ \A p \in posts : p.member = m => muted[m]
    /\ row[m].message # 0 => muted[m]
    /\ row[m].solved => \E a \in Actors : MarkingUser(proc[a], m)
    /\ muted[m] => \/ Answerable(m) \/ row[m].solved
                   \/ \E a \in Actors : Challenging(proc[a], m)

NewcomersAreCovered == \A m \in Members : NewcomerIsCovered(m)
-----------------------------------------------------------------------------
(* Whose challenge it is *)

\* A deletion and a goroutine's next state keep the owners when that state does.
LEMMA OwnersKept ==
  ASSUME TypeOK, PostsHaveOneOwner, posts' \subseteq posts,
         \A y \in Members : row'[y].message \in {row[y].message, 0},
         NEW a \in Actors, NEW s, Goto(a, s), KnowsOwner(s)
  PROVE  PostsHaveOneOwner'
<1>1. \A p \in posts : p.id # 0
  BY DEF TypeOK, PostRecord
<1>2. \A b \in Actors : proc'[b] = IF b = a THEN s ELSE proc[b]
  BY DEF TypeOK, Goto
<1>3. \A b \in Actors : KnowsOwner(proc'[b])
  BY <1>2 DEF PostsHaveOneOwner
<1>4. \A b \in Actors : KnowsOwner(proc[b])'
  BY <1>3 DEF KnowsOwner
<1>5. QED
  BY <1>1, <1>4 DEF PostsHaveOneOwner

\* The same when nobody moves.
LEMMA OwnersStay ==
  ASSUME TypeOK, PostsHaveOneOwner, UNCHANGED <<posts, proc>>,
         \A y \in Members : row'[y].message \in {row[y].message, 0}
  PROVE  PostsHaveOneOwner'
BY DEF TypeOK, PostRecord, PostsHaveOneOwner, KnowsOwner

\* A state that remembers no post.
LEMMA NothingKnown ==
  ASSUME NEW s, s.at \notin Pressing \union Failing \union {"details", "expired"}
  PROVE  KnowsOwner(s)
BY DEF KnowsOwner, Pressing, Failing

\* A delivery that goes on remembers no post.
LEMMA LoopStates ==
  /\ \A batch, todo : Challenge(batch, todo).at \in {"member", "greet", "welcome", "rest"}
  /\ \A batch, todo, claimed : Greet(batch, todo, claimed).at \in {"greet", "welcome", "rest"}
  /\ \A h : NextMember(h).at \in {"member", "greet", "welcome", "rest"}
  /\ Resting.at = "rest"
<1>1. \A batch, todo, claimed : Greet(batch, todo, claimed).at \in {"greet", "welcome", "rest"}
  BY DEF Greet, Resting
<1>2. \A batch, todo : Challenge(batch, todo).at \in {"member", "greet", "welcome", "rest"}
  BY <1>1 DEF Challenge, Resting
<1>3. QED
  BY <1>1, <1>2 DEF NextMember, Resting

\* Statements other than SetCaptchaDetails keep the message of a row or clear it.
LEMMA MessagesKept ==
  ASSUME TypeOK
  PROVE  /\ \A x \in Members :
              /\ WithoutChallenge(row[x]).message = 0 /\ Solved(row[x]).message = 0
              /\ \A b : /\ [row[x] EXCEPT !.left = b].message = row[x].message
                       /\ [row[x] EXCEPT !.greeted = b].message = row[x].message
                       /\ [row[x] EXCEPT !.requested = b].message = row[x].message
         /\ \A x, r : SetRow(x, r) /\ (x \in Members => r.message \in {row[x].message, 0})
              => \A y \in Members : row'[y].message \in {row[y].message, 0}
<1>1. \A x \in Members : row[x] \in Rows /\ WithoutChallenge(row[x]) \in Rows
  <2>1. \A x \in Members : row[x] \in Rows
    BY DEF TypeOK, Rows
  <2>2. QED
    BY <2>1, RowTypes
<1>2. \A x \in Members : WithoutChallenge(row[x]).message = 0
  BY <1>1 DEF WithoutChallenge, Rows
<1>3. \A x \in Members : Solved(row[x]).message = 0
  BY <1>1, <1>2 DEF Solved, Rows
<1>4. \A x \in Members : \A b : /\ [row[x] EXCEPT !.left = b].message = row[x].message
                               /\ [row[x] EXCEPT !.greeted = b].message = row[x].message
                               /\ [row[x] EXCEPT !.requested = b].message = row[x].message
  BY <1>1 DEF Rows
<1>5. \A x, r : SetRow(x, r) /\ (x \in Members => r.message \in {row[x].message, 0})
        => \A y \in Members : row'[y].message \in {row[y].message, 0}
  BY DEF TypeOK, SetRow
<1>6. QED
  BY <1>2, <1>3, <1>4, <1>5

\* Ids stay with their owners whatever is posted, stored, deleted or restarted.
LEMMA StepPostsHaveOneOwner == TypeOK /\ PostsHaveOneOwner /\ [Next]_vars => PostsHaveOneOwner'
<1> SUFFICES ASSUME TypeOK, PostsHaveOneOwner, [Next]_vars PROVE PostsHaveOneOwner'
  OBVIOUS
<1> USE DEF telegram, database, settings, history
<1>a. \A h \in Handlers : h \in Actors
  BY DEF Actors
<1>b. \A a \in Actors : KnowsOwner(proc[a])
  BY DEF PostsHaveOneOwner
<1>c. UNCHANGED row => \A y \in Members : row'[y].message \in {row[y].message, 0}
  OBVIOUS
<1>d. UNCHANGED posts => posts' \subseteq posts
  OBVIOUS
<1>e. row \in [Members -> Rows]
  BY DEF TypeOK, Rows
<1>1. ASSUME UNCHANGED <<posts, proc, row>> PROVE PostsHaveOneOwner'
  BY <1>1, OwnersStay
<1>2. ASSUME NEW x \in Members, Age(x) PROVE PostsHaveOneOwner'
  BY <1>2, OwnersStay, MessagesKept DEF Age
<1>3. ASSUME NEW h \in Handlers, NEW x \in Members, NEW p \in posts, NEW emoji \in Emojis,
             Press(h, x, p, emoji) PROVE PostsHaveOneOwner'
  <2>1. h \in Actors
    BY <1>a DEF Actors
  <2>2. \A y \in Members : row'[y].message \in {row[y].message, 0}
    BY <1>3, <1>c DEF Press
  <2>3. posts' \subseteq posts
    BY <1>3, <1>d DEF Press
  <2>4. Goto(h, [at |-> "pending", member |-> x, post |-> p, pressed |-> emoji])
    BY <1>3 DEF Press, Attempt, Goto
  <2>5. KnowsOwner([at |-> "pending", member |-> x, post |-> p, pressed |-> emoji])
    BY <1>3 DEF Press, KnowsOwner, Failing
  <2>6. QED
    BY <2>1, <2>2, <2>3, <2>4, <2>5, OwnersKept
<1>4. ASSUME NEW h \in Handlers, NEW S \in Batches, ReceiveJoin(h, S) PROVE PostsHaveOneOwner'
  <2>1. \A y \in Members : row'[y].message \in {row[y].message, 0}
    BY <1>4, <1>e DEF ReceiveJoin, Attempt, Rows
  <2>2. KnowsOwner(Challenge(S, IF captchaOn THEN S ELSE {}))
    BY NothingKnown, LoopStates DEF Pressing, Failing
  <2>3. UNCHANGED posts /\ (UNCHANGED proc \/ Goto(h, Challenge(S, IF captchaOn THEN S ELSE {})))
    BY <1>4 DEF ReceiveJoin, Attempt
  <2>4. QED
    BY <1>a, <2>1, <2>2, <2>3, OwnersKept, OwnersStay
<1>5. ASSUME NEW h \in Handlers, NEW x \in Members, ReadGlobal(h, x) PROVE PostsHaveOneOwner'
  <2>1. h \in Actors
    BY <1>a DEF Actors
  <2>2. \A y \in Members : row'[y].message \in {row[y].message, 0}
    BY <1>5, <1>c DEF ReadGlobal
  <2>3. posts' \subseteq posts
    BY <1>5, <1>d DEF ReadGlobal
  <2>4. Goto(h, [at |-> IF solvedGlobally[x] THEN "inherit" ELSE "claim", member |-> x,
                batch |-> proc[h].batch, todo |-> proc[h].todo \ {x}])
    BY <1>5 DEF ReadGlobal, Attempt
  <2>5. KnowsOwner([at |-> IF solvedGlobally[x] THEN "inherit" ELSE "claim", member |-> x,
                batch |-> proc[h].batch, todo |-> proc[h].todo \ {x}])
    BY NothingKnown DEF Pressing, Failing
  <2>6. QED
    BY <2>1, <2>2, <2>3, <2>4, <2>5, OwnersKept
<1>6. ASSUME NEW h \in Handlers, Inherit(h) PROVE PostsHaveOneOwner'
  <2>1. h \in Actors
    BY <1>a DEF Actors
  <2>2. \A y \in Members : row'[y].message \in {row[y].message, 0}
    BY <1>6, <1>c, MessagesKept DEF Inherit, Attempt
  <2>3. posts' \subseteq posts
    BY <1>6, <1>d DEF Inherit
  <2>4. Goto(h, NextMember(h))
    BY <1>6 DEF Inherit, Attempt
  <2>5. KnowsOwner(NextMember(h))
    BY NothingKnown, LoopStates DEF Pressing, Failing
  <2>6. QED
    BY <2>1, <2>2, <2>3, <2>4, <2>5, OwnersKept
<1>7. ASSUME NEW h \in Handlers, NEW emoji \in Emojis, Claim(h, emoji) PROVE PostsHaveOneOwner'
  <2>1. h \in Actors
    BY <1>a DEF Actors
  <2>2. \A y \in Members : row'[y].message \in {row[y].message, 0}
    BY <1>7, <1>c, MessagesKept DEF Claim, Attempt
  <2>3. posts' \subseteq posts
    BY <1>7, <1>d DEF Claim
  <2>4. Goto(h, [at |-> "mute", member |-> proc[h].member, emoji |-> emoji,
                  batch |-> proc[h].batch, todo |-> proc[h].todo])
    BY <1>7 DEF Claim, Attempt
  <2>5. KnowsOwner([at |-> "mute", member |-> proc[h].member, emoji |-> emoji,
                  batch |-> proc[h].batch, todo |-> proc[h].todo])
    BY NothingKnown DEF Pressing, Failing
  <2>6. QED
    BY <2>1, <2>2, <2>3, <2>4, <2>5, OwnersKept
<1>8. ASSUME NEW h \in Handlers, ClaimLost(h) PROVE PostsHaveOneOwner'
  <2>1. h \in Actors
    BY <1>a DEF Actors
  <2>2. \A y \in Members : row'[y].message \in {row[y].message, 0}
    BY <1>8, <1>c DEF ClaimLost
  <2>3. posts' \subseteq posts
    BY <1>8, <1>d DEF ClaimLost
  <2>4. Goto(h, NextMember(h))
    BY <1>8 DEF ClaimLost, Attempt
  <2>5. KnowsOwner(NextMember(h))
    BY NothingKnown, LoopStates DEF Pressing, Failing
  <2>6. QED
    BY <2>1, <2>2, <2>3, <2>4, <2>5, OwnersKept
<1>9. ASSUME NEW h \in Handlers, Mute(h) PROVE PostsHaveOneOwner'
  <2>1. h \in Actors
    BY <1>a DEF Actors
  <2>2. \A y \in Members : row'[y].message \in {row[y].message, 0}
    BY <1>9, <1>c DEF Mute
  <2>3. posts' \subseteq posts
    BY <1>9, <1>d DEF Mute
  <2>4. Goto(h, [proc[h] EXCEPT !.at = "post"])
    BY <1>9 DEF Mute, Attempt
  <2>5. KnowsOwner([proc[h] EXCEPT !.at = "post"])
    BY <1>9, <1>a, AtTypes, NothingKnown DEF Mute, Pressing, Failing
  <2>6. QED
    BY <2>1, <2>2, <2>3, <2>4, <2>5, OwnersKept
<1>10. ASSUME NEW h \in Handlers, Post(h) PROVE PostsHaveOneOwner'
  <2> DEFINE q == NewPost(proc[h].member, proc[h].emoji)
             s == [at |-> "details", post |-> q, batch |-> proc[h].batch, todo |-> proc[h].todo]
  <2>1. q.id = posted + 1 /\ posted \in Nat
    BY DEF NewPost, TypeOK
  <2>2. posts' = posts \union {q} /\ UNCHANGED row /\ Goto(h, s)
    BY <1>10 DEF Post
  <2> HIDE DEF q
  <2>3. \A p \in posts : p.id \in 1 .. posted /\ p.id # q.id
    BY <2>1 DEF TypeOK, PostRecord
  <2>4. \A x \in Members : row[x].message \in 0 .. posted /\ row[x].message # q.id
    BY <2>1 DEF TypeOK
  <2>5. \A b \in Actors : proc'[b] = IF b = h THEN s ELSE proc[b]
    BY <2>2 DEF TypeOK, Goto
  <2>6. ASSUME NEW b \in Actors, b # h PROVE KnowsOwner(proc[b])'
    <3>1. KnowsOwner(proc[b]) /\ proc'[b] = proc[b]
      BY <1>b, <2>5, <2>6
    <3>2. proc[b].at = "details" => proc[b].post.id # q.id
      BY <2>1, AtTypes DEF PostRecord
    <3>3. proc[b].at \in Failing => proc[b].message # q.id
      BY <2>1, AtTypes DEF FailStates, Failing
    <3>4. proc[b].at \in Failing \union {"expired"} => \A x : <<x, q.id>> \notin proc[b].todo
      <4>1. proc[b].at \in Failing \union {"expired"} => proc[b].todo \subseteq Expiry
        BY AtTypes DEF FailStates, Failing
      <4>2. \A x : <<x, q.id>> \notin Expiry
        BY <2>1 DEF Expiry
      <4>3. QED
        BY <4>1, <4>2
    <3>5. QED
      BY <2>2, <3>1, <3>2, <3>3, <3>4 DEF KnowsOwner
  <2>7. KnowsOwner(proc[h])'
    <3>1. proc'[h] = s
      BY <1>a, <2>5
    <3>2. proc'[h].at = "details" /\ proc'[h].post = q
      BY <3>1
    <3>3. \A p \in posts' : q.id = p.id => q = p
      BY <2>2, <2>3
    <3>4. QED
      BY <3>2, <3>3 DEF KnowsOwner, Pressing, Failing
  <2>8. QED
    BY <2>2, <2>3, <2>4, <2>6, <2>7 DEF PostsHaveOneOwner
<1>11. ASSUME NEW h \in Handlers, PostFails(h) PROVE PostsHaveOneOwner'
  <2>1. h \in Actors
    BY <1>a DEF Actors
  <2>2. \A y \in Members : row'[y].message \in {row[y].message, 0}
    BY <1>11, <1>c DEF PostFails
  <2>3. posts' \subseteq posts
    BY <1>11, <1>d DEF PostFails
  <2>4. Goto(h, [proc[h] EXCEPT !.at = "release"])
    BY <1>11 DEF PostFails, Attempt
  <2>5. KnowsOwner([proc[h] EXCEPT !.at = "release"])
    BY <1>11, <1>a, AtTypes, NothingKnown DEF PostFails, Pressing, Failing
  <2>6. QED
    BY <2>1, <2>2, <2>3, <2>4, <2>5, OwnersKept
<1>11b. ASSUME NEW h \in Handlers, PostUnseen(h) PROVE PostsHaveOneOwner'
  <2> DEFINE q == NewPost(proc[h].member, proc[h].emoji)
             s == [proc[h] EXCEPT !.at = "release"]
  <2>1. q.id = posted + 1 /\ posted \in Nat
    BY DEF NewPost, TypeOK
  <2>2. posts' = posts \union {q} /\ UNCHANGED row /\ Goto(h, s)
    BY <1>11b DEF PostUnseen
  <2> HIDE DEF q
  <2>3. \A p \in posts : p.id \in 1 .. posted /\ p.id # q.id
    BY <2>1 DEF TypeOK, PostRecord
  <2>4. \A x \in Members : row[x].message \in 0 .. posted /\ row[x].message # q.id
    BY <2>1 DEF TypeOK
  <2>5. \A b \in Actors : proc'[b] = IF b = h THEN s ELSE proc[b]
    BY <2>2 DEF TypeOK, Goto
  <2>6. ASSUME NEW b \in Actors, b # h PROVE KnowsOwner(proc[b])'
    <3>1. KnowsOwner(proc[b]) /\ proc'[b] = proc[b]
      BY <1>b, <2>5, <2>6
    <3>2. proc[b].at = "details" => proc[b].post.id # q.id
      BY <2>1, AtTypes DEF PostRecord
    <3>3. proc[b].at \in Failing => proc[b].message # q.id
      BY <2>1, AtTypes DEF FailStates, Failing
    <3>4. proc[b].at \in Failing \union {"expired"} => \A x : <<x, q.id>> \notin proc[b].todo
      <4>1. proc[b].at \in Failing \union {"expired"} => proc[b].todo \subseteq Expiry
        BY AtTypes DEF FailStates, Failing
      <4>2. \A x : <<x, q.id>> \notin Expiry
        BY <2>1 DEF Expiry
      <4>3. QED
        BY <4>1, <4>2
    <3>5. QED
      BY <2>2, <3>1, <3>2, <3>3, <3>4 DEF KnowsOwner
  <2>7. KnowsOwner(proc[h])'
    <3>1. proc'[h] = s
      BY <1>a, <2>5
    <3>2. s.at = "release"
      BY <1>11b, <1>a, AtTypes DEF PostUnseen
    <3>3. QED
      BY <3>1, <3>2 DEF KnowsOwner, Pressing, Failing
  <2>8. QED
    BY <2>2, <2>3, <2>4, <2>6, <2>7 DEF PostsHaveOneOwner
<1>12. ASSUME NEW h \in Handlers, ReleaseClaim(h) PROVE PostsHaveOneOwner'
  <2>1. h \in Actors
    BY <1>a DEF Actors
  <2>2. \A y \in Members : row'[y].message \in {row[y].message, 0}
    BY <1>12, <1>c, MessagesKept DEF ReleaseClaim, Attempt, Release
  <2>3. posts' \subseteq posts
    BY <1>12, <1>d DEF ReleaseClaim
  <2>4. Goto(h, NextMember(h))
    BY <1>12 DEF ReleaseClaim, Attempt
  <2>5. KnowsOwner(NextMember(h))
    BY NothingKnown, LoopStates DEF Pressing, Failing
  <2>6. QED
    BY <2>1, <2>2, <2>3, <2>4, <2>5, OwnersKept
<1>13. ASSUME NEW h \in Handlers, SetCaptchaDetails(h) PROVE PostsHaveOneOwner'
  <2> DEFINE q == proc[h].post
  <2>1. q \in PostRecord /\ UNCHANGED posts /\ Goto(h, NextMember(h)) /\ proc[h].at = "details"
    BY <1>13, <1>a, AtTypes DEF SetCaptchaDetails
  <2>2. \A x \in Members : \/ row'[x].message = row[x].message
                           \/ x = q.member /\ row'[x].message = q.id
    <3>1. \/ UNCHANGED row
          \/ SetRow(q.member, row[q.member])
          \/ SetRow(q.member, [row[q.member] EXCEPT !.emoji = q.emoji, !.message = q.id])
      BY <1>13 DEF SetCaptchaDetails, Attempt
    <3>2. q.member \in Members /\ row[q.member] \in Rows
      BY <1>e, <2>1 DEF PostRecord
    <3>3. [row[q.member] EXCEPT !.emoji = q.emoji, !.message = q.id].message = q.id
      BY <3>2 DEF Rows
    <3> HIDE DEF q
    <3>4. QED
      BY <1>e, <3>1, <3>2, <3>3 DEF SetRow
  <2>3. \A p \in posts : q.id = p.id => q = p
    BY <1>a, <1>b, <2>1 DEF KnowsOwner
  <2>4. KnowsOwner(NextMember(h))
    BY NothingKnown, LoopStates DEF Pressing, Failing
  <2>5. \A b \in Actors : proc'[b] = IF b = h THEN NextMember(h) ELSE proc[b]
    BY <2>1 DEF TypeOK, Goto
  <2>6. \A b \in Actors : KnowsOwner(proc'[b])
    BY <1>b, <2>4, <2>5
  <2>7. \A b \in Actors : KnowsOwner(proc[b])'
    BY <2>1, <2>6 DEF KnowsOwner
  <2>8. QED
    BY <2>1, <2>2, <2>3, <2>7 DEF PostsHaveOneOwner
<1>14. ASSUME NEW h \in Handlers, NEW x \in Members, ClaimGreeting(h, x) PROVE PostsHaveOneOwner'
  <2>1. h \in Actors
    BY <1>a DEF Actors
  <2>2. \A y \in Members : row'[y].message \in {row[y].message, 0}
    BY <1>14, <1>c, MessagesKept DEF ClaimGreeting, Attempt
  <2>3. posts' \subseteq posts
    BY <1>14, <1>d DEF ClaimGreeting
  <2>4. Goto(h, Greet(proc[h].batch, proc[h].todo \ {x}, proc[h].claimed \union Ungreeted(x))) \/ Goto(h, Greet(proc[h].batch, proc[h].todo \ {x}, proc[h].claimed))
    BY <1>14 DEF ClaimGreeting, Attempt
  <2>5. KnowsOwner(Greet(proc[h].batch, proc[h].todo \ {x}, proc[h].claimed \union Ungreeted(x)))
    BY NothingKnown, LoopStates DEF Pressing, Failing
  <2>6. KnowsOwner(Greet(proc[h].batch, proc[h].todo \ {x}, proc[h].claimed))
    BY NothingKnown, LoopStates DEF Pressing, Failing
  <2>7. QED
    BY <2>1, <2>2, <2>3, <2>4, <2>5, <2>6, OwnersKept
<1>15. ASSUME NEW h \in Handlers, SendGreeting(h) PROVE PostsHaveOneOwner'
  <2>1. h \in Actors
    BY <1>a DEF Actors
  <2>2. \A y \in Members : row'[y].message \in {row[y].message, 0}
    BY <1>15, <1>c DEF SendGreeting
  <2>3. posts' \subseteq posts
    BY <1>15, <1>d DEF SendGreeting
  <2>4. Goto(h, Resting) \/ Goto(h, [proc[h] EXCEPT !.at = "ungreet"])
    BY <1>15 DEF SendGreeting, Attempt
  <2>5. KnowsOwner(Resting)
    BY NothingKnown, LoopStates DEF Pressing, Failing
  <2>6. KnowsOwner([proc[h] EXCEPT !.at = "ungreet"])
    BY <1>15, <1>a, AtTypes, NothingKnown DEF SendGreeting, Pressing, Failing
  <2>7. QED
    BY <2>1, <2>2, <2>3, <2>4, <2>5, <2>6, OwnersKept
<1>16. ASSUME NEW h \in Handlers, SendGreetingFails(h) PROVE PostsHaveOneOwner'
  <2>1. h \in Actors
    BY <1>a DEF Actors
  <2>2. \A y \in Members : row'[y].message \in {row[y].message, 0}
    BY <1>16, <1>c DEF SendGreetingFails
  <2>3. posts' \subseteq posts
    BY <1>16, <1>d DEF SendGreetingFails
  <2>4. Goto(h, [proc[h] EXCEPT !.at = "ungreet"])
    BY <1>16 DEF SendGreetingFails, Attempt
  <2>5. KnowsOwner([proc[h] EXCEPT !.at = "ungreet"])
    BY <1>16, <1>a, AtTypes, NothingKnown DEF SendGreetingFails, Pressing, Failing
  <2>6. QED
    BY <2>1, <2>2, <2>3, <2>4, <2>5, OwnersKept
<1>17. ASSUME NEW h \in Handlers, NEW x \in Members, ClearGreeting(h, x) PROVE PostsHaveOneOwner'
  <2>1. h \in Actors
    BY <1>a DEF Actors
  <2>2. \A y \in Members : row'[y].message \in {row[y].message, 0}
    BY <1>17, <1>c, MessagesKept DEF ClearGreeting, Attempt
  <2>3. posts' \subseteq posts
    BY <1>17, <1>d DEF ClearGreeting
  <2>4. Goto(h, Resting) \/ Goto(h, [proc[h] EXCEPT !.claimed = proc[h].claimed \ {x}])
    BY <1>17 DEF ClearGreeting, Attempt
  <2>5. KnowsOwner(Resting)
    BY NothingKnown, LoopStates DEF Pressing, Failing
  <2>6. KnowsOwner([proc[h] EXCEPT !.claimed = proc[h].claimed \ {x}])
    BY <1>17, <1>a, AtTypes, NothingKnown DEF ClearGreeting, Pressing, Failing
  <2>7. QED
    BY <2>1, <2>2, <2>3, <2>4, <2>5, <2>6, OwnersKept
<1>18. ASSUME NEW h \in Handlers, NEW x \in Members, ReceiveLeave(h, x) PROVE PostsHaveOneOwner'
  BY <1>18, <1>c, OwnersStay, MessagesKept DEF ReceiveLeave, Attempt
<1>19. ASSUME NEW h \in Handlers, GetPending(h) PROVE PostsHaveOneOwner'
  <2> DEFINE m == proc[h].member
             fail == Fail(m, row[m].message, {})
  <2>1. proc[h] \in PressStates /\ m \in Members /\ UNCHANGED <<posts, row>>
    BY <1>19, <1>a, AtTypes DEF GetPending, PressStates
  <2>2. KnowsOwner(fail)
    <3>1. \A p \in posts : row[m].message = p.id => p.member = m
      BY <2>1 DEF PostsHaveOneOwner
    <3>2. QED
      BY <3>1 DEF KnowsOwner, Fail, Pressing, Failing
  <2>3. KnowsOwner(Resting)
    BY NothingKnown, LoopStates DEF Pressing, Failing
  <2>4. KnowsOwner([proc[h] EXCEPT !.at = "ensure"])
    BY <1>19, <1>a, <1>b, <2>1 DEF GetPending, PressStates, KnowsOwner, Pressing, Failing
  <2>5. Goto(h, Resting) \/ Goto(h, fail) \/ Goto(h, [proc[h] EXCEPT !.at = "ensure"])
    BY <1>19 DEF GetPending, Attempt
  <2>6. QED
    BY <1>a, <1>c, <1>d, <2>1, <2>2, <2>3, <2>4, <2>5, OwnersKept
<1>20. ASSUME NEW h \in Handlers, EnsureMember(h) PROVE PostsHaveOneOwner'
  <2>1. h \in Actors
    BY <1>a DEF Actors
  <2>2. \A y \in Members : row'[y].message \in {row[y].message, 0}
    BY <1>20, <1>c, MessagesKept DEF EnsureMember, Attempt
  <2>3. posts' \subseteq posts
    BY <1>20, <1>d DEF EnsureMember
  <2>4. Goto(h, [proc[h] EXCEPT !.at = "mark"]) \/ Goto(h, Resting)
    BY <1>20 DEF EnsureMember, Attempt
  <2>5. KnowsOwner([proc[h] EXCEPT !.at = "mark"])
    BY <1>20, <1>a, <1>b, AtTypes DEF EnsureMember, PressStates, KnowsOwner, Pressing, Failing
  <2>6. KnowsOwner(Resting)
    BY NothingKnown, LoopStates DEF Pressing, Failing
  <2>7. QED
    BY <2>1, <2>2, <2>3, <2>4, <2>5, <2>6, OwnersKept
<1>21. ASSUME NEW h \in Handlers, MarkSolved(h) PROVE PostsHaveOneOwner'
  <2>1. h \in Actors
    BY <1>a DEF Actors
  <2>2. \A y \in Members : row'[y].message \in {row[y].message, 0}
    BY <1>21, <1>c, MessagesKept DEF MarkSolved, Attempt
  <2>3. posts' \subseteq posts
    BY <1>21, <1>d DEF MarkSolved
  <2>4. Goto(h, [proc[h] EXCEPT !.at = "markUser"]) \/ Goto(h, Resting)
    BY <1>21 DEF MarkSolved, Attempt
  <2>5. KnowsOwner([proc[h] EXCEPT !.at = "markUser"])
    BY <1>21, <1>a, <1>b, AtTypes DEF MarkSolved, PressStates, KnowsOwner, Pressing, Failing
  <2>6. KnowsOwner(Resting)
    BY NothingKnown, LoopStates DEF Pressing, Failing
  <2>7. QED
    BY <2>1, <2>2, <2>3, <2>4, <2>5, <2>6, OwnersKept
<1>22. ASSUME NEW h \in Handlers, MarkUser(h) PROVE PostsHaveOneOwner'
  <2>1. h \in Actors
    BY <1>a DEF Actors
  <2>2. \A y \in Members : row'[y].message \in {row[y].message, 0}
    BY <1>22, <1>c DEF MarkUser
  <2>3. posts' \subseteq posts
    BY <1>22, <1>d DEF MarkUser
  <2>4. Goto(h, [proc[h] EXCEPT !.at = "unmute"])
    BY <1>22 DEF MarkUser, Attempt
  <2>5. KnowsOwner([proc[h] EXCEPT !.at = "unmute"])
    BY <1>22, <1>a, <1>b, AtTypes DEF MarkUser, PressStates, KnowsOwner, Pressing, Failing
  <2>6. QED
    BY <2>1, <2>2, <2>3, <2>4, <2>5, OwnersKept
<1>23. ASSUME NEW h \in Handlers, Unmute(h) PROVE PostsHaveOneOwner'
  <2>1. h \in Actors
    BY <1>a DEF Actors
  <2>2. \A y \in Members : row'[y].message \in {row[y].message, 0}
    BY <1>23, <1>c DEF Unmute
  <2>3. posts' \subseteq posts
    BY <1>23, <1>d DEF Unmute
  <2>4. Goto(h, [proc[h] EXCEPT !.at = "tidy"])
    BY <1>23 DEF Unmute, Attempt
  <2>5. KnowsOwner([proc[h] EXCEPT !.at = "tidy"])
    BY <1>23, <1>a, <1>b, AtTypes DEF Unmute, PressStates, KnowsOwner, Pressing, Failing
  <2>6. QED
    BY <2>1, <2>2, <2>3, <2>4, <2>5, OwnersKept
<1>24. ASSUME NEW h \in Handlers, Tidy(h) PROVE PostsHaveOneOwner'
  <2>1. h \in Actors
    BY <1>a DEF Actors
  <2>2. \A y \in Members : row'[y].message \in {row[y].message, 0}
    BY <1>24, <1>c DEF Tidy
  <2>3. posts' \subseteq posts
    BY <1>24, <1>d DEF Tidy, Attempt
  <2>4. Goto(h, Resting)
    BY <1>24 DEF Tidy, Attempt
  <2>5. KnowsOwner(Resting)
    BY NothingKnown, LoopStates DEF Pressing, Failing
  <2>6. QED
    BY <2>1, <2>2, <2>3, <2>4, <2>5, OwnersKept
<1>25. ASSUME StartSweep PROVE PostsHaveOneOwner'
  <2> DEFINE list == {m \in Members : Expired(row[m])}
             todo == {<<m, row[m].message>> : m \in list}
  <2>1. captchaOn /\ Goto(Sweeper, FailNext(todo)) /\ UNCHANGED <<posts, row>>
    BY <1>25 DEF StartSweep
  <2>2. \A p \in posts, x \in Members : <<x, p.id>> \in todo => x = p.member
    BY DEF PostsHaveOneOwner
  <2> HIDE DEF todo
  <2>3. KnowsOwner(FailNext(todo))
    BY <2>2 DEF KnowsOwner, FailNext, Resting, Pressing, Failing
  <2>4. Sweeper \in Actors
    BY DEF Actors
  <2>5. QED
    BY <1>c, <1>d, <2>1, <2>3, <2>4, OwnersKept
<1>26. ASSUME NEW x \in Members, NEW i \in 1 .. posted, TakeExpired(<<x, i>>) PROVE PostsHaveOneOwner'
  <2> DEFINE s == Fail(x, i, proc[Sweeper].todo \ {<<x, i>>})
  <2>1. Sweeper \in Actors /\ Goto(Sweeper, s) /\ UNCHANGED <<posts, row>>
    BY <1>26 DEF TakeExpired, Actors
  <2>2. \A p \in posts, y \in Members : <<y, p.id>> \in proc[Sweeper].todo => y = p.member
    BY <1>26, <1>b, <2>1 DEF TakeExpired, KnowsOwner
  <2>3. \A p \in posts : i = p.id => x = p.member
    BY <1>26, <2>2 DEF TakeExpired
  <2>4. KnowsOwner(s)
    BY <2>2, <2>3 DEF KnowsOwner, Fail, Pressing, Failing
  <2> HIDE DEF s
  <2>5. QED
    BY <1>c, <1>d, <2>1, <2>4, OwnersKept
<1>27. ASSUME NEW a \in Actors, IsMuted(a) PROVE PostsHaveOneOwner'
  <2>1. a \in Actors
    BY <1>a DEF Actors
  <2>2. \A y \in Members : row'[y].message \in {row[y].message, 0}
    BY <1>27, <1>c DEF IsMuted
  <2>3. posts' \subseteq posts
    BY <1>27, <1>d DEF IsMuted
  <2>4. Goto(a, [proc[a] EXCEPT !.at = "ban"]) \/ Goto(a, [proc[a] EXCEPT !.at = "delete"])
    BY <1>27 DEF IsMuted, Attempt
  <2>5. KnowsOwner([proc[a] EXCEPT !.at = "ban"])
    BY <1>27, <1>b, AtTypes DEF IsMuted, FailStates, KnowsOwner, Pressing, Failing
  <2>6. KnowsOwner([proc[a] EXCEPT !.at = "delete"])
    BY <1>27, <1>b, AtTypes DEF IsMuted, FailStates, KnowsOwner, Pressing, Failing
  <2>7. QED
    BY <2>1, <2>2, <2>3, <2>4, <2>5, <2>6, OwnersKept
<1>28. ASSUME NEW a \in Actors, Ban(a) PROVE PostsHaveOneOwner'
  <2>1. a \in Actors
    BY <1>a DEF Actors
  <2>2. \A y \in Members : row'[y].message \in {row[y].message, 0}
    BY <1>28, <1>c DEF Ban
  <2>3. posts' \subseteq posts
    BY <1>28, <1>d DEF Ban
  <2>4. Goto(a, [proc[a] EXCEPT !.at = "unban"]) \/ Goto(a, [proc[a] EXCEPT !.at = "delete"])
    BY <1>28 DEF Ban, Attempt
  <2>5. KnowsOwner([proc[a] EXCEPT !.at = "unban"])
    BY <1>28, <1>b, AtTypes DEF Ban, FailStates, KnowsOwner, Pressing, Failing
  <2>6. KnowsOwner([proc[a] EXCEPT !.at = "delete"])
    BY <1>28, <1>b, AtTypes DEF Ban, FailStates, KnowsOwner, Pressing, Failing
  <2>7. QED
    BY <2>1, <2>2, <2>3, <2>4, <2>5, <2>6, OwnersKept
<1>29. ASSUME NEW a \in Actors, Unban(a) PROVE PostsHaveOneOwner'
  <2>1. a \in Actors
    BY <1>a DEF Actors
  <2>2. \A y \in Members : row'[y].message \in {row[y].message, 0}
    BY <1>29, <1>c DEF Unban
  <2>3. posts' \subseteq posts
    BY <1>29, <1>d DEF Unban
  <2>4. Goto(a, [proc[a] EXCEPT !.at = "delete"])
    BY <1>29 DEF Unban, Attempt
  <2>5. KnowsOwner([proc[a] EXCEPT !.at = "delete"])
    BY <1>29, <1>b, AtTypes DEF Unban, FailStates, KnowsOwner, Pressing, Failing
  <2>6. QED
    BY <2>1, <2>2, <2>3, <2>4, <2>5, OwnersKept
<1>30. ASSUME NEW a \in Actors, DeletePost(a) PROVE PostsHaveOneOwner'
  <2>1. a \in Actors
    BY <1>a DEF Actors
  <2>2. \A y \in Members : row'[y].message \in {row[y].message, 0}
    BY <1>30, <1>c DEF DeletePost
  <2>3. posts' \subseteq posts
    BY <1>30, <1>d DEF DeletePost, Attempt
  <2>4. Goto(a, [proc[a] EXCEPT !.at = "clear"])
    BY <1>30 DEF DeletePost, Attempt
  <2>5. KnowsOwner([proc[a] EXCEPT !.at = "clear"])
    BY <1>30, <1>b, AtTypes DEF DeletePost, FailStates, KnowsOwner, Pressing, Failing
  <2>6. QED
    BY <2>1, <2>2, <2>3, <2>4, <2>5, OwnersKept
<1>31. ASSUME NEW a \in Actors, ClearCaptcha(a) PROVE PostsHaveOneOwner'
  <2>1. \A y \in Members : row'[y].message \in {row[y].message, 0}
    BY <1>31, <1>c, MessagesKept DEF ClearCaptcha, Attempt, Release
  <2>2. UNCHANGED posts /\ Goto(a, FailNext(proc[a].todo)) /\ proc[a].at = "clear"
    BY <1>31 DEF ClearCaptcha
  <2>3. KnowsOwner(FailNext(proc[a].todo))
    BY <1>b, <2>2 DEF KnowsOwner, FailNext, Resting, Pressing, Failing
  <2>4. QED
    BY <1>d, <2>1, <2>2, <2>3, OwnersKept
<1>32. ASSUME Restart PROVE PostsHaveOneOwner'
  <2>1. \A b \in Actors : KnowsOwner(proc[b])'
    BY <1>32 DEF Restart, KnowsOwner, Resting, Pressing, Failing
  <2>2. UNCHANGED <<posts, row>>
    BY <1>32 DEF Restart
  <2>3. QED
    BY <2>1, <2>2 DEF PostsHaveOneOwner
<1>33. CASE UNCHANGED vars
  BY <1>33, <1>1 DEF vars
<1>34. ASSUME People PROVE PostsHaveOneOwner'
  BY <1>34, <1>1, <1>2, <1>3 DEF People, Join, Leave, SolveElsewhere, SetCaptcha
<1>35. QED
  <2>1. Sweeper \in Actors
    BY DEF Actors
  <2>2. QED
    BY <1>a, <2>1, <1>4, <1>5, <1>6, <1>7, <1>8, <1>9, <1>10, <1>11, <1>11b, <1>12, <1>13, <1>14, <1>15, <1>16, <1>17, <1>18, <1>19, <1>20, <1>21, <1>22, <1>23, <1>24, <1>25, <1>26, <1>27, <1>28, <1>29, <1>30, <1>31, <1>32, <1>33, <1>34
       DEF Next, Work, HandleJoin, HandlePress, FailCaptcha, Sweep

-----------------------------------------------------------------------------
(* What the steps leave alone *)

SameChallenge(m) == /\ row'[m].emoji = row[m].emoji /\ row'[m].message = row[m].message
                    /\ row'[m].solved = row[m].solved
                    /\ Pending(row'[m]) <=> Pending(row[m])

\* For the captcha of m nothing has changed but where the goroutines are.
Untouched(m) == /\ muted'[m] = muted[m] /\ SameChallenge(m)
                /\ \A p : p.member = m => (p \in posts' <=> p \in posts)

\* Marking that somebody left or was greeted, and the passing of a minute, leave a
\* challenge as it is.
LEMMA SameChallengeKept ==
  ASSUME TypeOK, NEW m \in Members
  PROVE  /\ row'[m] = row[m] => SameChallenge(m)
         /\ \A x, r : SetRow(x, r) /\ x # m => row'[m] = row[m]
         /\ \A x, b : \/ SetRow(x, [row[x] EXCEPT !.left = b])
                      \/ SetRow(x, [row[x] EXCEPT !.greeted = b])
                      \/ row[x].requested = "fresh" /\ SetRow(x, [row[x] EXCEPT !.requested = "old"])
                      => SameChallenge(m)
<1>1. row[m] \in Rows /\ row \in [Members -> Rows]
  BY DEF TypeOK, Rows
<1>2. row'[m] = row[m] => SameChallenge(m)
  BY DEF SameChallenge
<1>3. \A x, r : SetRow(x, r) /\ x # m => row'[m] = row[m]
  BY <1>1 DEF SetRow
<1>4. ASSUME NEW x, NEW b, \/ SetRow(x, [row[x] EXCEPT !.left = b])
                           \/ SetRow(x, [row[x] EXCEPT !.greeted = b])
                           \/ row[x].requested = "fresh" /\ SetRow(x, [row[x] EXCEPT !.requested = "old"])
      PROVE  SameChallenge(m)
  <2>1. CASE x # m
    BY <1>2, <1>3, <1>4, <2>1
  <2>2. CASE x = m
    <3>1. \/ row'[m] = [row[m] EXCEPT !.left = b] \/ row'[m] = [row[m] EXCEPT !.greeted = b]
          \/ row[m].requested = "fresh" /\ row'[m] = [row[m] EXCEPT !.requested = "old"]
      BY <1>1, <1>4, <2>2 DEF SetRow
    <3>2. QED
      BY <1>1, <3>1 DEF SameChallenge, Pending, Rows
  <2>3. QED
    BY <2>1, <2>2
<1>5. QED
  BY <1>2, <1>3, <1>4

\* Reading, greeting, marking who left, sending on and starting over touch no
\* challenge.
LEMMA TouchesNobody ==
  ASSUME TypeOK, NEW m \in Members, NEW a \in Actors,
         \/ People \/ StartSweep \/ Restart \/ UNCHANGED vars
         \/ \E S \in Batches : ReceiveJoin(a, S)
         \/ \E x \in Members : \/ ReadGlobal(a, x) \/ ClaimGreeting(a, x) \/ ClearGreeting(a, x)
                              \/ ReceiveLeave(a, x)
         \/ \E x \in Members, i \in 1 .. posted : TakeExpired(<<x, i>>)
         \/ ClaimLost(a) \/ PostFails(a) \/ SendGreeting(a) \/ SendGreetingFails(a)
         \/ GetPending(a) \/ EnsureMember(a) \/ MarkUser(a) \/ IsMuted(a) \/ Unban(a)
  PROVE  Untouched(m)
<1> USE DEF telegram, database, settings, history
<1>1. ASSUME UNCHANGED <<muted, posts>>, SameChallenge(m) PROVE Untouched(m)
  BY <1>1 DEF Untouched
<1>2. ASSUME UNCHANGED <<muted, posts, row>> PROVE Untouched(m)
  BY <1>1, <1>2, SameChallengeKept
<1>3. CASE People
  <2>1. ASSUME NEW x \in Members, Age(x) PROVE Untouched(m)
    BY <1>1, <2>1, SameChallengeKept DEF Age
  <2>2. QED
    BY <1>2, <1>3, <2>1 DEF People, Join, Leave, SolveElsewhere, Press, SetCaptcha
<1>4. CASE StartSweep \/ Restart \/ UNCHANGED vars \/ ClaimLost(a) \/ PostFails(a)
           \/ SendGreeting(a) \/ SendGreetingFails(a) \/ GetPending(a) \/ MarkUser(a)
           \/ IsMuted(a) \/ Unban(a)
  BY <1>2, <1>4 DEF StartSweep, Restart, vars, ClaimLost, PostFails, SendGreeting,
                    SendGreetingFails, GetPending, MarkUser, IsMuted, Unban
<1>5. CASE \E x \in Members : ReadGlobal(a, x) \/ \E i \in 1 .. posted : TakeExpired(<<x, i>>)
  BY <1>2, <1>5 DEF ReadGlobal, TakeExpired
<1>6. ASSUME NEW S \in Batches, ReceiveJoin(a, S) PROVE Untouched(m)
  <2>1. row[m] \in Rows
    BY DEF TypeOK, Rows
  <2>2. row'[m] = row[m] \/ row'[m] = [row[m] EXCEPT !.left = m \notin S /\ row[m].left]
    BY <1>6 DEF ReceiveJoin, Attempt
  <2>3. SameChallenge(m)
    BY <2>1, <2>2 DEF SameChallenge, Pending, Rows
  <2>4. QED
    BY <1>1, <1>6, <2>3 DEF ReceiveJoin
<1>7. ASSUME NEW x \in Members, ClaimGreeting(a, x) \/ ClearGreeting(a, x) \/ ReceiveLeave(a, x)
      PROVE  Untouched(m)
  <2>1. \/ UNCHANGED row
        \/ \E b \in BOOLEAN : SetRow(x, [row[x] EXCEPT !.left = b])
        \/ \E b \in BOOLEAN : SetRow(x, [row[x] EXCEPT !.greeted = b])
    BY <1>7 DEF ClaimGreeting, ClearGreeting, ReceiveLeave, Attempt
  <2>2. UNCHANGED <<muted, posts>>
    BY <1>7 DEF ClaimGreeting, ClearGreeting, ReceiveLeave
  <2>3. QED
    BY <1>1, <1>2, <2>1, <2>2, SameChallengeKept
<1>8. CASE EnsureMember(a)
  <2>1. UNCHANGED row \/ SetRow(proc[a].member, [row[proc[a].member] EXCEPT !.left = FALSE])
    BY <1>8 DEF EnsureMember, Attempt
  <2>2. UNCHANGED <<muted, posts>>
    BY <1>8 DEF EnsureMember
  <2>3. QED
    BY <1>1, <1>2, <2>1, <2>2, SameChallengeKept
<1>9. QED
  BY <1>3, <1>4, <1>5, <1>6, <1>7, <1>8

\* Every other step touches the challenge of the member it is about, and leaves
\* everybody else in the chat.
LEMMA TouchesItsMember ==
  ASSUME TypeOK, PostsHaveOneOwner, NEW m \in Members, NEW a \in Actors, ~About(proc[a], m),
         \/ \E emoji \in Emojis : Claim(a, emoji)
         \/ Inherit(a) \/ Mute(a) \/ Post(a) \/ PostUnseen(a) \/ ReleaseClaim(a)
         \/ SetCaptchaDetails(a)
         \/ MarkSolved(a) \/ Unmute(a) \/ Tidy(a)
         \/ Ban(a) \/ DeletePost(a) \/ ClearCaptcha(a)
  PROVE  Untouched(m) /\ inChat'[m] = inChat[m]
<1> USE DEF telegram, database, settings, history
<1>1. ASSUME UNCHANGED <<muted, posts>>, row'[m] = row[m] PROVE Untouched(m)
  BY <1>1, SameChallengeKept DEF Untouched
<1>2. CASE \/ \E emoji \in Emojis : Claim(a, emoji)
           \/ Inherit(a) \/ ReleaseClaim(a) \/ MarkSolved(a) \/ ClearCaptcha(a)
  <2>1. proc[a].member # m
    BY <1>2 DEF Claim, Inherit, ReleaseClaim, MarkSolved, ClearCaptcha, About, Pressing, Failing
  <2>2. row'[m] = row[m]
    BY <1>2, <2>1, SameChallengeKept
       DEF Claim, Inherit, ReleaseClaim, MarkSolved, ClearCaptcha, Release, Attempt
  <2>3. QED
    BY <1>1, <1>2, <2>2 DEF Claim, Inherit, ReleaseClaim, MarkSolved, ClearCaptcha
<1>3. CASE SetCaptchaDetails(a)
  <2>1. proc[a].post.member # m
    BY <1>3 DEF SetCaptchaDetails, About
  <2>2. row'[m] = row[m]
    BY <1>3, <2>1, SameChallengeKept DEF SetCaptchaDetails, Attempt
  <2>3. QED
    BY <1>1, <1>3, <2>2 DEF SetCaptchaDetails
<1>4. CASE Mute(a) \/ Unmute(a) \/ Ban(a)
  <2>1. proc[a].member # m
    BY <1>4 DEF Mute, Unmute, Ban, About, Pressing, Failing
  <2>2. muted'[m] = muted[m] /\ inChat'[m] = inChat[m] /\ UNCHANGED <<posts, row>>
    BY <1>4, <2>1 DEF Mute, Unmute, Ban, Attempt, TypeOK
  <2>3. QED
    BY <2>2, SameChallengeKept DEF Untouched
<1>5. CASE Post(a) \/ PostUnseen(a)
  <2>1. proc[a].member # m
    BY <1>5 DEF Post, PostUnseen, About
  <2>2. \A p : p.member = m => (p \in posts' <=> p \in posts)
    BY <1>5, <2>1 DEF Post, PostUnseen, NewPost
  <2>3. UNCHANGED <<muted, row, inChat>>
    BY <1>5 DEF Post, PostUnseen
  <2>4. QED
    BY <2>2, <2>3, SameChallengeKept DEF Untouched
<1>6. CASE Tidy(a)
  <2>1. proc[a].post.member # m
    BY <1>6 DEF Tidy, About, PostsHaveOneOwner, KnowsOwner, Pressing
  <2>2. \A p : p.member = m => (p \in posts' <=> p \in posts)
    BY <1>6, <2>1 DEF Tidy, Attempt
  <2>3. UNCHANGED <<muted, row, inChat>>
    BY <1>6 DEF Tidy
  <2>4. QED
    BY <2>2, <2>3, SameChallengeKept DEF Untouched
<1>7. CASE DeletePost(a)
  <2>1. proc[a].member # m /\ \A p \in posts : proc[a].message = p.id => p.member # m
    BY <1>7 DEF DeletePost, About, PostsHaveOneOwner, KnowsOwner, Failing
  <2>2. \A p : p.member = m => (p \in posts' <=> p \in posts)
    BY <1>7, <2>1 DEF DeletePost, Attempt
  <2>3. UNCHANGED <<muted, row, inChat>>
    BY <1>7 DEF DeletePost
  <2>4. QED
    BY <2>2, <2>3, SameChallengeKept DEF Untouched
<1>8. QED
  BY <1>2, <1>3, <1>4, <1>5, <1>6, <1>7 DEF Claim, Inherit, ReleaseClaim, MarkSolved,
     ClearCaptcha, SetCaptchaDetails, Mute, Unmute

-----------------------------------------------------------------------------
(* Strangers *)

\* Who a delivery, a greeting and a failure will be about.
LEMMA WhoIsNext ==
  ASSUME NEW m \in Members
  PROVE  /\ \A batch, todo : ~About(Challenge(batch, todo), m)
         /\ \A batch, todo : ~Listed(Challenge(batch, todo), m)
         /\ \A batch, todo : Awaited(Challenge(batch, todo), m) => m \in todo
         /\ \A batch, todo, claimed : ~Involves(Greet(batch, todo, claimed), m)
         /\ \A todo : /\ ~About(FailNext(todo), m) /\ ~Awaited(FailNext(todo), m)
                      /\ Listed(FailNext(todo), m) => \E e \in todo : e[1] = m
         /\ \A x, n, todo : /\ About(Fail(x, n, todo), m) => x = m
                            /\ ~Awaited(Fail(x, n, todo), m)
                            /\ Listed(Fail(x, n, todo), m) => \E e \in todo : e[1] = m
         /\ ~Involves(Resting, m)
<1>1. \A batch, todo, claimed : ~Involves(Greet(batch, todo, claimed), m)
  BY DEF Greet, Resting, Involves, About, Awaited, Listed, Pressing, Failing
<1>2. \A batch, todo : /\ ~About(Challenge(batch, todo), m)
                       /\ ~Listed(Challenge(batch, todo), m)
                       /\ Awaited(Challenge(batch, todo), m) => m \in todo
  BY <1>1 DEF Challenge, Resting, Involves, About, Awaited, Listed, Pressing, Failing
<1>3. QED
  BY <1>1, <1>2 DEF FailNext, Fail, Resting, Involves, About, Awaited, Listed, Pressing, Failing

\* A goroutine that goes on turns to nobody new; only the reading of users and the
\* sweep turn to the next one they have.
LEMMA GoingOn ==
  ASSUME TypeOK, NEW m \in Members, NEW a \in Actors,
         \/ \E emoji \in Emojis : Claim(a, emoji)
         \/ \E x \in Members : ClaimGreeting(a, x) \/ ClearGreeting(a, x)
         \/ Inherit(a) \/ ClaimLost(a) \/ Mute(a) \/ Post(a) \/ PostFails(a) \/ PostUnseen(a)
         \/ ReleaseClaim(a)
         \/ SetCaptchaDetails(a) \/ SendGreeting(a) \/ SendGreetingFails(a)
         \/ HandlePress(a) \/ FailCaptcha(a)
  PROVE  /\ About(proc'[a], m) => About(proc[a], m)
         /\ Awaited(proc'[a], m) => Awaited(proc[a], m)
         /\ Listed(proc'[a], m) => Listed(proc[a], m)
<1> USE DEF Pressing, Failing
<1>1. CASE \E emoji \in Emojis : Claim(a, emoji)
  <2>1. PICK emoji \in Emojis : proc'[a] = [at |-> "mute", member |-> proc[a].member, emoji |-> emoji,
                             batch |-> proc[a].batch, todo |-> proc[a].todo]
    BY <1>1 DEF Claim, Goto, TypeOK
  <2>2. QED
    BY <1>1, <2>1 DEF Claim, About, Awaited, Listed
<1>2. CASE \E x \in Members : ClaimGreeting(a, x)
  <2>1. \E batch, todo, claimed : proc'[a] = Greet(batch, todo, claimed)
    BY <1>2 DEF ClaimGreeting, Attempt, Goto, TypeOK
  <2>2. QED
    BY <2>1, WhoIsNext DEF Involves
<1>3. CASE \/ \E x \in Members : ClearGreeting(a, x)
           \/ SendGreeting(a) \/ SendGreetingFails(a)
  <2>1. proc[a] \in [at : {"welcome", "ungreet"}, claimed : SUBSET Members]
    BY <1>3, AtTypes DEF ClearGreeting, SendGreeting, SendGreetingFails
  <2>2. \/ proc'[a] = Resting \/ proc'[a] = [proc[a] EXCEPT !.at = "ungreet"]
        \/ \E claimed : proc'[a] = [proc[a] EXCEPT !.claimed = claimed]
    <3>1. ASSUME NEW x \in Members, ClearGreeting(a, x)
          PROVE  \/ proc'[a] = Resting
                 \/ proc'[a] = [proc[a] EXCEPT !.claimed = proc[a].claimed \ {x}]
      BY <3>1 DEF ClearGreeting, Goto, TypeOK
    <3>2. QED
      BY <1>3, <3>1 DEF SendGreeting, SendGreetingFails, Goto, TypeOK
  <2>3. /\ Resting.at = "rest" /\ [proc[a] EXCEPT !.at = "ungreet"].at = "ungreet"
        /\ \A claimed : [proc[a] EXCEPT !.claimed = claimed].at = proc[a].at
    BY <2>1 DEF Resting
  <2>4. proc'[a].at \in {"rest", "welcome", "ungreet"}
    BY <2>1, <2>2, <2>3
  <2>5. QED
    BY <2>4 DEF About, Awaited, Listed
<1>4. CASE Inherit(a) \/ ClaimLost(a) \/ ReleaseClaim(a) \/ SetCaptchaDetails(a)
  <2>1. proc'[a] = Challenge(proc[a].batch, proc[a].todo)
    BY <1>4 DEF Inherit, ClaimLost, ReleaseClaim, SetCaptchaDetails, NextMember, Goto, TypeOK
  <2>2. m \in proc[a].todo => Awaited(proc[a], m)
    BY <1>4 DEF Inherit, ClaimLost, ReleaseClaim, SetCaptchaDetails, Awaited
  <2>3. QED
    BY <2>1, <2>2, WhoIsNext
<1>5. CASE Mute(a) \/ PostFails(a) \/ PostUnseen(a)
  <2>1. proc[a] \in [at : {"mute", "post", "release"}, member : Members, emoji : Emojis,
                    batch : Batches, todo : SUBSET Members]
    BY <1>5, AtTypes DEF Mute, PostFails, PostUnseen
  <2>2. proc'[a].at \in {"post", "release"} /\ proc'[a].member = proc[a].member /\ proc'[a].todo = proc[a].todo
    BY <1>5, <2>1 DEF Mute, PostFails, PostUnseen, Goto, TypeOK
  <2>3. QED
    BY <1>5, <2>2 DEF Mute, PostFails, PostUnseen, About, Awaited, Listed
<1>6. CASE Post(a)
  <2>1. /\ proc'[a].at = "details" /\ proc'[a].todo = proc[a].todo
        /\ proc'[a].post.member = proc[a].member
    BY <1>6 DEF Post, NewPost, Goto, TypeOK
  <2>2. QED
    BY <1>6, <2>1 DEF Post, About, Awaited, Listed
<1>7. CASE GetPending(a)
  <2>1. proc[a] \in PressStates
    BY <1>7, AtTypes DEF GetPending
  <2>2. \/ proc'[a] = Resting \/ proc'[a] = Fail(proc[a].member, row[proc[a].member].message, {})
        \/ proc'[a] = [proc[a] EXCEPT !.at = "ensure"]
    BY <1>7 DEF GetPending, Attempt, Goto, TypeOK
  <2>3. proc[a].member = m => About(proc[a], m)
    BY <1>7 DEF GetPending, About
  <2>4. /\ About([proc[a] EXCEPT !.at = "ensure"], m) => About(proc[a], m)
        /\ ~Awaited([proc[a] EXCEPT !.at = "ensure"], m) /\ ~Listed([proc[a] EXCEPT !.at = "ensure"], m)
    BY <2>1, <2>3 DEF PressStates, About, Awaited, Listed
  <2>5. QED
    BY <2>2, <2>3, <2>4, WhoIsNext DEF Involves
<1>8. CASE EnsureMember(a) \/ MarkSolved(a) \/ MarkUser(a) \/ Unmute(a) \/ Tidy(a)
  <2>1. proc[a] \in PressStates
    BY <1>8, AtTypes DEF EnsureMember, MarkSolved, MarkUser, Unmute, Tidy
  <2>2. proc'[a] = Resting \/ \E x \in {"mark", "markUser", "unmute", "tidy"} : proc'[a] = [proc[a] EXCEPT !.at = x]
    BY <1>8 DEF EnsureMember, MarkSolved, MarkUser, Unmute, Tidy, Attempt, Goto, TypeOK
  <2>3. \A x \in {"mark", "markUser", "unmute", "tidy"} :
          /\ About([proc[a] EXCEPT !.at = x], m) => About(proc[a], m)
          /\ ~Awaited([proc[a] EXCEPT !.at = x], m) /\ ~Listed([proc[a] EXCEPT !.at = x], m)
    BY <2>1 DEF PressStates, About, Awaited, Listed
  <2>4. QED
    BY <2>2, <2>3, WhoIsNext DEF Involves
<1>9. CASE IsMuted(a) \/ Ban(a) \/ Unban(a) \/ DeletePost(a)
  <2>1. proc[a] \in FailStates(IF a = Sweeper THEN SUBSET Expiry ELSE {{}})
    BY <1>9, AtTypes DEF IsMuted, Ban, Unban, DeletePost
  <2>2. \E x \in {"ban", "unban", "delete", "clear"} : proc'[a] = [proc[a] EXCEPT !.at = x]
    BY <1>9 DEF IsMuted, Ban, Unban, DeletePost, Attempt, Goto, TypeOK
  <2>3. \A x \in {"ban", "unban", "delete", "clear"} :
          /\ About([proc[a] EXCEPT !.at = x], m) => About(proc[a], m)
          /\ ~Awaited([proc[a] EXCEPT !.at = x], m)
          /\ Listed([proc[a] EXCEPT !.at = x], m) => Listed(proc[a], m)
    BY <2>1 DEF FailStates, About, Awaited, Listed
  <2>4. QED
    BY <2>2, <2>3
<1>10. CASE ClearCaptcha(a)
  <2>1. proc'[a] = FailNext(proc[a].todo)
    BY <1>10 DEF ClearCaptcha, Goto, TypeOK
  <2>2. (\E e \in proc[a].todo : e[1] = m) => Listed(proc[a], m)
    BY <1>10 DEF ClearCaptcha, Listed
  <2>3. QED
    BY <2>1, <2>2, WhoIsNext
<1>11. QED
  BY <1>1, <1>2, <1>3, <1>4, <1>5, <1>6, <1>7, <1>8, <1>9, <1>10 DEF HandlePress, FailCaptcha

\* Only people joining add to the members or to the joins, and what is solved or
\* failed stays so.
LEMMA OnlyPeopleArrive ==
  ASSUME TypeOK, [Next]_vars, NEW m \in Members
  PROVE  /\ Fault \/ UNCHANGED faults
         /\ solvedGlobally[m] => solvedGlobally'[m]
         /\ \/ \E S \in Batches : Join(S)
            \/ UNCHANGED joins /\ (inChat'[m] => inChat[m])
<1> USE DEF telegram, database, settings, history, TypeOK
<1>a. \A h \in Handlers : h \in Actors
  BY DEF Actors
<1> DEFINE Grows == /\ Fault \/ UNCHANGED faults
                    /\ solvedGlobally[m] => solvedGlobally'[m]
                    /\ UNCHANGED joins /\ (inChat'[m] => inChat[m])
<1>1. ASSUME \E S \in Batches : Join(S) PROVE UNCHANGED <<faults, solvedGlobally>>
  BY <1>1 DEF Join
<1>2. ASSUME People, ~\E S \in Batches : Join(S) PROVE Grows
  BY <1>2 DEF People, Leave, SolveElsewhere, Age, Press, SetCaptcha
<1>3. ASSUME NEW h \in Handlers, HandleJoin(h) PROVE Grows
  BY <1>3 DEF HandleJoin, ReceiveJoin, ReadGlobal, ClaimGreeting, ClearGreeting, Claim, Inherit,
              ClaimLost, Mute, Post, PostFails, PostUnseen, ReleaseClaim, SetCaptchaDetails,
              SendGreeting, SendGreetingFails, Attempt
<1>4. ASSUME NEW h \in Handlers, HandlePress(h) PROVE Grows
  BY <1>4 DEF HandlePress, GetPending, EnsureMember, MarkSolved, MarkUser, Unmute, Tidy, Attempt
<1>5. ASSUME NEW a \in Actors, FailCaptcha(a) PROVE Grows
  BY <1>5 DEF FailCaptcha, IsMuted, Ban, Unban, DeletePost, ClearCaptcha, Attempt
<1>6. ASSUME \/ Sweep \/ Restart \/ UNCHANGED vars
             \/ \E h \in Handlers, x \in Members : ReceiveLeave(h, x)
      PROVE  Grows
  BY <1>6 DEF Sweep, StartSweep, TakeExpired, Restart, vars, ReceiveLeave, Attempt
<1>7. QED
  BY <1>1, <1>2, <1>3, <1>4, <1>5, <1>6, <1>a DEF Next, Work, Actors

\* A stranger stays one while nothing of theirs changes and the goroutine that
\* moves has nothing to do with them.
LEMMA StrangerStays ==
  ASSUME TypeOK, NEW m \in Members, NEW a \in Actors, StrangerIsIdle(m), joins[m] = 0,
         Untouched(m), inChat'[m] = inChat[m],
         \A S \in Batches : m \in S => joinNotices'[S] = 0,
         \A b \in Actors : b # a => proc'[b] = proc[b], ~Involves(proc'[a], m)
  PROVE  StrangerIsIdle(m)'
<1>1. /\ ~inChat[m] /\ row[m].message = 0 /\ \A p \in posts : p.member # m
      /\ \A b \in Actors : ~Involves(proc[b], m)
  BY DEF StrangerIsIdle
<1>2. \A p \in posts' : p.member # m
  BY <1>1 DEF Untouched
<1>3. \A b \in Actors : ~Involves(proc'[b], m)
  BY <1>1
<1>4. \A b \in Actors : ~Involves(proc[b], m)'
  BY <1>3 DEF Involves, About, Awaited, Listed
<1>5. ~inChat'[m] /\ row'[m].message = 0
  BY <1>1 DEF Untouched, SameChallenge
<1>6. QED
  BY <1>2, <1>4, <1>5 DEF StrangerIsIdle

\* Who never joined stays out of everything.
LEMMA StepStrangersAreIdle ==
  TypeOK /\ PostsHaveOneOwner /\ StrangersAreIdle /\ [Next]_vars => StrangersAreIdle'
<1> SUFFICES ASSUME TypeOK, PostsHaveOneOwner, StrangersAreIdle, [Next]_vars,
                    NEW m \in Members, joins'[m] = 0
             PROVE  StrangerIsIdle(m)'
  BY DEF StrangersAreIdle, StrangerIsIdle
<1> USE DEF telegram, database, settings, history
<1>a. StrangerIsIdle(m)
  BY DEF StrangersAreIdle
<1>b. ASSUME NEW S \in Batches, Join(S) PROVE joins[m] = 0 /\ m \notin S
  <2>1. joins[m] \in Nat
    BY DEF TypeOK
  <2>2. QED
    BY <1>b, <2>1 DEF Join
<1>c. joins[m] = 0
  BY <1>b, OnlyPeopleArrive
<1>d. /\ ~inChat[m] /\ row[m].message = 0 /\ \A p \in posts : p.member # m
      /\ \A S \in Batches : m \in S => joinNotices[S] = 0
      /\ \A b \in Actors : ~Involves(proc[b], m)
  BY <1>a, <1>c DEF StrangerIsIdle
<1>e. \A h \in Handlers : h \in Actors
  BY DEF Actors
<1>f. Sweeper \in Actors
  BY DEF Actors
<1>g. ASSUME NEW a \in Actors, Untouched(m), inChat'[m] = inChat[m], UNCHANGED joinNotices,
             \A b \in Actors : b # a => proc'[b] = proc[b], ~Involves(proc'[a], m)
      PROVE  StrangerIsIdle(m)'
  BY <1>a, <1>c, <1>d, <1>g, StrangerStays
<1>1. CASE \/ \E x \in Members : SolveElsewhere(x) \/ Age(x)
           \/ \E on \in Captcha : SetCaptcha(on)
           \/ UNCHANGED vars
  <2>1. Untouched(m)
    BY <1>1, <1>f, TouchesNobody DEF People
  <2>2. UNCHANGED <<inChat, joinNotices, proc>>
    BY <1>1 DEF SolveElsewhere, Age, SetCaptcha, vars
  <2>3. QED
    BY <1>d, <1>f, <1>g, <2>1, <2>2
<1>2. ASSUME NEW S \in Batches, Join(S) PROVE StrangerIsIdle(m)'
  <2>1. Untouched(m)
    BY <1>2, <1>f, TouchesNobody DEF People
  <2>2. inChat'[m] = inChat[m] /\ UNCHANGED proc
    BY <1>2, <1>b DEF Join, TypeOK
  <2>3. ASSUME NEW T \in Batches, m \in T PROVE joinNotices'[T] = 0
    <3>1. T # S /\ ~\E x \in S : T = {x}
      BY <1>b, <1>2, <2>3
    <3>2. joinNotices[T] = 0
      BY <1>d, <2>3
    <3>3. QED
      BY <1>2, <3>1, <3>2 DEF Join
  <2>4. QED
    BY <1>a, <1>c, <1>d, <1>f, <2>1, <2>2, <2>3, StrangerStays
<1>3. ASSUME NEW x \in Members, Leave(x) PROVE StrangerIsIdle(m)'
  <2>1. Untouched(m)
    BY <1>3, <1>f, TouchesNobody DEF People
  <2>2. UNCHANGED <<joinNotices, proc>> /\ inChat'[m] = inChat[m]
    BY <1>3, <1>d DEF Leave, TypeOK
  <2>3. QED
    BY <1>d, <1>f, <1>g, <2>1, <2>2
<1>4. ASSUME NEW h \in Handlers, NEW x \in Members, NEW p \in posts, NEW emoji \in Emojis,
             Press(h, x, p, emoji)
      PROVE  StrangerIsIdle(m)'
  <2>1. Untouched(m)
    BY <1>4, <1>f, TouchesNobody DEF People
  <2>2. UNCHANGED <<inChat, joinNotices>>
    BY <1>4 DEF Press
  <2>3. proc'[h].at = "pending" /\ proc'[h].member = x /\ x # m
    BY <1>4, <1>d, <1>e DEF Press, TypeOK
  <2>4. ~Involves(proc'[h], m)
    BY <2>3 DEF Involves, About, Awaited, Listed, Failing
  <2>5. \A b \in Actors : b # h => proc'[b] = proc[b]
    BY <1>4 DEF Press, TypeOK
  <2>6. QED
    BY <1>e, <1>g, <2>1, <2>2, <2>4, <2>5
<1>5. ASSUME NEW h \in Handlers, NEW S \in Batches, ReceiveJoin(h, S) PROVE StrangerIsIdle(m)'
  <2>1. Untouched(m)
    BY <1>5, <1>e, TouchesNobody
  <2>2. m \notin S /\ UNCHANGED inChat
    BY <1>5, <1>d DEF ReceiveJoin
  <2>3. \A T \in Batches : m \in T => joinNotices'[T] = 0
    BY <1>5, <1>d, <2>2 DEF ReceiveJoin, TypeOK
  <2>4. \A b \in Actors : b # h => proc'[b] = proc[b]
    BY <1>5 DEF ReceiveJoin, Attempt, Goto, TypeOK
  <2>5. proc'[h] = proc[h] \/ proc'[h] = Challenge(S, IF captchaOn THEN S ELSE {})
    BY <1>5, <1>e DEF ReceiveJoin, Attempt, Goto, TypeOK
  <2>6. ~Involves(proc'[h], m)
    <3>1. ~Involves(Challenge(S, IF captchaOn THEN S ELSE {}), m)
      BY <2>2, WhoIsNext DEF Involves
    <3>2. QED
      BY <1>d, <1>e, <2>5, <3>1
  <2>7. QED
    BY <1>a, <1>c, <1>e, <2>1, <2>2, <2>3, <2>4, <2>6, StrangerStays
<1>6. CASE StartSweep
  <2>1. Untouched(m)
    BY <1>6, <1>f, TouchesNobody
  <2>2. UNCHANGED <<inChat, joinNotices>> /\ \A b \in Actors : b # Sweeper => proc'[b] = proc[b]
    BY <1>6 DEF StartSweep, Goto, TypeOK
  <2> DEFINE list == IF captchaOn THEN {x \in Members : Expired(row[x])} ELSE {}
  <2>3. proc'[Sweeper] = FailNext({<<x, row[x].message>> : x \in list})
    BY <1>6, <1>f DEF StartSweep, Goto, TypeOK
  <2>4. m \notin list
    BY <1>d DEF Expired
  <2>5. \A e \in {<<x, row[x].message>> : x \in list} : e[1] # m
    BY <2>4
  <2>6. ~Involves(proc'[Sweeper], m)
    BY <2>3, <2>5, WhoIsNext DEF Involves
  <2>7. QED
    BY <1>f, <1>g, <2>1, <2>2, <2>6
<1>7. CASE Restart
  <2>1. Untouched(m)
    BY <1>7, <1>f, TouchesNobody
  <2>2. UNCHANGED <<inChat, joinNotices>> /\ \A b \in Actors : proc'[b] = Resting
    BY <1>7 DEF Restart
  <2>3. \A b \in Actors : ~Involves(proc'[b], m)
    BY <2>2, WhoIsNext
  <2>4. \A b \in Actors : ~Involves(proc[b], m)'
    BY <2>3 DEF Involves, About, Awaited, Listed
  <2>5. row'[m].message = 0 /\ \A p \in posts' : p.member # m
    BY <1>d, <2>1 DEF Untouched, SameChallenge
  <2>6. QED
    BY <1>d, <2>2, <2>4, <2>5 DEF StrangerIsIdle
<1>8. ASSUME NEW h \in Handlers, NEW x \in Members, ReceiveLeave(h, x) PROVE StrangerIsIdle(m)'
  <2>1. Untouched(m)
    BY <1>8, <1>e, TouchesNobody
  <2>2. UNCHANGED <<inChat, joinNotices, proc>>
    BY <1>8 DEF ReceiveLeave
  <2>3. QED
    BY <1>d, <1>f, <1>g, <2>1, <2>2
<1>9. ASSUME NEW h \in Handlers, NEW x \in Members, ReadGlobal(h, x) PROVE StrangerIsIdle(m)'
  <2>1. Untouched(m)
    BY <1>9, <1>e, TouchesNobody
  <2>2. /\ proc'[h].at \in {"inherit", "claim"} /\ proc'[h].member = x
        /\ proc'[h].todo = proc[h].todo \ {x}
    BY <1>9, <1>e DEF ReadGlobal, Goto, TypeOK
  <2>3. m \notin proc[h].todo /\ x \in proc[h].todo
    BY <1>9, <1>d, <1>e DEF ReadGlobal, Involves, Awaited
  <2>4. ~Involves(proc'[h], m)
    BY <2>2, <2>3 DEF Involves, About, Awaited, Listed, Pressing, Failing
  <2>5. UNCHANGED <<inChat, joinNotices>> /\ \A b \in Actors : b # h => proc'[b] = proc[b]
    BY <1>9 DEF ReadGlobal, Goto, TypeOK
  <2>6. QED
    BY <1>e, <1>g, <2>1, <2>4, <2>5
<1>10. ASSUME NEW x \in Members, NEW i \in 1 .. posted, TakeExpired(<<x, i>>) PROVE StrangerIsIdle(m)'
  <2>1. Untouched(m)
    BY <1>10, <1>f, TouchesNobody
  <2>2. /\ proc'[Sweeper] = Fail(x, i, proc[Sweeper].todo \ {<<x, i>>})
        /\ <<x, i>> \in proc[Sweeper].todo
    BY <1>10, <1>f DEF TakeExpired, Goto, TypeOK
  <2>3. \A e \in proc[Sweeper].todo : e[1] # m
    BY <1>10, <1>d, <1>f DEF TakeExpired, Involves, Listed
  <2>4. ~Involves(proc'[Sweeper], m)
    BY <2>2, <2>3, WhoIsNext DEF Involves
  <2>5. UNCHANGED <<inChat, joinNotices>> /\ \A b \in Actors : b # Sweeper => proc'[b] = proc[b]
    BY <1>10 DEF TakeExpired, Goto, TypeOK
  <2>6. QED
    BY <1>f, <1>g, <2>1, <2>4, <2>5
<1>11. ASSUME NEW a \in Actors,
              \/ \E x \in Members : ClaimGreeting(a, x) \/ ClearGreeting(a, x)
              \/ ClaimLost(a) \/ PostFails(a) \/ SendGreeting(a) \/ SendGreetingFails(a)
              \/ GetPending(a) \/ EnsureMember(a) \/ MarkUser(a) \/ IsMuted(a) \/ Unban(a)
       PROVE  StrangerIsIdle(m)'
  <2>1. Untouched(m)
    BY <1>11, TouchesNobody
  <2>2. ~Involves(proc'[a], m)
    BY <1>11, <1>d, GoingOn DEF HandlePress, FailCaptcha, Involves
  <2>3. UNCHANGED <<inChat, joinNotices>>
    BY <1>11 DEF ClaimGreeting, ClearGreeting, ClaimLost, PostFails,
                 SendGreeting, SendGreetingFails, GetPending, EnsureMember, MarkUser, IsMuted, Unban
  <2>4. \E s : Goto(a, s)
    BY <1>11 DEF ClaimGreeting, ClearGreeting, ClaimLost, PostFails, Attempt,
                 SendGreeting, SendGreetingFails, GetPending, EnsureMember, MarkUser, IsMuted, Unban
  <2>5. \A b \in Actors : b # a => proc'[b] = proc[b]
    BY <2>4 DEF Goto, TypeOK
  <2>6. QED
    BY <1>g, <2>1, <2>2, <2>3, <2>5
<1>12. ASSUME NEW a \in Actors,
              \/ \E emoji \in Emojis : Claim(a, emoji)
              \/ Inherit(a) \/ Mute(a) \/ Post(a) \/ PostUnseen(a) \/ ReleaseClaim(a)
              \/ SetCaptchaDetails(a)
              \/ MarkSolved(a) \/ Unmute(a) \/ Tidy(a)
              \/ Ban(a) \/ DeletePost(a) \/ ClearCaptcha(a)
       PROVE  StrangerIsIdle(m)'
  <2>1. ~About(proc[a], m)
    BY <1>d DEF Involves
  <2>2. Untouched(m) /\ inChat'[m] = inChat[m]
    BY <1>12, <2>1, TouchesItsMember
  <2>3. ~Involves(proc'[a], m)
    BY <1>12, <1>d, GoingOn DEF HandlePress, FailCaptcha, Involves
  <2>4. UNCHANGED joinNotices
    BY <1>12 DEF Claim, Inherit, Mute, Post, PostUnseen, ReleaseClaim, SetCaptchaDetails, MarkSolved,
                 Unmute, Tidy, Ban, DeletePost, ClearCaptcha
  <2>5. \E s : Goto(a, s)
    BY <1>12 DEF Claim, Inherit, Mute, Post, PostUnseen, ReleaseClaim, SetCaptchaDetails, MarkSolved,
                 Unmute, Tidy, Ban, DeletePost, ClearCaptcha, Attempt
  <2>6. \A b \in Actors : b # a => proc'[b] = proc[b]
    BY <2>5 DEF Goto, TypeOK
  <2>7. QED
    BY <1>g, <2>2, <2>3, <2>4, <2>6
<1>13. QED
  BY <1>1, <1>2, <1>3, <1>4, <1>5, <1>6, <1>7, <1>8, <1>9, <1>10, <1>11, <1>12, <1>e, <1>f
     DEF Next, People, Work, HandleJoin, HandlePress, FailCaptcha, Sweep

-----------------------------------------------------------------------------
(* Newcomers *)

\* Nobody becomes a newcomer later than by joining.
LEMMA NewcomerBefore ==
  ASSUME TypeOK, [Next]_vars, NEW m \in Members, Newcomer(m)'
  PROVE  Newcomer(m) /\ UNCHANGED faults
<1>1. faults \in Nat /\ joins[m] \in Nat /\ solvedGlobally[m] \in BOOLEAN
  BY JoinAssumption DEF TypeOK
<1>2. UNCHANGED faults
  BY <1>1, OnlyPeopleArrive DEF Newcomer, Fault
<1>3. ~solvedGlobally[m]
  BY OnlyPeopleArrive DEF Newcomer
<1>4. CASE UNCHANGED joins /\ (inChat'[m] => inChat[m])
  BY <1>2, <1>3, <1>4 DEF Newcomer
<1>5. ASSUME NEW S \in Batches, Join(S) PROVE Newcomer(m)
  <2>1. CASE m \in S
    <3>1. joins'[m] = joins[m] + 1
      BY <1>5, <2>1 DEF Join
    <3>2. joins[m] = 0
      BY <1>1, <3>1 DEF Newcomer
    <3>3. QED
      BY <1>2, <1>3, <3>2 DEF Newcomer
  <2>2. CASE m \notin S
    <3>1. joins'[m] = joins[m] /\ inChat'[m] = inChat[m]
      BY <1>5, <2>2 DEF Join, TypeOK
    <3>2. QED
      BY <1>2, <1>3, <3>1 DEF Newcomer
  <2>3. QED
    BY <2>1, <2>2
<1>6. QED
  BY <1>2, <1>4, <1>5, OnlyPeopleArrive

\* A goroutine that is about somebody else, and fails only those who are muted,
\* counts on nothing.
LEMMA CountsOnNothing ==
  ASSUME NEW m \in Members, NEW s, ~About(s, m), Listed(s, m) => muted[m]
  PROVE  CountsOn(s, m) /\ ~Challenging(s, m) /\ ~MarkingUser(s, m)
BY DEF CountsOn, Challenging, MarkingUser, About, Pressing, Failing

\* What goroutines count on is the challenge of m.
LEMMA CountsOnTheSame ==
  ASSUME TypeOK, NEW m \in Members, Untouched(m), NEW b \in Actors, CountsOn(proc'[b], m)
  PROVE  CountsOn(proc[b], m)'
BY DEF CountsOn, Untouched, SameChallenge, Challenging, Listed

\* While the challenge of m is left alone it stays covered: one goroutine goes on
\* with what it was doing about m, if anything.
LEMMA CoverageKept ==
  ASSUME TypeOK, NEW m \in Members, NEW a \in Actors, Newcomer(m), NewcomerIsCovered(m),
         Untouched(m), \A b \in Actors : b # a => proc'[b] = proc[b],
         CountsOn(proc'[a], m), Challenging(proc'[a], m) <=> Challenging(proc[a], m),
         MarkingUser(proc[a], m) => MarkingUser(proc'[a], m)
  PROVE  NewcomerIsCovered(m)'
<1>1. \A b \in Actors : CountsOn(proc'[b], m)
  BY DEF NewcomerIsCovered
<1>2. \A b \in Actors : CountsOn(proc[b], m)'
  BY <1>1, CountsOnTheSame
<1>3. \A b \in Actors : Challenging(proc'[b], m) <=> Challenging(proc[b], m)
  OBVIOUS
<1>4. \A b \in Actors : Challenging(proc[b], m)' <=> Challenging(proc[b], m)
  BY <1>3 DEF Challenging
<1>5. \A b \in Actors : MarkingUser(proc[b], m) => MarkingUser(proc'[b], m)
  OBVIOUS
<1>6. \A b \in Actors : MarkingUser(proc[b], m) => MarkingUser(proc[b], m)'
  BY <1>5 DEF MarkingUser
<1>7. \A b, c \in Actors : Challenging(proc[b], m)' /\ Challenging(proc[c], m)' => b = c
  BY <1>4 DEF NewcomerIsCovered
<1>8. /\ \A p \in posts' : p.member = m => muted'[m]
      /\ row'[m].message # 0 => muted'[m]
  BY DEF NewcomerIsCovered, Untouched, SameChallenge
<1>9. row'[m].solved => \E b \in Actors : MarkingUser(proc[b], m)'
  BY <1>6 DEF NewcomerIsCovered, Untouched, SameChallenge
<1>10. Answerable(m) => Answerable(m)'
  BY DEF Answerable, Untouched, SameChallenge
<1>11. muted'[m] => \/ Answerable(m)' \/ row'[m].solved
                   \/ \E b \in Actors : Challenging(proc[b], m)'
  BY <1>4, <1>10 DEF NewcomerIsCovered, Untouched, SameChallenge
<1>12. QED
  BY <1>2, <1>7, <1>8, <1>9, <1>11 DEF NewcomerIsCovered

\* Goroutines that stay where they are can go on counting on what the challenge
\* of m gains.
LEMMA OthersCountOn ==
  ASSUME TypeOK, NEW m \in Members, NEW b \in Actors, proc'[b] = proc[b], CountsOn(proc[b], m),
         muted[m] => muted'[m], posts \subseteq posts',
         Challenging(proc[b], m) => Pending(row'[m]) /\ row'[m].emoji = NoEmoji,
         row[m].emoji # NoEmoji \/ row[m].solved => row'[m].emoji # NoEmoji \/ row'[m].solved
  PROVE  CountsOn(proc[b], m)'
BY DEF CountsOn, Challenging, Listed

\* The steps that make, store or end the challenge of m, in that order.
LEMMA ClaimCovers ==
  ASSUME TypeOK, RowsAreConsistent, NEW m \in Members, Newcomer(m), NewcomerIsCovered(m),
         NEW h \in Handlers, NEW emoji \in Emojis, Claim(h, emoji), proc[h].member = m
  PROVE  NewcomerIsCovered(m)'
<1> USE DEF telegram, database, settings, history
<1>a. h \in Actors /\ row[m] \in Rows
  BY DEF Actors, TypeOK, Rows
<1>1. /\ UNCHANGED <<muted, posts>> /\ Claimable(row[m])
      /\ row'[m] = [row[m] EXCEPT !.requested = "fresh"]
      /\ \A b \in Actors : b # h => proc'[b] = proc[b]
      /\ proc'[h] = [at |-> "mute", member |-> m, emoji |-> emoji,
                    batch |-> proc[h].batch, todo |-> proc[h].todo]
  BY <1>a DEF Claim, SetRow, Goto, TypeOK
<1>2. row[m].message = 0 /\ row[m].emoji = NoEmoji /\ ~Pending(row[m]) /\ ~row[m].solved
  BY <1>1 DEF RowsAreConsistent, Claimable, Pending
<1>3. /\ Pending(row'[m]) /\ row'[m].emoji = NoEmoji
      /\ row'[m].message = 0 /\ ~row'[m].solved
  BY <1>a, <1>1, <1>2 DEF Pending, Rows
<1>4. \A b \in Actors : CountsOn(proc[b], m) /\ ~Challenging(proc[b], m)
  BY <1>2 DEF NewcomerIsCovered, CountsOn
<1>5. ASSUME NEW b \in Actors, b # h PROVE CountsOn(proc[b], m)' /\ ~Challenging(proc[b], m)'
  <2>1. CountsOn(proc[b], m)'
    BY <1>1, <1>2, <1>4, <1>5, OthersCountOn
  <2>2. QED
    BY <1>1, <1>4, <1>5, <2>1 DEF Challenging
<1>6. Challenging(proc[h], m)' /\ ~Listed(proc[h], m)' /\ CountsOn(proc[h], m)'
  BY <1>1, <1>3 DEF Challenging, Listed, Failing, CountsOn
<1>7. \A p \in posts' : p.member = m => muted'[m]
  BY <1>1 DEF NewcomerIsCovered
<1>8. QED
  BY <1>a, <1>3, <1>5, <1>6, <1>7 DEF NewcomerIsCovered

LEMMA MuteCovers ==
  ASSUME TypeOK, NEW m \in Members, Newcomer(m), NewcomerIsCovered(m), UNCHANGED faults,
         NEW h \in Handlers, Mute(h), proc[h].member = m
  PROVE  NewcomerIsCovered(m)'
<1> USE DEF telegram, database, settings, history
<1>a. h \in Actors /\ proc[h].at = "mute"
  BY DEF Actors, Mute
<1>1. /\ UNCHANGED <<row, posts>> /\ muted'[m] = TRUE
      /\ \A b \in Actors : b # h => proc'[b] = proc[b]
      /\ proc'[h] = [proc[h] EXCEPT !.at = "post"]
  <2>1. faults \in Nat
    BY JoinAssumption DEF TypeOK
  <2>2. QED
    BY <1>a, <2>1 DEF Mute, Attempt, Fault, Goto, TypeOK
<1>2. proc'[h].at = "post" /\ proc'[h].member = m
  BY <1>a, <1>1, AtTypes
<1>3. Challenging(proc[h], m) /\ \A b \in Actors : CountsOn(proc[b], m)
  BY <1>a DEF Challenging, NewcomerIsCovered
<1>4. Pending(row[m]) /\ row[m].emoji = NoEmoji
  BY <1>a, <1>3 DEF CountsOn
<1>5. ASSUME NEW b \in Actors, b # h PROVE CountsOn(proc[b], m)' /\ ~Challenging(proc[b], m)'
  <2>1. CountsOn(proc[b], m)'
    BY <1>1, <1>3, <1>4, <1>5, OthersCountOn
  <2>2. ~Challenging(proc[b], m)
    BY <1>a, <1>3, <1>5 DEF NewcomerIsCovered
  <2>3. QED
    BY <1>1, <1>5, <2>1, <2>2 DEF Challenging
<1>6. Challenging(proc[h], m)' /\ ~Listed(proc[h], m)' /\ CountsOn(proc[h], m)'
  BY <1>1, <1>2, <1>4 DEF Challenging, Listed, Failing, CountsOn
<1>7. ~row'[m].solved
  BY <1>1, <1>4 DEF Pending
<1>8. QED
  BY <1>a, <1>1, <1>5, <1>6, <1>7 DEF NewcomerIsCovered

LEMMA PostCovers ==
  ASSUME TypeOK, NEW m \in Members, Newcomer(m), NewcomerIsCovered(m),
         NEW h \in Handlers, Post(h), proc[h].member = m
  PROVE  NewcomerIsCovered(m)'
<1> USE DEF telegram, database, settings, history
<1> DEFINE p == NewPost(m, proc[h].emoji)
<1>a. h \in Actors /\ proc[h].at = "post"
  BY DEF Actors, Post
<1>1. /\ UNCHANGED <<row, muted>> /\ posts' = posts \union {p}
      /\ \A b \in Actors : b # h => proc'[b] = proc[b]
      /\ proc'[h].at = "details" /\ proc'[h].post = p
  BY <1>a DEF Post, Goto, TypeOK
<1>2. p.member = m
  BY DEF NewPost
<1> HIDE DEF p
<1>3. Challenging(proc[h], m) /\ \A b \in Actors : CountsOn(proc[b], m)
  BY <1>a DEF Challenging, NewcomerIsCovered
<1>4. muted[m] /\ Pending(row[m]) /\ row[m].emoji = NoEmoji
  BY <1>a, <1>3 DEF CountsOn
<1>5. ASSUME NEW b \in Actors, b # h PROVE CountsOn(proc[b], m)' /\ ~Challenging(proc[b], m)'
  <2>1. CountsOn(proc[b], m)'
    BY <1>1, <1>3, <1>4, <1>5, OthersCountOn
  <2>2. ~Challenging(proc[b], m)
    BY <1>a, <1>3, <1>5 DEF NewcomerIsCovered
  <2>3. QED
    BY <1>1, <1>5, <2>1, <2>2 DEF Challenging
<1>6. Challenging(proc[h], m)' /\ ~Listed(proc[h], m)' /\ CountsOn(proc[h], m)'
  BY <1>1, <1>2, <1>4 DEF Challenging, Listed, Failing, CountsOn
<1>7. ~row'[m].solved /\ muted'[m]
  BY <1>1, <1>4 DEF Pending
<1>8. QED
  BY <1>a, <1>5, <1>6, <1>7 DEF NewcomerIsCovered

LEMMA DetailsCover ==
  ASSUME TypeOK, NEW m \in Members, Newcomer(m), NewcomerIsCovered(m), UNCHANGED faults,
         NEW h \in Handlers, SetCaptchaDetails(h), proc[h].post.member = m
  PROVE  NewcomerIsCovered(m)'
<1> USE DEF telegram, database, settings, history
<1> DEFINE p == proc[h].post
<1>a. h \in Actors /\ proc[h].at = "details" /\ row[m] \in Rows
  BY DEF Actors, SetCaptchaDetails, TypeOK, Rows
<1>b. p.id \in 1 .. posted /\ p.emoji \in Emojis /\ p.emoji # NoEmoji /\ posted \in Nat
  <2>1. p \in PostRecord
    BY <1>a, AtTypes
  <2>2. QED
    BY <2>1, JoinAssumption DEF PostRecord, TypeOK
<1>1. Challenging(proc[h], m) /\ \A b \in Actors : CountsOn(proc[b], m)
  BY <1>a DEF Challenging, NewcomerIsCovered
<1>2. muted[m] /\ p \in posts /\ Pending(row[m]) /\ row[m].emoji = NoEmoji
  BY <1>a, <1>1 DEF CountsOn
<1>3. /\ UNCHANGED <<muted, posts>>
      /\ row'[m] = [row[m] EXCEPT !.emoji = p.emoji, !.message = p.id]
  <2>1. faults \in Nat
    BY JoinAssumption DEF TypeOK
  <2>2. QED
    BY <1>a, <1>2, <2>1 DEF SetCaptchaDetails, SetRow, Attempt, Fault, TypeOK
<1>4. /\ \A b \in Actors : b # h => proc'[b] = proc[b]
      /\ proc'[h] = Challenge(proc[h].batch, proc[h].todo)
  BY <1>a DEF SetCaptchaDetails, NextMember, Goto, TypeOK
<1>5. /\ Pending(row'[m]) /\ ~row'[m].solved
      /\ row'[m].emoji = p.emoji /\ row'[m].message = p.id
  BY <1>a, <1>2, <1>3 DEF Pending, Rows
<1>6. Answerable(m)'
  BY <1>2, <1>3, <1>5 DEF Answerable
<1>7. ASSUME NEW b \in Actors, b # h PROVE CountsOn(proc[b], m)' /\ ~Challenging(proc[b], m)'
  <2>1. ~Challenging(proc[b], m)
    BY <1>a, <1>1, <1>7 DEF NewcomerIsCovered
  <2>2. CountsOn(proc[b], m)'
    BY <1>b, <1>1, <1>3, <1>4, <1>5, <1>7, <2>1, OthersCountOn
  <2>3. QED
    BY <1>4, <1>7, <2>1, <2>2 DEF Challenging
<1>8. ~Challenging(proc[h], m)' /\ CountsOn(proc[h], m)'
  <2>1. ~About(proc'[h], m) /\ ~Listed(proc'[h], m)
    BY <1>4, WhoIsNext
  <2>2. ~Challenging(proc'[h], m) /\ CountsOn(proc'[h], m)
    BY <2>1, CountsOnNothing
  <2>3. QED
    BY <2>1, <2>2 DEF Challenging, CountsOn, About, Listed, Pressing, Failing
<1>9. QED
  BY <1>2, <1>3, <1>5, <1>6, <1>7, <1>8 DEF NewcomerIsCovered

LEMMA SolvedCovers ==
  ASSUME TypeOK, NEW m \in Members, Newcomer(m), NewcomerIsCovered(m), UNCHANGED faults,
         NEW h \in Handlers, MarkSolved(h), proc[h].member = m
  PROVE  NewcomerIsCovered(m)'
<1> USE DEF telegram, database, settings, history
<1>a. h \in Actors /\ proc[h].at = "mark" /\ row[m] \in Rows
  BY DEF Actors, MarkSolved, TypeOK, Rows
<1>1. \A b \in Actors : CountsOn(proc[b], m)
  BY DEF NewcomerIsCovered
<1>2. muted[m] /\ (row[m].emoji # NoEmoji \/ row[m].solved)
  BY <1>a, <1>1 DEF CountsOn
<1>3. \A b \in Actors : ~Challenging(proc[b], m)
  BY <1>1, <1>2 DEF CountsOn, Pending
<1>4. /\ UNCHANGED <<muted, posts>> /\ row'[m] = Solved(row[m])
      /\ \A b \in Actors : b # h => proc'[b] = proc[b]
      /\ proc'[h] = [proc[h] EXCEPT !.at = "markUser"]
  <2>1. faults \in Nat
    BY JoinAssumption DEF TypeOK
  <2>2. /\ SetRow(m, Solved(row[m])) /\ Goto(h, [proc[h] EXCEPT !.at = "markUser"])
        /\ UNCHANGED <<muted, posts>>
    BY <2>1 DEF MarkSolved, Attempt, Fault
  <2>3. QED
    BY <1>a, <2>2 DEF SetRow, Goto, TypeOK
<1>5. proc'[h].at = "markUser" /\ proc'[h].member = m
  BY <1>a, <1>4, AtTypes
<1>6. row'[m].solved /\ row'[m].message = 0
  <2>1. WithoutChallenge(row[m]) \in Rows
    BY <1>a, RowTypes
  <2>2. Solved(row[m]).solved
    BY <2>1 DEF Solved, Rows
  <2>3. QED
    BY <1>4, <2>2, MessagesKept
<1>7. ASSUME NEW b \in Actors, b # h PROVE CountsOn(proc[b], m)' /\ ~Challenging(proc[b], m)'
  <2>1. CountsOn(proc[b], m)'
    BY <1>1, <1>3, <1>4, <1>6, <1>7, OthersCountOn
  <2>2. QED
    BY <1>3, <1>4, <1>7, <2>1 DEF Challenging
<1>8. ~Challenging(proc[h], m)' /\ MarkingUser(proc[h], m)'
  BY <1>5 DEF Challenging, MarkingUser
<1>9. CountsOn(proc[h], m)'
  BY <1>2, <1>4, <1>5, <1>8 DEF CountsOn, Listed, Failing
<1>10. QED
  BY <1>a, <1>2, <1>4, <1>6, <1>7, <1>8, <1>9 DEF NewcomerIsCovered

\* No step leaves a newcomer uncovered.
LEMMA StepNewcomersAreCovered ==
  /\ TypeOK /\ RowsAreConsistent /\ PostsHaveOneOwner /\ StrangersAreIdle /\ NewcomersAreCovered
  /\ [Next]_vars
  => NewcomersAreCovered'
<1> SUFFICES ASSUME TypeOK, RowsAreConsistent, PostsHaveOneOwner, StrangersAreIdle,
                    NewcomersAreCovered, [Next]_vars, NEW m \in Members, Newcomer(m)'
             PROVE  NewcomerIsCovered(m)'
  BY DEF NewcomersAreCovered, NewcomerIsCovered
<1> USE DEF telegram, database, settings, history
<1>a. Newcomer(m) /\ UNCHANGED faults /\ faults \in Nat
  BY NewcomerBefore, JoinAssumption DEF TypeOK
<1>b. NewcomerIsCovered(m) /\ \A b \in Actors : CountsOn(proc[b], m)
  BY <1>a DEF NewcomersAreCovered, NewcomerIsCovered
<1>c. ~Fault
  BY <1>a DEF Fault
<1>d. (\E b \in Actors : About(proc[b], m)) => inChat'[m]
  <2>1. (\E b \in Actors : About(proc[b], m)) => joins[m] # 0
    BY DEF StrangersAreIdle, StrangerIsIdle, Involves
  <2>2. joins[m] \in Nat /\ joins'[m] \in {joins[m], joins[m] + 1}
    BY OnlyPeopleArrive DEF TypeOK, Join
  <2>3. QED
    BY <2>1, <2>2 DEF Newcomer
<1>e. \A h \in Handlers : h \in Actors
  BY DEF Actors
<1>f. Sweeper \in Actors
  BY DEF Actors
<1>g. ASSUME UNCHANGED proc, Untouched(m) PROVE NewcomerIsCovered(m)'
  BY <1>a, <1>b, <1>f, <1>g, CoverageKept
<1>h. ASSUME NEW a \in Actors, NEW s, Goto(a, s), Untouched(m), CountsOn(s, m),
             Challenging(s, m) <=> Challenging(proc[a], m),
             MarkingUser(proc[a], m) => MarkingUser(s, m)
      PROVE  NewcomerIsCovered(m)'
  <2>1. proc'[a] = s /\ \A b \in Actors : b # a => proc'[b] = proc[b]
    BY <1>h DEF Goto, TypeOK
  <2>2. QED
    BY <1>a, <1>b, <1>h, <2>1, CoverageKept
<1>i. \A b \in Actors : Listed(proc[b], m) => muted[m]
  BY <1>b DEF CountsOn
<1>1. CASE \/ \E S \in Batches : Join(S)
           \/ \E x \in Members : Leave(x) \/ SolveElsewhere(x) \/ Age(x)
           \/ \E on \in Captcha : SetCaptcha(on)
           \/ UNCHANGED vars
  <2>1. Untouched(m)
    BY <1>1, <1>f, TouchesNobody DEF People
  <2>2. UNCHANGED proc
    BY <1>1 DEF Join, Leave, SolveElsewhere, Age, SetCaptcha, vars
  <2>3. QED
    BY <1>g, <2>1, <2>2
<1>2. ASSUME NEW h \in Handlers, NEW x \in Members, ReceiveLeave(h, x) PROVE NewcomerIsCovered(m)'
  <2>1. Untouched(m)
    BY <1>2, <1>e, TouchesNobody
  <2>2. QED
    BY <1>2, <1>g, <2>1 DEF ReceiveLeave
<1>3. ASSUME NEW h \in Handlers, NEW x \in Members, NEW p \in posts, NEW emoji \in Emojis,
             Press(h, x, p, emoji)
      PROVE  NewcomerIsCovered(m)'
  <2> DEFINE s == [at |-> "pending", member |-> x, post |-> p, pressed |-> emoji]
  <2>1. Untouched(m)
    BY <1>3, <1>f, TouchesNobody DEF People
  <2>2. Goto(h, s) /\ proc[h] = Resting /\ p.member = x
    BY <1>3 DEF Press, Goto
  <2>3. s.at = "pending" /\ s.member = x
    OBVIOUS
  <2> HIDE DEF s
  <2>4. x = m => muted[m]
    BY <1>a, <1>b, <2>2 DEF NewcomerIsCovered
  <2>5. CountsOn(s, m) /\ ~Challenging(s, m)
    BY <2>3, <2>4 DEF CountsOn, Challenging, Listed, Failing
  <2>6. ~Challenging(proc[h], m) /\ ~MarkingUser(proc[h], m)
    BY <2>2 DEF Challenging, MarkingUser, Resting
  <2>7. QED
    BY <1>e, <1>h, <2>1, <2>2, <2>5, <2>6
<1>4. ASSUME NEW h \in Handlers, NEW S \in Batches, ReceiveJoin(h, S) PROVE NewcomerIsCovered(m)'
  <2> DEFINE s == Challenge(S, IF captchaOn THEN S ELSE {})
  <2>1. Untouched(m)
    BY <1>4, <1>e, TouchesNobody
  <2>2. Goto(h, s) /\ proc[h] = Resting
    BY <1>4, <1>c DEF ReceiveJoin, Attempt
  <2>3. ~About(s, m) /\ ~Listed(s, m)
    BY WhoIsNext
  <2>4. CountsOn(s, m) /\ ~Challenging(s, m)
    BY <2>3, CountsOnNothing
  <2>5. ~Challenging(proc[h], m) /\ ~MarkingUser(proc[h], m)
    BY <2>2 DEF Challenging, MarkingUser, Resting
  <2> HIDE DEF s
  <2>6. QED
    BY <1>e, <1>h, <2>1, <2>2, <2>4, <2>5
<1>5. CASE StartSweep
  <2> DEFINE list == IF captchaOn THEN {x \in Members : Expired(row[x])} ELSE {}
             s == FailNext({<<x, row[x].message>> : x \in list})
  <2>1. Untouched(m)
    BY <1>5, <1>f, TouchesNobody
  <2>2. Goto(Sweeper, s) /\ proc[Sweeper] = Resting
    BY <1>5 DEF StartSweep
  <2>3. m \in list => muted[m]
    BY <1>a, <1>b DEF Expired, NewcomerIsCovered
  <2>4. (\E e \in {<<x, row[x].message>> : x \in list} : e[1] = m) => m \in list
    OBVIOUS
  <2>5. ~About(s, m) /\ (Listed(s, m) => muted[m])
    BY <2>3, <2>4, WhoIsNext
  <2> HIDE DEF s
  <2>6. CountsOn(s, m) /\ ~Challenging(s, m)
    BY <2>5, CountsOnNothing
  <2>7. ~Challenging(proc[Sweeper], m) /\ ~MarkingUser(proc[Sweeper], m)
    BY <2>2 DEF Challenging, MarkingUser, Resting
  <2>8. QED
    BY <1>f, <1>h, <2>1, <2>2, <2>6, <2>7
<1>6. CASE Restart \/ \E h \in Handlers : PostFails(h) \/ PostUnseen(h) \/ SendGreetingFails(h)
  BY <1>6, <1>c DEF Restart, PostFails, PostUnseen, SendGreetingFails
<1>7. ASSUME NEW h \in Handlers, NEW x \in Members, ReadGlobal(h, x) PROVE NewcomerIsCovered(m)'
  <2> DEFINE s == [at |-> IF solvedGlobally[x] THEN "inherit" ELSE "claim", member |-> x,
                   batch |-> proc[h].batch, todo |-> proc[h].todo \ {x}]
  <2>1. Untouched(m)
    BY <1>7, <1>e, TouchesNobody
  <2>2. Goto(h, s) /\ proc[h].at = "member"
    BY <1>7 DEF ReadGlobal
  <2>3. s.member = x /\ s.at \in {"inherit", "claim"} /\ (x = m => s.at = "claim")
    BY <1>a DEF Newcomer
  <2> HIDE DEF s
  <2>4. CountsOn(s, m) /\ ~Challenging(s, m)
    BY <2>3 DEF CountsOn, Challenging, Listed, Failing
  <2>5. ~Challenging(proc[h], m) /\ ~MarkingUser(proc[h], m)
    BY <2>2 DEF Challenging, MarkingUser
  <2>6. QED
    BY <1>e, <1>h, <2>1, <2>2, <2>4, <2>5
<1>8. ASSUME NEW x \in Members, NEW i \in 1 .. posted, TakeExpired(<<x, i>>)
      PROVE  NewcomerIsCovered(m)'
  <2> DEFINE s == Fail(x, i, proc[Sweeper].todo \ {<<x, i>>})
  <2>1. Untouched(m)
    BY <1>8, <1>f, TouchesNobody
  <2>2. Goto(Sweeper, s) /\ proc[Sweeper].at = "expired" /\ <<x, i>> \in proc[Sweeper].todo
    BY <1>8 DEF TakeExpired
  <2>3. (\E e \in proc[Sweeper].todo : e[1] = m) => muted[m]
    BY <1>f, <1>i, <2>2 DEF Listed
  <2>4. s.at = "isMuted" /\ s.member = x
    BY DEF Fail
  <2>5. Listed(s, m) => muted[m]
    BY <2>3, WhoIsNext
  <2> HIDE DEF s
  <2>6. x = m => muted[m]
    BY <2>2, <2>3
  <2>7. CountsOn(s, m) /\ ~Challenging(s, m)
    BY <2>4, <2>5, <2>6 DEF CountsOn, Challenging
  <2>8. ~Challenging(proc[Sweeper], m) /\ ~MarkingUser(proc[Sweeper], m)
    BY <2>2 DEF Challenging, MarkingUser
  <2>9. QED
    BY <1>f, <1>h, <2>1, <2>2, <2>7, <2>8
<1> DEFINE Speaks(a) == \/ \E x \in Members : ClaimGreeting(a, x) \/ ClearGreeting(a, x)
                        \/ SendGreeting(a) \/ ClaimLost(a)
                        \/ GetPending(a) \/ EnsureMember(a) \/ MarkUser(a) \/ IsMuted(a) \/ Unban(a)
           Touches(a) == \/ \E emoji \in Emojis : Claim(a, emoji)
                         \/ Inherit(a) \/ Mute(a) \/ Post(a) \/ ReleaseClaim(a)
                         \/ SetCaptchaDetails(a) \/ MarkSolved(a) \/ Unmute(a) \/ Tidy(a)
                         \/ Ban(a) \/ DeletePost(a) \/ ClearCaptcha(a)
\* A goroutine that is about somebody else.
<1>9. ASSUME NEW a \in Actors, Speaks(a) \/ Touches(a), ~About(proc[a], m)
      PROVE  NewcomerIsCovered(m)'
  <2>1. Untouched(m)
    BY <1>9, TouchesNobody, TouchesItsMember
  <2>2. ~About(proc'[a], m) /\ (Listed(proc'[a], m) => Listed(proc[a], m))
    BY <1>9, GoingOn DEF HandlePress, FailCaptcha
  <2>3. CountsOn(proc'[a], m) /\ ~Challenging(proc'[a], m)
    BY <1>i, <2>2, CountsOnNothing
  <2>4. ~Challenging(proc[a], m) /\ ~MarkingUser(proc[a], m)
    BY <1>9, <1>i, CountsOnNothing
  <2>5. \E s : Goto(a, s)
    <3>1. CASE Speaks(a)
      BY <3>1 DEF ClaimGreeting, ClearGreeting, SendGreeting, ClaimLost, GetPending, EnsureMember,
                  MarkUser, IsMuted, Unban, Attempt
    <3>2. CASE Touches(a)
      BY <3>2 DEF Claim, Inherit, Mute, Post, ReleaseClaim, SetCaptchaDetails, MarkSolved, Unmute,
                  Tidy, Ban, DeletePost, ClearCaptcha, Attempt
    <3>3. QED
      BY <1>9, <3>1, <3>2
  <2>6. \A b \in Actors : b # a => proc'[b] = proc[b]
    BY <2>5 DEF Goto, TypeOK
  <2>7. QED
    BY <1>a, <1>b, <2>1, <2>3, <2>4, <2>6, CoverageKept
\* A goroutine that is about m.
<1>10. ASSUME NEW h \in Handlers, About(proc[h], m),
              \/ \E emoji \in Emojis : Claim(h, emoji)
              \/ Mute(h) \/ Post(h) \/ SetCaptchaDetails(h) \/ MarkSolved(h)
       PROVE  NewcomerIsCovered(m)'
  <2>1. CASE \E emoji \in Emojis : Claim(h, emoji)
    <3>1. proc[h].member = m
      BY <1>10, <2>1 DEF Claim, About
    <3>2. QED
      BY <1>a, <1>b, <2>1, <3>1, ClaimCovers
  <2>2. CASE Mute(h)
    <3>1. proc[h].member = m
      BY <1>10, <2>2 DEF Mute, About
    <3>2. QED
      BY <1>a, <1>b, <2>2, <3>1, MuteCovers
  <2>3. CASE Post(h)
    <3>1. proc[h].member = m
      BY <1>10, <2>3 DEF Post, About
    <3>2. QED
      BY <1>a, <1>b, <2>3, <3>1, PostCovers
  <2>4. CASE SetCaptchaDetails(h)
    <3>1. proc[h].post.member = m
      BY <1>10, <2>4 DEF SetCaptchaDetails, About, Pressing, Failing
    <3>2. QED
      BY <1>a, <1>b, <2>4, <3>1, DetailsCover
  <2>5. CASE MarkSolved(h)
    <3>1. proc[h].member = m
      BY <1>10, <2>5 DEF MarkSolved, About
    <3>2. QED
      BY <1>a, <1>b, <2>5, <3>1, SolvedCovers
  <2>6. QED
    BY <1>10, <2>1, <2>2, <2>3, <2>4, <2>5
\* These never come to a newcomer.
<1>11. ASSUME NEW a \in Actors, About(proc[a], m),
              \/ Inherit(a) \/ ReleaseClaim(a) \/ Unmute(a) \/ Tidy(a) \/ Unban(a)
              \/ DeletePost(a) \/ ClearCaptcha(a)
       PROVE  FALSE
  BY <1>11, <1>b DEF CountsOn, About, Inherit, ReleaseClaim, Unmute, Tidy, Unban, DeletePost, ClearCaptcha
<1>12. ASSUME NEW h \in Handlers, About(proc[h], m),
              \/ \E x \in Members : ClaimGreeting(h, x) \/ ClearGreeting(h, x)
              \/ SendGreeting(h)
       PROVE  FALSE
  BY <1>12 DEF About, ClaimGreeting, ClearGreeting, SendGreeting, Pressing, Failing
<1>13. ASSUME NEW h \in Handlers, About(proc[h], m), MarkUser(h) PROVE FALSE
  <2>1. proc[h].member = m
    BY <1>13 DEF MarkUser, About
  <2>2. solvedGlobally'[m]
    BY <1>13, <1>c, <2>1 DEF MarkUser, Attempt, TypeOK
  <2>3. QED
    BY <2>2 DEF Newcomer
<1>14. ASSUME NEW a \in Actors, About(proc[a], m), Ban(a) PROVE NewcomerIsCovered(m)'
  <2>1. proc[a].member = m
    BY <1>14 DEF Ban, About
  <2>2. ~inChat'[m]
    BY <1>14, <1>c, <2>1 DEF Ban, Attempt, TypeOK
  <2>3. QED
    BY <1>14, <1>d, <2>2
<1>15. ASSUME NEW h \in Handlers, About(proc[h], m), ClaimLost(h) PROVE NewcomerIsCovered(m)'
  <2>1. Untouched(m)
    BY <1>15, <1>e, TouchesNobody
  <2>2. Goto(h, Challenge(proc[h].batch, proc[h].todo)) /\ proc[h].at = "claim"
    BY <1>15 DEF ClaimLost, NextMember
  <2> DEFINE s == Challenge(proc[h].batch, proc[h].todo)
  <2>3. ~About(s, m) /\ ~Listed(s, m)
    BY WhoIsNext
  <2>4. CountsOn(s, m) /\ ~Challenging(s, m)
    BY <2>3, CountsOnNothing
  <2>5. ~Challenging(proc[h], m) /\ ~MarkingUser(proc[h], m)
    BY <2>2 DEF Challenging, MarkingUser
  <2> HIDE DEF s
  <2>6. QED
    BY <1>e, <1>h, <2>1, <2>2, <2>4, <2>5 DEF s
<1>16. ASSUME NEW h \in Handlers, About(proc[h], m), GetPending(h) PROVE NewcomerIsCovered(m)'
  <2>1. Untouched(m)
    BY <1>16, <1>e, TouchesNobody
  <2>2. proc[h] \in PressStates /\ proc[h].at = "pending" /\ proc[h].member = m
    BY <1>16, <1>e, AtTypes DEF GetPending, About
  <2>3. muted[m]
    BY <1>b, <1>e, <2>2 DEF CountsOn
  <2>4. ~Challenging(proc[h], m) /\ ~MarkingUser(proc[h], m)
    BY <2>2 DEF Challenging, MarkingUser
  <2>5. \/ Goto(h, Resting) \/ Goto(h, Fail(m, row[m].message, {}))
        \/ row[m].emoji = proc[h].pressed /\ Goto(h, [proc[h] EXCEPT !.at = "ensure"])
    BY <1>16, <2>2 DEF GetPending, Attempt
  <2>6. CASE Goto(h, Resting)
    <3>1. CountsOn(Resting, m) /\ ~Challenging(Resting, m)
      BY WhoIsNext, CountsOnNothing DEF Involves
    <3>2. QED
      BY <1>e, <1>h, <2>1, <2>4, <2>6, <3>1
  <2>7. CASE Goto(h, Fail(m, row[m].message, {}))
    <3>1. CountsOn(Fail(m, row[m].message, {}), m) /\ ~Challenging(Fail(m, row[m].message, {}), m)
      BY <2>3 DEF Fail, CountsOn, Challenging, Listed, Failing
    <3>2. QED
      BY <1>e, <1>h, <2>1, <2>4, <2>7, <3>1
  <2>8. CASE row[m].emoji = proc[h].pressed /\ Goto(h, [proc[h] EXCEPT !.at = "ensure"])
    <3> DEFINE s == [proc[h] EXCEPT !.at = "ensure"]
    <3>1. s.at = "ensure" /\ s.member = m /\ proc[h].pressed \in Emojis
      BY <2>2 DEF PressStates
    <3>2. row[m].emoji # NoEmoji
      BY <2>8, <3>1, JoinAssumption
    <3> HIDE DEF s
    <3>3. CountsOn(s, m) /\ ~Challenging(s, m)
      BY <2>3, <3>1, <3>2 DEF CountsOn, Challenging, Listed, Failing
    <3>4. QED
      BY <1>e, <1>h, <2>1, <2>4, <2>8, <3>3 DEF s
  <2>9. QED
    BY <2>5, <2>6, <2>7, <2>8
<1>17. ASSUME NEW h \in Handlers, About(proc[h], m), EnsureMember(h) PROVE NewcomerIsCovered(m)'
  <2>1. Untouched(m)
    BY <1>17, <1>e, TouchesNobody
  <2>2. proc[h] \in PressStates /\ proc[h].at = "ensure" /\ proc[h].member = m
    BY <1>17, <1>e, AtTypes DEF EnsureMember, About
  <2> DEFINE s == [proc[h] EXCEPT !.at = "mark"]
  <2>3. Goto(h, s)
    BY <1>17, <1>c DEF EnsureMember, Attempt
  <2>4. s.at = "mark" /\ s.member = m
    BY <2>2 DEF PressStates
  <2>5. muted[m] /\ (row[m].emoji # NoEmoji \/ row[m].solved)
    BY <1>b, <1>e, <2>2 DEF CountsOn
  <2>6. ~Challenging(proc[h], m) /\ ~MarkingUser(proc[h], m)
    BY <2>2 DEF Challenging, MarkingUser
  <2> HIDE DEF s
  <2>7. CountsOn(s, m) /\ ~Challenging(s, m)
    BY <2>4, <2>5 DEF CountsOn, Challenging, Listed, Failing
  <2>8. QED
    BY <1>e, <1>h, <2>1, <2>3, <2>6, <2>7
<1>18. ASSUME NEW a \in Actors, About(proc[a], m), IsMuted(a) PROVE NewcomerIsCovered(m)'
  <2>1. Untouched(m)
    BY <1>18, TouchesNobody
  <2>2. /\ proc[a] \in FailStates(IF a = Sweeper THEN SUBSET Expiry ELSE {{}})
        /\ proc[a].at = "isMuted" /\ proc[a].member = m
    BY <1>18, AtTypes DEF IsMuted, About
  <2> DEFINE s == [proc[a] EXCEPT !.at = "ban"]
  <2>3. muted[m]
    BY <1>b, <2>2 DEF CountsOn
  <2>4. Goto(a, s)
    BY <1>18, <1>c, <2>2, <2>3 DEF IsMuted, Attempt
  <2>5. s.at = "ban" /\ s.member = m
    BY <2>2 DEF FailStates
  <2>6. ~Challenging(proc[a], m) /\ ~MarkingUser(proc[a], m)
    BY <2>2 DEF Challenging, MarkingUser
  <2> HIDE DEF s
  <2>7. CountsOn(s, m) /\ ~Challenging(s, m)
    BY <2>3, <2>5 DEF CountsOn, Challenging
  <2>8. QED
    BY <1>h, <2>1, <2>4, <2>6, <2>7
<1>19. ASSUME NEW h \in Handlers, HandleJoin(h) PROVE NewcomerIsCovered(m)'
  BY <1>19, <1>4, <1>6, <1>7, <1>9, <1>10, <1>11, <1>12, <1>15, <1>e DEF HandleJoin
<1>20. ASSUME NEW h \in Handlers, HandlePress(h) PROVE NewcomerIsCovered(m)'
  BY <1>20, <1>9, <1>10, <1>11, <1>13, <1>16, <1>17, <1>e DEF HandlePress
<1>21. ASSUME NEW a \in Actors, FailCaptcha(a) PROVE NewcomerIsCovered(m)'
  BY <1>21, <1>9, <1>11, <1>14, <1>18 DEF FailCaptcha
<1>22. QED
  BY <1>1, <1>2, <1>3, <1>5, <1>6, <1>8, <1>19, <1>20, <1>21, <1>e, <1>f DEF Next, People, Work, Sweep

-----------------------------------------------------------------------------
\* NewcomerCanAnswer for every chat: a newcomer whom the captcha silenced has an
\* answerable challenge once the bot is done (handlers/captcha).
THEOREM NewcomersCanAnswer == Spec => []NewcomerCanAnswer
<1> DEFINE IInv == PostsHaveOneOwner /\ StrangersAreIdle /\ NewcomersAreCovered
<1>1. Init => IInv
  <2> SUFFICES ASSUME Init PROVE IInv
    OBVIOUS
  <2>1. posts = {} /\ \A a \in Actors : proc[a] = Resting
    BY DEF Init
  <2>2. \A m \in Members : /\ ~inChat[m] /\ ~muted[m]
                           /\ row[m].message = 0 /\ ~row[m].solved
    BY DEF Init, NewRow
  <2>3. PostsHaveOneOwner
    BY <2>1 DEF PostsHaveOneOwner, KnowsOwner, Resting, Pressing
  <2>4. \A a \in Actors, m \in Members : ~Involves(proc[a], m)
    BY <2>1, WhoIsNext
  <2>5. StrangersAreIdle
    BY <2>1, <2>2, <2>4 DEF StrangersAreIdle, StrangerIsIdle, Init
  <2>6. \A a \in Actors, m \in Members : CountsOn(proc[a], m) /\ ~Challenging(proc[a], m)
    BY <2>4, CountsOnNothing DEF Involves
  <2>7. NewcomersAreCovered
    BY <2>1, <2>2, <2>6 DEF NewcomersAreCovered, NewcomerIsCovered
  <2>8. QED
    BY <2>3, <2>5, <2>7
<1>2. TypeOK /\ RowsAreConsistent /\ IInv /\ [Next]_vars => IInv'
  BY StepPostsHaveOneOwner, StepStrangersAreIdle, StepNewcomersAreCovered
<1>3. IInv => NewcomerCanAnswer
  <2> SUFFICES ASSUME NewcomersAreCovered, Quiet, NEW m \in Members,
                      inChat[m], muted[m], FirstVisit(m)
               PROVE  Answerable(m)
    BY DEF NewcomerCanAnswer
  <2>1. Newcomer(m)
    BY DEF FirstVisit, Newcomer
  <2>2. \A a \in Actors : ~Challenging(proc[a], m) /\ ~MarkingUser(proc[a], m)
    BY DEF Quiet, Resting, Challenging, MarkingUser
  <2>3. QED
    BY <2>1, <2>2 DEF NewcomersAreCovered, NewcomerIsCovered
<1> HIDE DEF IInv
<1>4. QED
  BY <1>1, <1>2, <1>3, RowsStayConsistent, PTL DEF Spec, RowInv
=============================================================================

--------------------------- MODULE WinnerDrawProofs ---------------------------
(***************************************************************************)
(* Theorems about the daily draw for every set of chats, members and       *)
(* processes, any number of days, points and failures.                     *)
(***************************************************************************)
EXTENDS WinnerDraw, FiniteSetTheorems, TLAPS

\* The row is written, the announcement not handed over yet.
HasNews(d) == drawer[d].at \in {"reset", "announce"}

\* Whoever is to announce a draw announces the row of that day, alone, and for
\* the first time.
NewsIsTheRow ==
  /\ \A d \in Drawers : HasNews(d) => winners[drawer[d].chat][drawer[d].day] = drawer[d].chosen
  /\ \A d, e \in Drawers :
       HasNews(d) /\ HasNews(e) /\ drawer[d].chat = drawer[e].chat
         /\ drawer[d].day = drawer[e].day => d = e
  /\ \A d \in Drawers : HasNews(d) =>
       \A i \in DOMAIN payloads[drawer[d].chat] :
         payloads[drawer[d].chat][i].day # drawer[d].day

\* The last unit of a slot is the one pending, or it is done with.
LastUnitIsPending ==
  \A s \in Slots :
    /\ pending[s] \in {0, submitted[s]}
    /\ \/ submitted[s] = 0 \/ pending[s] = submitted[s]
       \/ <<s, submitted[s]>> \in carriedOut \union refused \union expired

\* Without failures a recorded draw is in hand or handed over.
NothingDropped ==
  faults = 0 => \A c \in Chats, d \in Days :
    winners[c][d] # Nobody =>
      \/ InHand(c, d)
      \/ \E a \in sent : a.chat = c /\ a.day = d
      \/ \E n \in DOMAIN payloads[c] : payloads[c][n].day = d

\* Points of a member that are in no score and in no standings.
Gone(c, m) == scored[c][m] - score[c][m] - counted[c][m]

\* A draw under way has the points it read, all but the late ones, and the reset
\* settles the account.
Balanced(c) ==
  /\ \A d, e \in Drawers : Draws(d, c) /\ Draws(e, c) => d = e
  /\ \A d \in Drawers, m \in Members : drawer[d].at = "create" /\ drawer[d].chat = c =>
       /\ Gone(c, m) \in 0 .. late[c][m]
       /\ Gone(c, m) + score[c][m] - drawer[d].standings[m] \in 0 .. late[c][m]
  /\ \A d \in Drawers, m \in Members : drawer[d].at = "reset" /\ drawer[d].chat = c =>
       Gone(c, m) + score[c][m] \in 0 .. late[c][m]
  /\ \A m \in Members : UnderWay(c) \/ Gone(c, m) \in 0 .. late[c][m]

\* So it is without failures, where no two processes draw at once.
Account == faults = 0 => \A c \in Chats \ crossed : Balanced(c)

-----------------------------------------------------------------------------
(* Facts about the helpers *)

\* What a process carries is told by where it is.
LEMMA AtTypes ==
  ASSUME TypeOK, NEW d \in Drawers
  PROVE  /\ drawer[d].at \in {"rest", "chat", "standings", "create", "reset", "announce"}
         /\ drawer[d].at = "rest" => drawer[d] = Resting
         /\ drawer[d].at # "rest" => drawer[d].todo \in SUBSET Chats
         /\ drawer[d].at \in {"standings", "create", "reset", "announce"} =>
              drawer[d].chat \in Chats
         /\ drawer[d].at = "create" =>
              drawer[d].chosen \in Members /\ drawer[d].standings \in Standings
         /\ HasNews(d) => /\ drawer[d].chosen \in Members
                          /\ drawer[d].standings \in Standings
                          /\ drawer[d].day \in Days
<1>1. \/ drawer[d] = Resting
      \/ drawer[d] \in [at : {"chat"}, todo : SUBSET Chats]
      \/ drawer[d] \in [at : {"standings"}, chat : Chats, todo : SUBSET Chats]
      \/ drawer[d] \in [at : {"create"}, chat : Chats, todo : SUBSET Chats, chosen : Members,
                        standings : Standings]
      \/ drawer[d] \in [at : {"reset", "announce"}, chat : Chats, todo : SUBSET Chats,
                        chosen : Members, standings : Standings, day : Days]
  BY DEF TypeOK, DrawerStates
<1> HIDE DEF Standings
<1>2. QED
  BY <1>1 DEF Resting, HasNews

\* The types of the variables, one by one.
LEMMA Shapes ==
  ASSUME TypeOK
  PROVE  /\ score \in [Chats -> [Members -> Nat]] /\ scored \in [Chats -> [Members -> Nat]]
         /\ counted \in [Chats -> [Members -> Nat]] /\ late \in [Chats -> [Members -> Nat]]
         /\ pending \in [Slots -> Nat] /\ submitted \in [Slots -> Nat]
         /\ drawer \in [Drawers -> DrawerStates]
BY DEF TypeOK

LEMMA Bounds == /\ MaxDay \in Nat /\ MaxFaults \in Nat /\ MaxPoints \in Nat
                /\ DrawPool \in Nat /\ StatsTop \in Nat
BY DrawAssumption DEF DrawAssumption

\* A process moves on to a state it may have; the others stay.
LEMMA GotoType ==
  ASSUME TypeOK, NEW d \in Drawers, NEW s \in DrawerStates, Goto(d, s)
  PROVE  drawer' \in [Drawers -> DrawerStates]
BY DEF TypeOK, Goto

LEMMA Moved ==
  ASSUME TypeOK, NEW d \in Drawers, NEW s, Goto(d, s)
  PROVE  drawer'[d] = s /\ \A e \in Drawers \ {d} : drawer'[e] = drawer[e]
BY DEF TypeOK, Goto

\* The loop goes on with a chat, or the process rests.
LEMMA LoopTypes ==
  ASSUME NEW todo \in SUBSET Chats
  PROVE  Loop(todo) \in DrawerStates /\ Loop(todo).at \in {"rest", "chat"}
BY DEF Loop, DrawerStates, Resting

\* A failure is counted.
LEMMA FaultType ==
  ASSUME TypeOK, UNCHANGED faults \/ Fault
  PROVE  faults' \in 0 .. MaxFaults /\ (faults' = 0 => faults = 0)
BY Bounds DEF TypeOK, Fault

-----------------------------------------------------------------------------
(* Types *)

LEMMA InitTypeOK == Init => TypeOK
<1> SUFFICES ASSUME Init PROVE TypeOK
  OBVIOUS
<1>1. 0 \in Days /\ 0 \in 0 .. MaxFaults
  BY Bounds DEF Days
<1>2. Zero \in [Chats -> [Members -> Nat]]
  BY DEF Zero
<1>3. drawer \in [Drawers -> DrawerStates]
  BY DEF Init, DrawerStates
<1>4. payloads \in [Chats -> Seq(Announcements)] /\ \A c \in Chats : Len(payloads[c]) = 0
  BY DEF Init
<1>5. /\ pending \in [Slots -> Nat] /\ submitted \in [Slots -> Nat]
      /\ \A c \in Chats : submitted[Slot(c)] = 0
  BY DEF Init, Slots, Slot
<1>6. winners \in [Chats -> [Days -> Members \union {Nobody}]]
  BY DEF Init
<1>7. configured \in Configured /\ on \in [Chats -> BOOLEAN] /\ day \in Days
  BY <1>1 DEF Init
<1>8. QED
  BY <1>1, <1>2, <1>3, <1>4, <1>5, <1>6, <1>7 DEF Init, TypeOK

\* The standings are points of members.
LEMMA StandingsType ==
  ASSUME TypeOK, NEW c \in Chats, NEW S
  PROVE  [o \in Members |-> IF o \in S THEN score[c][o] ELSE 0] \in Standings
BY Shapes DEF Standings

\* What changes of the queue keeps its types.
LEMMA QueueTypes ==
  ASSUME TypeOK, NEW s \in Slots, NEW n \in Nat \ {0},
         Queue!Settle(s) \/ Queue!Expire({s}) \/ Queue!CarryOut(s, n) \/ Queue!Refuse(s, n)
  PROVE  /\ submitted' = submitted /\ pending' \in [Slots -> Nat]
         /\ carriedOut' \subseteq Units /\ refused' \subseteq Units /\ expired' \subseteq Units
<1>1. <<s, n>> \in Units
  BY DEF Units
<1>2. pending[s] # 0 => <<s, pending[s]>> \in Units
  BY Shapes DEF Units
<1>3. CASE Queue!Settle(s)
  BY <1>3, Shapes DEF TypeOK, Queue!Settle
<1>4. CASE Queue!Expire({s})
  <2>1. {<<t, pending[t]>> : t \in {s}} \subseteq Units
    BY <1>2, <1>4 DEF Queue!Expire
  <2>2. pending' \in [Slots -> Nat]
    BY <1>4, Shapes DEF Queue!Expire
  <2>3. QED
    BY <1>4, <2>1, <2>2 DEF Queue!Expire, TypeOK
<1>5. CASE Queue!CarryOut(s, n)
  BY <1>1, <1>5, Shapes DEF TypeOK, Queue!CarryOut
<1>6. CASE Queue!Refuse(s, n)
  BY <1>1, <1>6, Shapes DEF TypeOK, Queue!Refuse
<1>7. QED
  BY <1>3, <1>4, <1>5, <1>6

\* A submitted announcement gets the next number.
LEMMA SubmitTypes ==
  ASSUME TypeOK, NEW c \in Chats, NEW a \in Announcements, Queue!Submit(Slot(c)),
         payloads' = [payloads EXCEPT ![c] = Append(@, a)]
  PROVE  /\ pending' \in [Slots -> Nat] /\ submitted' \in [Slots -> Nat]
         /\ payloads' \in [Chats -> Seq(Announcements)]
         /\ \A b \in Chats : Len(payloads'[b]) = submitted'[Slot(b)]
<1>1. Slot(c) \in Slots /\ \A b \in Chats : Slot(b) \in Slots /\ (Slot(b) = Slot(c) => b = c)
  BY DEF Slot, Slots
<1>2. pending' \in [Slots -> Nat] /\ submitted' \in [Slots -> Nat]
  BY <1>1, Shapes DEF Queue!Submit
<1>3. Append(payloads[c], a) \in Seq(Announcements)
      /\ Len(Append(payloads[c], a)) = Len(payloads[c]) + 1
  BY DEF TypeOK
<1>4. payloads' \in [Chats -> Seq(Announcements)]
  BY <1>3 DEF TypeOK
<1>5. ASSUME NEW b \in Chats
      PROVE  Len(payloads'[b]) = submitted'[Slot(b)]
  <2>1. CASE b = c
    BY <1>1, <1>3, <2>1, Shapes DEF TypeOK, Queue!Submit
  <2>2. CASE b # c
    BY <1>1, <2>2, Shapes DEF TypeOK, Queue!Submit
  <2>3. QED
    BY <2>1, <2>2
<1>6. QED
  BY <1>2, <1>4, <1>5

LEMMA DrawTypeOK ==
  ASSUME TypeOK, NEW d \in Drawers, Draw(d)
  PROVE  TypeOK'
<1> USE DEF announcements, queueVars, points
<1>1. CASE Start(d)
  <2>1. Loop({c \in Chats : on[c]}) \in DrawerStates
    BY LoopTypes
  <2>2. drawer' \in [Drawers -> DrawerStates]
    BY <1>1, <2>1, GotoType DEF Start, Attempt, TypeOK
  <2>3. faults' \in 0 .. MaxFaults
    BY <1>1, FaultType DEF Start, Attempt
  <2>4. QED
    BY <1>1, <2>2, <2>3 DEF Start, TypeOK
<1>2. CASE \E c \in Chats : HasToday(d, c)
  <2>1. PICK c \in Chats : HasToday(d, c)
    BY <1>2
  <2>2. drawer[d].todo \ {c} \in SUBSET Chats
    BY <2>1, AtTypes DEF HasToday
  <2>3. Loop(drawer[d].todo \ {c}) \in DrawerStates
    BY <2>2, LoopTypes
  <2>4. [at |-> "standings", chat |-> c, todo |-> drawer[d].todo \ {c}] \in DrawerStates
    BY <2>2 DEF DrawerStates
  <2>5. drawer' \in [Drawers -> DrawerStates]
    BY <2>1, <2>3, <2>4, GotoType DEF HasToday, Attempt
  <2>6. faults' \in 0 .. MaxFaults /\ crossed' \subseteq Chats
    BY <2>1, FaultType DEF HasToday, Attempt, TypeOK
  <2>7. QED
    BY <2>1, <2>5, <2>6 DEF HasToday, TypeOK
<1>3. CASE ReadStandings(d)
  <2>1. drawer[d].chat \in Chats /\ drawer[d].todo \in SUBSET Chats
    BY <1>3, AtTypes DEF ReadStandings
  <2>2. PICK S \in Top(drawer[d].chat, StatsTop), P \in Top(drawer[d].chat, DrawPool) :
             \E m \in S \cap P :
               Goto(d, [at |-> "create", chat |-> drawer[d].chat, todo |-> drawer[d].todo,
                        chosen |-> m,
                        standings |-> [o \in Members |->
                          IF o \in S THEN score[drawer[d].chat][o] ELSE 0]])
    BY <1>3 DEF ReadStandings
  <2>3. PICK m \in S \cap P :
               Goto(d, [at |-> "create", chat |-> drawer[d].chat, todo |-> drawer[d].todo,
                        chosen |-> m,
                        standings |-> [o \in Members |->
                          IF o \in S THEN score[drawer[d].chat][o] ELSE 0]])
    BY <2>2
  <2>4. m \in Members
    BY DEF Top, Scorers
  <2>5. [at |-> "create", chat |-> drawer[d].chat, todo |-> drawer[d].todo, chosen |-> m,
         standings |-> [o \in Members |-> IF o \in S THEN score[drawer[d].chat][o] ELSE 0]]
          \in DrawerStates
    BY <2>1, <2>4, StandingsType DEF DrawerStates
  <2>6. drawer' \in [Drawers -> DrawerStates]
    BY <2>3, <2>5, GotoType
  <2>7. QED
    BY <1>3, <2>6 DEF ReadStandings, TypeOK
<1>4. CASE NoStandings(d)
  <2>1. Loop(drawer[d].todo) \in DrawerStates
    BY <1>4, AtTypes, LoopTypes DEF NoStandings
  <2>2. drawer' \in [Drawers -> DrawerStates]
    BY <1>4, <2>1, GotoType DEF NoStandings
  <2>3. faults' \in 0 .. MaxFaults
    BY <1>4, FaultType DEF NoStandings, Attempt
  <2>4. QED
    BY <1>4, <2>2, <2>3 DEF NoStandings, TypeOK
<1>5. CASE Create(d)
  <2>1. /\ drawer[d].chat \in Chats /\ drawer[d].todo \in SUBSET Chats
        /\ drawer[d].chosen \in Members /\ drawer[d].standings \in Standings
    BY <1>5, AtTypes DEF Create
  <2>2. Loop(drawer[d].todo) \in DrawerStates /\ Recorded(d) \in DrawerStates
    BY <2>1, LoopTypes DEF Recorded, DrawerStates, TypeOK
  <2>3. drawer' \in [Drawers -> DrawerStates]
    BY <1>5, <2>2, GotoType DEF Create, Attempt
  <2>4. winners' \in [Chats -> [Days -> Members \union {Nobody}]]
    BY <1>5, <2>1 DEF Create, Insert, TypeOK
  <2>5. [m \in Members |-> counted[drawer[d].chat][m] + drawer[d].standings[m]]
          \in [Members -> Nat]
    BY <2>1, Shapes DEF Standings
  <2>6. counted' \in [Chats -> [Members -> Nat]]
    BY <1>5, <2>5, Shapes DEF Create, Insert
  <2>7. faults' \in 0 .. MaxFaults
    BY <1>5, FaultType DEF Create, Attempt
  <2>8. QED
    BY <1>5, <2>3, <2>4, <2>6, <2>7 DEF Create, TypeOK
<1>6. CASE CreateNothing(d)
  <2>1. Loop(drawer[d].todo) \in DrawerStates
    BY <1>6, AtTypes, LoopTypes DEF CreateNothing
  <2>2. drawer' \in [Drawers -> DrawerStates]
    BY <1>6, <2>1, GotoType DEF CreateNothing, Conflict
  <2>3. faults' \in 0 .. MaxFaults
    BY <1>6, FaultType DEF CreateNothing
  <2>4. QED
    BY <1>6, <2>2, <2>3 DEF CreateNothing, TypeOK
<1>7. CASE Reset(d)
  <2>1. [drawer[d] EXCEPT !.at = "announce"] \in DrawerStates
    <3>1. drawer[d] \in [at : {"reset", "announce"}, chat : Chats, todo : SUBSET Chats,
                         chosen : Members, standings : Standings, day : Days]
      BY <1>7 DEF Reset, TypeOK, DrawerStates, Resting
    <3>2. QED
      BY <3>1 DEF DrawerStates
  <2>2. drawer' \in [Drawers -> DrawerStates]
    BY <1>7, <2>1, GotoType DEF Reset
  <2>3. faults' \in 0 .. MaxFaults /\ score' \in [Chats -> [Members -> Nat]]
    <3>1. [m \in Members |-> 0] \in [Members -> Nat]
      OBVIOUS
    <3>2. score' \in [Chats -> [Members -> Nat]]
      BY <1>7, <3>1, Shapes DEF Reset, Attempt, ResetScores
    <3>3. QED
      BY <1>7, <3>2, FaultType DEF Reset, Attempt
  <2>4. QED
    BY <1>7, <2>2, <2>3 DEF Reset, TypeOK
<1>8. CASE AnnounceQueued(d)
  <2>1. Loop(drawer[d].todo) \in DrawerStates /\ drawer[d].chat \in Chats
    BY <1>8, AtTypes, LoopTypes DEF AnnounceQueued
  <2>2. drawer' \in [Drawers -> DrawerStates]
    BY <1>8, <2>1, GotoType DEF AnnounceQueued
  <2>3. Announcement(d) \in Announcements
    BY <1>8, AtTypes DEF AnnounceQueued, Announcement, Announcements, HasNews
  <2>4. faults' \in 0 .. MaxFaults
    BY <1>8, FaultType DEF AnnounceQueued, Attempt
  <2>5. CASE UNCHANGED <<payloads, queueVars>>
    BY <1>8, <2>2, <2>4, <2>5 DEF AnnounceQueued, TypeOK
  <2>6. CASE /\ Queue!Submit(Slot(drawer[d].chat))
             /\ payloads' = [payloads EXCEPT ![drawer[d].chat] = Append(@, Announcement(d))]
    <3>1. /\ pending' \in [Slots -> Nat] /\ submitted' \in [Slots -> Nat]
          /\ payloads' \in [Chats -> Seq(Announcements)]
          /\ \A b \in Chats : Len(payloads'[b]) = submitted'[Slot(b)]
      BY <2>1, <2>3, <2>6, SubmitTypes
    <3>2. UNCHANGED <<carriedOut, refused, expired>>
      BY <2>6 DEF Queue!Submit
    <3>3. QED
      BY <1>8, <2>2, <2>4, <3>1, <3>2 DEF AnnounceQueued, TypeOK
  <2>7. QED
    BY <1>8, <2>5, <2>6 DEF AnnounceQueued, Attempt
<1>9. CASE AnnounceNow(d)
  <2>1. Loop(drawer[d].todo) \in DrawerStates
    BY <1>9, AtTypes, LoopTypes DEF AnnounceNow
  <2>2. drawer' \in [Drawers -> DrawerStates]
    BY <1>9, <2>1, GotoType DEF AnnounceNow
  <2>3. Announcement(d) \in Announcements
    BY <1>9, AtTypes DEF AnnounceNow, Announcement, Announcements, HasNews
  <2>4. faults' \in 0 .. MaxFaults /\ sent' \subseteq Announcements
    BY <1>9, <2>3, FaultType DEF AnnounceNow, Attempt, SendNow, TypeOK
  <2>5. QED
    BY <1>9, <2>2, <2>4 DEF AnnounceNow, TypeOK
<1>10. QED
  BY <1>1, <1>2, <1>3, <1>4, <1>5, <1>6, <1>7, <1>8, <1>9 DEF Draw

LEMMA NextTypeOK == TypeOK /\ [Next]_vars => TypeOK'
<1> SUFFICES ASSUME TypeOK, [Next]_vars PROVE TypeOK'
  OBVIOUS
<1> USE DEF announcements, queueVars, points
<1>1. CASE \E c \in Chats : Switch(c)
  BY <1>1 DEF Switch, TypeOK
<1>2. CASE \E c \in Chats : \E m \in Members : Score(c, m)
  <2>1. PICK c \in Chats, m \in Members : Score(c, m)
    BY <1>2
  <2>2. score' \in [Chats -> [Members -> Nat]] /\ scored' \in [Chats -> [Members -> Nat]]
    BY <2>1, Shapes DEF Score
  <2>3. late' \in [Chats -> [Members -> Nat]]
    BY <2>1, Shapes DEF Score
  <2>4. QED
    BY <2>1, <2>2, <2>3 DEF Score, TypeOK
<1>3. CASE Midnight
  <2>1. day' \in Days
    BY <1>3, Bounds DEF Midnight, Days, TypeOK
  <2>2. QED
    BY <1>3, <2>1 DEF Midnight, TypeOK
<1>4. CASE \E d \in Drawers : Draw(d)
  BY <1>4, DrawTypeOK
<1>5. CASE \E d \in Drawers : Restart(d)
  <2>1. PICK d \in Drawers : Restart(d)
    BY <1>5
  <2>2. drawer' \in [Drawers -> DrawerStates]
    BY <2>1, GotoType DEF Restart, DrawerStates
  <2>3. faults' \in 0 .. MaxFaults
    BY <2>1, FaultType DEF Restart
  <2>4. QED
    BY <2>1, <2>2, <2>3 DEF Restart, TypeOK
<1>6. CASE QueueWorks
  <2>1. PICK s \in Slots : \/ Queue!Settle(s) \/ Queue!Expire({s})
                           \/ \E n \in 1 .. submitted[s] : Queue!CarryOut(s, n) \/ Queue!Refuse(s, n)
    BY <1>6 DEF QueueWorks
  <2>2. 1 .. submitted[s] \subseteq Nat \ {0} /\ 1 \in Nat \ {0}
    BY Shapes
  <2>3. PICK n \in Nat \ {0} : \/ Queue!Settle(s) \/ Queue!Expire({s})
                               \/ Queue!CarryOut(s, n) \/ Queue!Refuse(s, n)
    BY <2>1, <2>2
  <2>4. /\ submitted' = submitted /\ pending' \in [Slots -> Nat]
        /\ carriedOut' \subseteq Units /\ refused' \subseteq Units /\ expired' \subseteq Units
    BY <2>3, QueueTypes
  <2>5. QED
    BY <1>6, <2>4 DEF QueueWorks, TypeOK
<1>7. CASE UNCHANGED vars
  BY <1>7 DEF vars, TypeOK
<1>8. QED
  BY <1>1, <1>2, <1>3, <1>4, <1>5, <1>6, <1>7 DEF Next

\* The tables, the processes and what they hand over keep their types.
THEOREM TypeCorrect == Spec => []TypeOK
<1>1. Init => TypeOK
  BY InitTypeOK
<1>2. TypeOK /\ [Next]_vars => TypeOK'
  BY NextTypeOK
<1>3. QED
  BY <1>1, <1>2, PTL DEF Spec
-----------------------------------------------------------------------------
(* One announcement of a day, and of its winner *)

\* No process comes to have news, and what is known stays.
Quiet == /\ UNCHANGED <<winners, payloads, sent>>
         /\ \A d \in Drawers : HasNews(d)' =>
              /\ HasNews(d)
              /\ drawer'[d].chat = drawer[d].chat /\ drawer'[d].day = drawer[d].day
              /\ drawer'[d].chosen = drawer[d].chosen

LEMMA QuietSteps ==
  ASSUME TypeOK, NewsIsTheRow, OneAnnouncementPerDraw, Quiet
  PROVE  NewsIsTheRow' /\ OneAnnouncementPerDraw'
<1>1. NewsIsTheRow'
  BY DEF Quiet, NewsIsTheRow
<1>2. OneAnnouncementPerDraw'
  BY DEF Quiet, OneAnnouncementPerDraw, Told
<1>3. QED
  BY <1>1, <1>2

\* A process that moves on to a state without news leaves the others alone.
LEMMA NoNews ==
  ASSUME TypeOK, NEW d \in Drawers, NEW s, Goto(d, s),
         s.at \notin {"reset", "announce"}
  PROVE  \A e \in Drawers : HasNews(e)' => e # d /\ HasNews(e) /\ drawer'[e] = drawer[e]
BY Moved DEF HasNews

\* A row comes to a day without one, and with it the news of it.
LEMMA CreateTells ==
  ASSUME TypeOK, NewsIsTheRow, OneAnnouncementPerDraw, NEW d \in Drawers, Create(d)
  PROVE  NewsIsTheRow' /\ OneAnnouncementPerDraw'
<1> DEFINE c == drawer[d].chat
<1>1. c \in Chats /\ drawer[d].chosen \in Members /\ day \in Days /\ drawer[d].todo \in SUBSET Chats
  BY AtTypes DEF Create, TypeOK
<1>2. winners[c][day] = Nobody /\ UNCHANGED <<payloads, sent>>
  BY DEF Create, DrawnToday, announcements
<1>3. /\ winners'[c][day] = drawer[d].chosen
      /\ \A b \in Chats, k \in Days : b # c \/ k # day => winners'[b][k] = winners[b][k]
  BY <1>1 DEF Create, Insert, TypeOK
<1>4. \A e \in Drawers : HasNews(e) => drawer[e].chat # c \/ drawer[e].day # day
  BY <1>2, AtTypes, DrawAssumption DEF NewsIsTheRow, DrawAssumption
<1>5. ASSUME NEW b \in Chats, NEW a \in Told(b)
      PROVE  a \in Announcements /\ (b = c => a.day # day)
  <2>1. a \in Announcements
    <3>1. payloads[b] \in Seq(Announcements)
      BY DEF TypeOK
    <3>2. \A i \in DOMAIN payloads[b] : payloads[b][i] \in Announcements
      BY <3>1
    <3>3. QED
      BY <3>2 DEF Told, TypeOK
  <2>2. winners[b][a.day] = a.winner /\ a.winner \in Members
    BY <2>1 DEF OneAnnouncementPerDraw, Announcements
  <2>3. QED
    BY <1>2, <2>1, <2>2, DrawAssumption DEF DrawAssumption
<1>6. \A e \in Drawers : HasNews(e)' =>
        \/ e # d /\ HasNews(e) /\ drawer'[e] = drawer[e]
        \/ e = d /\ drawer'[d] = Recorded(d)
  <2>1. CASE Goto(d, Recorded(d))
    BY <2>1, Moved DEF HasNews
  <2>2. CASE Goto(d, Loop(drawer[d].todo))
    BY <1>1, <2>2, NoNews, LoopTypes
  <2>3. QED
    BY <2>1, <2>2 DEF Create, Attempt
<1>7. Recorded(d).chat = c /\ Recorded(d).day = day /\ Recorded(d).chosen = drawer[d].chosen
  BY DEF Recorded
<1>8. \A e \in Drawers : HasNews(e) => drawer[e].chat \in Chats /\ drawer[e].day \in Days
  BY AtTypes DEF HasNews
<1>9. \A b \in Chats : \A a \in Told(b) : a.day \in Days /\ (b = c => a.day # day)
  BY <1>5 DEF Announcements
<1> HIDE DEF c
<1>10. NewsIsTheRow'
  <2>1. \A e \in Drawers : HasNews(e)' => winners'[drawer'[e].chat][drawer'[e].day] = drawer'[e].chosen
    BY <1>1, <1>3, <1>4, <1>6, <1>7, <1>8 DEF NewsIsTheRow
  <2>2. \A e, f \in Drawers :
          HasNews(e)' /\ HasNews(f)' /\ drawer'[e].chat = drawer'[f].chat
            /\ drawer'[e].day = drawer'[f].day => e = f
    BY <1>4, <1>6, <1>7 DEF NewsIsTheRow
  <2>3. \A e \in Drawers : HasNews(e)' =>
          \A i \in DOMAIN payloads[drawer'[e].chat] :
            payloads[drawer'[e].chat][i].day # drawer'[e].day
    <3>1. \A i \in DOMAIN payloads[c] : payloads[c][i].day # day
      BY <1>1, <1>9 DEF Told
    <3>2. QED
      BY <1>6, <1>7, <3>1 DEF NewsIsTheRow
  <2>4. QED
    BY <1>2, <2>1, <2>2, <2>3 DEF NewsIsTheRow
<1>11. OneAnnouncementPerDraw'
  <2>1. \A b \in Chats : Told(b)' = Told(b)
    BY <1>2 DEF Told
  <2>2. \A b \in Chats : \A a \in Told(b) : winners'[b][a.day] = a.winner
    BY <1>3, <1>9 DEF OneAnnouncementPerDraw
  <2>3. QED
    BY <1>2, <2>1, <2>2 DEF OneAnnouncementPerDraw
<1>12. QED
  BY <1>10, <1>11

\* The news that joins the queue is the first of its day.
LEMMA QueuedTells ==
  ASSUME TypeOK, NewsIsTheRow, OneAnnouncementPerDraw, NEW d \in Drawers, AnnounceQueued(d)
  PROVE  NewsIsTheRow' /\ OneAnnouncementPerDraw'
<1> DEFINE c == drawer[d].chat
           a == Announcement(d)
<1>1. HasNews(d) /\ c \in Chats /\ drawer[d].todo \in SUBSET Chats
  BY AtTypes DEF AnnounceQueued, HasNews
<1>2. UNCHANGED <<winners, sent>>
  BY DEF AnnounceQueued
<1>3. \A e \in Drawers : HasNews(e)' => e # d /\ HasNews(e) /\ drawer'[e] = drawer[e]
  BY <1>1, NoNews, LoopTypes DEF AnnounceQueued
<1>4. CASE UNCHANGED payloads
  BY <1>2, <1>3, <1>4, QuietSteps DEF Quiet
<1>5. CASE payloads' = [payloads EXCEPT ![c] = Append(@, a)]
  <2>1. a.day = drawer[d].day /\ a.winner = drawer[d].chosen
    BY DEF Announcement
  <2>2. winners[c][a.day] = a.winner /\ \A i \in DOMAIN payloads[c] : payloads[c][i].day # a.day
    BY <1>1, <2>1 DEF NewsIsTheRow
  <2> HIDE DEF a
  <2>3. /\ payloads'[c] = Append(payloads[c], a)
        /\ \A b \in Chats \ {c} : payloads'[b] = payloads[b]
    BY <1>1, <1>5 DEF TypeOK
  <2>4. /\ DOMAIN payloads[c] = 1 .. Len(payloads[c]) /\ Len(payloads[c]) \in Nat
        /\ DOMAIN payloads'[c] = 1 .. Len(payloads[c]) + 1
        /\ payloads'[c][Len(payloads[c]) + 1] = a
        /\ \A i \in 1 .. Len(payloads[c]) : payloads'[c][i] = payloads[c][i]
    <3>1. payloads[c] \in Seq(Announcements)
      BY <1>1 DEF TypeOK
    <3>2. QED
      BY <2>3, <3>1
  <2>5. \A e \in Drawers : HasNews(e) => drawer[e].chat \in Chats
    BY AtTypes DEF HasNews
  <2> HIDE DEF c
  <2>6. NewsIsTheRow'
    <3>1. \A e \in Drawers : HasNews(e)' =>
            \A i \in DOMAIN payloads'[drawer'[e].chat] :
              payloads'[drawer'[e].chat][i].day # drawer'[e].day
      <4>1. SUFFICES ASSUME NEW e \in Drawers, HasNews(e)', NEW i \in DOMAIN payloads'[drawer[e].chat]
                     PROVE  payloads'[drawer[e].chat][i].day # drawer[e].day
        BY <1>3
      <4>2. HasNews(e) /\ e # d /\ drawer[e].chat \in Chats
        BY <1>3, <2>5, <4>1
      <4>3. CASE drawer[e].chat # c
        BY <2>3, <4>1, <4>2, <4>3 DEF NewsIsTheRow
      <4>4. CASE drawer[e].chat = c
        <5>1. drawer[e].day # a.day
          BY <1>1, <2>1, <4>2, <4>4 DEF NewsIsTheRow, c
        <5>2. i \in 1 .. Len(payloads[c]) \/ i = Len(payloads[c]) + 1
          BY <2>4, <4>1, <4>4
        <5>3. CASE i \in 1 .. Len(payloads[c])
          <6>1. payloads[c][i].day # drawer[e].day
            BY <2>4, <4>2, <4>4, <5>3 DEF NewsIsTheRow
          <6>2. QED
            BY <2>4, <4>4, <5>3, <6>1
        <5>4. CASE i = Len(payloads[c]) + 1
          BY <2>4, <4>4, <5>1, <5>4
        <5>5. QED
          BY <5>2, <5>3, <5>4
      <4>5. QED
        BY <4>3, <4>4
    <3>2. QED
      BY <1>2, <1>3, <3>1 DEF NewsIsTheRow
  <2>7. OneAnnouncementPerDraw'
    <3>1. ASSUME NEW b \in Chats, NEW x \in Told(b)'
          PROVE  x \in Told(b) \/ (b = c /\ x = a)
      <4>1. CASE x \in sent' /\ x.chat = b
        BY <1>2, <4>1 DEF Told
      <4>2. CASE \E i \in DOMAIN payloads'[b] : x = payloads'[b][i]
        <5>1. PICK i \in DOMAIN payloads'[b] : x = payloads'[b][i]
          BY <4>2
        <5>2. CASE b # c
          BY <2>3, <5>1, <5>2 DEF Told
        <5>3. CASE b = c
          BY <2>4, <5>1, <5>3 DEF Told
        <5>4. QED
          BY <5>2, <5>3
      <4>3. QED
        BY <3>1, <4>1, <4>2 DEF Told
    <3>2. \A b \in Chats : \A x \in Told(b)' : winners'[b][x.day] = x.winner
      BY <1>2, <2>2, <3>1 DEF OneAnnouncementPerDraw
    <3>3. \A b \in Chats : \A i, j \in DOMAIN payloads'[b] :
            payloads'[b][i].day = payloads'[b][j].day => i = j
      <4>1. SUFFICES ASSUME NEW b \in Chats, NEW i \in DOMAIN payloads'[b], NEW j \in DOMAIN payloads'[b],
                            payloads'[b][i].day = payloads'[b][j].day
                     PROVE  i = j
        OBVIOUS
      <4>2. CASE b # c
        BY <2>3, <4>1, <4>2 DEF OneAnnouncementPerDraw
      <4>3. CASE b = c
        <5>1. /\ i \in 1 .. Len(payloads[c]) \/ i = Len(payloads[c]) + 1
              /\ j \in 1 .. Len(payloads[c]) \/ j = Len(payloads[c]) + 1
          BY <2>4, <4>3
        <5>2. CASE i \in 1 .. Len(payloads[c]) /\ j \in 1 .. Len(payloads[c])
          BY <2>4, <4>1, <4>3, <5>2 DEF OneAnnouncementPerDraw
        <5>3. QED
          BY <2>2, <2>4, <4>1, <4>3, <5>1, <5>2
      <4>4. QED
        BY <4>2, <4>3
    <3>4. QED
      BY <3>2, <3>3 DEF OneAnnouncementPerDraw
  <2>8. QED
    BY <2>6, <2>7
<1>6. QED
  BY <1>4, <1>5 DEF AnnounceQueued, Attempt

\* So is the news that is sent at once.
LEMMA SentTells ==
  ASSUME TypeOK, NewsIsTheRow, OneAnnouncementPerDraw, NEW d \in Drawers, AnnounceNow(d)
  PROVE  NewsIsTheRow' /\ OneAnnouncementPerDraw'
<1>1. HasNews(d) /\ drawer[d].chat \in Chats /\ drawer[d].todo \in SUBSET Chats
  BY AtTypes DEF AnnounceNow, HasNews
<1>2. UNCHANGED <<winners, payloads>> /\ sent' \subseteq sent \union {Announcement(d)}
  BY DEF AnnounceNow, Attempt, SendNow
<1>3. \A e \in Drawers : HasNews(e)' => e # d /\ HasNews(e) /\ drawer'[e] = drawer[e]
  BY <1>1, NoNews, LoopTypes DEF AnnounceNow
<1>4. /\ Announcement(d).chat = drawer[d].chat
      /\ winners[drawer[d].chat][Announcement(d).day] = Announcement(d).winner
  BY <1>1 DEF Announcement, NewsIsTheRow
<1>5. NewsIsTheRow'
  BY <1>2, <1>3 DEF NewsIsTheRow
<1>6. ASSUME NEW b \in Chats, NEW x \in Told(b)'
      PROVE  winners'[b][x.day] = x.winner
  <2>1. x \in Told(b) \/ (x = Announcement(d) /\ x.chat = b)
    <3>1. CASE x \in sent' /\ x.chat = b
      BY <1>2, <3>1 DEF Told
    <3>2. CASE \E i \in DOMAIN payloads'[b] : x = payloads'[b][i]
      BY <1>2, <3>2 DEF Told
    <3>3. QED
      BY <1>6, <3>1, <3>2 DEF Told
  <2>2. QED
    BY <1>2, <1>4, <2>1 DEF OneAnnouncementPerDraw
<1>7. OneAnnouncementPerDraw'
  BY <1>2, <1>6 DEF OneAnnouncementPerDraw
<1>8. QED
  BY <1>5, <1>7

LEMMA NextTells ==
  ASSUME TypeOK, NewsIsTheRow, OneAnnouncementPerDraw, [Next]_vars
  PROVE  NewsIsTheRow' /\ OneAnnouncementPerDraw'
<1> USE DEF announcements, queueVars, points
<1>1. CASE UNCHANGED <<drawer, winners, payloads, sent>>
  BY <1>1, QuietSteps DEF Quiet, HasNews
<1>2. ASSUME NEW d \in Drawers, Draw(d)
      PROVE  NewsIsTheRow' /\ OneAnnouncementPerDraw'
  <2>1. CASE Create(d)
    BY <2>1, CreateTells
  <2>2. CASE AnnounceQueued(d)
    BY <2>2, QueuedTells
  <2>3. CASE AnnounceNow(d)
    BY <2>3, SentTells
  <2>4. CASE Start(d)
    <3>1. Loop({c \in Chats : on[c]}).at \in {"rest", "chat"}
      BY LoopTypes
    <3>2. \A e \in Drawers : HasNews(e)' => HasNews(e) /\ drawer'[e] = drawer[e]
      BY <2>4, <3>1, NoNews DEF Start, Attempt, HasNews
    <3>3. QED
      BY <2>4, <3>2, QuietSteps DEF Start, Quiet
  <2>5. CASE \E c \in Chats : HasToday(d, c)
    <3>1. PICK c \in Chats : HasToday(d, c)
      BY <2>5
    <3>2. drawer[d].todo \ {c} \in SUBSET Chats
      BY <3>1, AtTypes DEF HasToday
    <3>3. /\ Loop(drawer[d].todo \ {c}).at \notin {"reset", "announce"}
          /\ [at |-> "standings", chat |-> c, todo |-> drawer[d].todo \ {c}].at
               \notin {"reset", "announce"}
      BY <3>2, LoopTypes
    <3>4. \A e \in Drawers : HasNews(e)' => HasNews(e) /\ drawer'[e] = drawer[e]
      BY <3>1, <3>3, NoNews DEF HasToday, Attempt
    <3>5. QED
      BY <3>1, <3>4, QuietSteps DEF HasToday, Quiet
  <2>6. CASE ReadStandings(d)
    <3>1. PICK s : Goto(d, s) /\ s.at = "create"
      BY <2>6 DEF ReadStandings
    <3>2. \A e \in Drawers : HasNews(e)' => HasNews(e) /\ drawer'[e] = drawer[e]
      BY <3>1, NoNews
    <3>3. QED
      BY <2>6, <3>2, QuietSteps DEF ReadStandings, Quiet
  <2>7. CASE NoStandings(d) \/ CreateNothing(d)
    <3>1. Goto(d, Loop(drawer[d].todo)) /\ UNCHANGED <<winners, payloads, sent>>
      BY <2>7 DEF NoStandings, CreateNothing, Conflict
    <3>2. drawer[d].todo \in SUBSET Chats
      BY <2>7, AtTypes DEF NoStandings, CreateNothing
    <3>3. \A e \in Drawers : HasNews(e)' => HasNews(e) /\ drawer'[e] = drawer[e]
      BY <3>1, <3>2, NoNews, LoopTypes
    <3>4. QED
      BY <3>1, <3>3, QuietSteps DEF Quiet
  <2>8. CASE Reset(d)
    <3>1. drawer[d].at = "reset" /\ drawer[d] \in DrawerStates
      BY <2>8 DEF Reset, TypeOK
    <3>2. /\ [drawer[d] EXCEPT !.at = "announce"].chat = drawer[d].chat
          /\ [drawer[d] EXCEPT !.at = "announce"].day = drawer[d].day
          /\ [drawer[d] EXCEPT !.at = "announce"].chosen = drawer[d].chosen
      OBVIOUS
    <3>3. HasNews(d) /\ Goto(d, [drawer[d] EXCEPT !.at = "announce"])
      BY <2>8, <3>1 DEF Reset, HasNews
    <3>4. Quiet
      BY <2>8, <3>2, <3>3, Moved DEF Reset, Quiet, HasNews
    <3>5. QED
      BY <3>4, QuietSteps
  <2>9. QED
    BY <1>2, <2>1, <2>2, <2>3, <2>4, <2>5, <2>6, <2>7, <2>8 DEF Draw
<1>3. ASSUME NEW d \in Drawers, Restart(d)
      PROVE  NewsIsTheRow' /\ OneAnnouncementPerDraw'
  <2>1. \A e \in Drawers : HasNews(e)' => HasNews(e) /\ drawer'[e] = drawer[e]
    BY <1>3, NoNews DEF Restart, Resting
  <2>2. QED
    BY <1>3, <2>1, QuietSteps DEF Restart, Quiet
<1>4. QED
  BY <1>1, <1>2, <1>3 DEF Next, vars, Switch, Score, Midnight, QueueWorks

\* The announcements of a day agree with the day's row and are handed over once,
\* whatever processes overlap and end (Create).
THEOREM DrawsAnnouncedOnce == Spec => []DrawInv
<1>1. Init => TypeOK /\ NewsIsTheRow /\ OneAnnouncementPerDraw
  <2>1. Init => NewsIsTheRow /\ OneAnnouncementPerDraw
    BY DEF Init, Resting, NewsIsTheRow, HasNews, OneAnnouncementPerDraw, Told
  <2>2. QED
    BY <2>1, InitTypeOK
<1>2. TypeOK /\ NewsIsTheRow /\ OneAnnouncementPerDraw /\ [Next]_vars =>
        (TypeOK /\ NewsIsTheRow /\ OneAnnouncementPerDraw)'
  BY NextTypeOK, NextTells
<1>3. QED
  BY <1>1, <1>2, PTL DEF Spec, DrawInv
-----------------------------------------------------------------------------
(* A recorded draw is heard *)

LEMMA LastUnitStep == TypeOK /\ LastUnitIsPending /\ [Next]_vars => LastUnitIsPending'
<1> SUFFICES ASSUME TypeOK, LastUnitIsPending, [Next]_vars
             PROVE  LastUnitIsPending'
  OBVIOUS
<1>1. CASE UNCHANGED queueVars
  BY <1>1 DEF queueVars, LastUnitIsPending
<1>2. CASE QueueWorks
  <2>1. PICK s \in Slots, n \in Int : Queue!Settle(s) \/ Queue!Expire({s})
                                      \/ Queue!CarryOut(s, n) \/ Queue!Refuse(s, n)
    <3>1. PICK s \in Slots : \/ Queue!Settle(s) \/ Queue!Expire({s})
                             \/ \E n \in 1 .. submitted[s] : Queue!CarryOut(s, n) \/ Queue!Refuse(s, n)
      BY <1>2 DEF QueueWorks
    <3>2. 1 .. submitted[s] \subseteq Int /\ 1 \in Int
      BY Shapes
    <3>3. QED
      BY <3>1, <3>2
  <2>2. CASE Queue!Settle(s)
    BY <2>2, Shapes DEF Queue!Settle, LastUnitIsPending
  <2>3. CASE Queue!Expire({s})
    <3>1. /\ submitted' = submitted /\ carriedOut' = carriedOut /\ refused' = refused
          /\ <<s, pending[s]>> \in expired' /\ expired \subseteq expired' /\ pending[s] # 0
      BY <2>3 DEF Queue!Expire
    <3>2. pending'[s] = 0 /\ \A t \in Slots \ {s} : pending'[t] = pending[t]
      BY <2>3 DEF Queue!Expire
    <3>3. QED
      BY <3>1, <3>2 DEF LastUnitIsPending
  <2>4. CASE Queue!CarryOut(s, n) \/ Queue!Refuse(s, n)
    BY <2>4 DEF Queue!CarryOut, Queue!Refuse, LastUnitIsPending
  <2>5. QED
    BY <2>1, <2>2, <2>3, <2>4
<1>3. CASE \E d \in Drawers : AnnounceQueued(d) /\ Queue!Submit(Slot(drawer[d].chat))
  <2>1. PICK d \in Drawers : AnnounceQueued(d) /\ Queue!Submit(Slot(drawer[d].chat))
    BY <1>3
  <2>2. Slot(drawer[d].chat) \in Slots
    BY <2>1, AtTypes DEF AnnounceQueued, Slots, Slot
  <2>3. QED
    BY <2>1, <2>2, Shapes DEF Queue!Submit, LastUnitIsPending
<1>4. QED
  BY <1>1, <1>2, <1>3 DEF Next, Draw, vars, announcements, Switch, Score, Midnight, Start, HasToday,
    ReadStandings, NoStandings, Create, CreateNothing, Reset, AnnounceQueued, AnnounceNow,
    Restart, Attempt

\* Where news is kept, nothing is dropped.
LEMMA KeptNews ==
  ASSUME TypeOK, NothingDropped, UNCHANGED <<winners, payloads, sent>>, faults' = 0 => faults = 0,
         faults' = 0 => \A d \in Drawers : HasNews(d) =>
           HasNews(d)' /\ drawer'[d].chat = drawer[d].chat /\ drawer'[d].day = drawer[d].day
  PROVE  NothingDropped'
<1> SUFFICES ASSUME faults' = 0, NEW c \in Chats, NEW k \in Days, winners[c][k] # Nobody
             PROVE  \/ InHand(c, k)'
                    \/ \E a \in sent : a.chat = c /\ a.day = k
                    \/ \E n \in DOMAIN payloads[c] : payloads[c][n].day = k
  BY DEF NothingDropped
<1>1. InHand(c, k) => InHand(c, k)'
  BY DEF InHand, HasNews
<1>2. QED
  BY <1>1 DEF NothingDropped

\* A process without news has nothing to drop.
LEMMA NothingToDrop ==
  ASSUME TypeOK, NothingDropped, UNCHANGED <<winners, payloads, sent>>, faults' = 0 => faults = 0,
         NEW d \in Drawers, NEW s, UNCHANGED drawer \/ Goto(d, s), ~HasNews(d)
  PROVE  NothingDropped'
BY KeptNews, Moved DEF HasNews

\* A new row is in hand.
LEMMA CreateDropsNothing ==
  ASSUME TypeOK, NothingDropped, NEW d \in Drawers, Create(d)
  PROVE  NothingDropped'
<1> DEFINE c == drawer[d].chat
<1>1. c \in Chats /\ drawer[d].chosen \in Members /\ day \in Days /\ ~HasNews(d)
  BY AtTypes DEF Create, TypeOK, HasNews
<1>2. UNCHANGED <<payloads, sent>>
  BY DEF Create, announcements
<1>3. \A b \in Chats, k \in Days : b # c \/ k # day => winners'[b][k] = winners[b][k]
  BY <1>1 DEF Create, Insert, TypeOK
<1>4. SUFFICES ASSUME faults' = 0
               PROVE  NothingDropped'
  BY DEF NothingDropped
<1>5. faults = 0 /\ Goto(d, Recorded(d))
  BY <1>4 DEF Create, Attempt, Fault, TypeOK
<1>6. drawer'[d].at = "reset" /\ drawer'[d].chat = c /\ drawer'[d].day = day
  BY <1>5, Moved DEF Recorded
<1>7. \A b \in Chats, k \in Days : b = c /\ k = day => InHand(b, k)'
  BY <1>6 DEF InHand
<1>8. \A b \in Chats, k \in Days : InHand(b, k) => InHand(b, k)'
  BY <1>1, <1>5, Moved DEF InHand, HasNews
<1> HIDE DEF c
<1>9. QED
  BY <1>2, <1>3, <1>5, <1>7, <1>8 DEF NothingDropped

\* What is handed over is among the payloads, or sent.
LEMMA HandOverDropsNothing ==
  ASSUME TypeOK, NothingDropped, NEW d \in Drawers, AnnounceQueued(d) \/ AnnounceNow(d)
  PROVE  NothingDropped'
<1> DEFINE c == drawer[d].chat
           a == Announcement(d)
<1>1. c \in Chats /\ HasNews(d)
  BY AtTypes DEF AnnounceQueued, AnnounceNow, HasNews
<1>2. SUFFICES ASSUME faults' = 0
               PROVE  NothingDropped'
  BY DEF NothingDropped
<1>3. faults = 0 /\ winners' = winners
  BY <1>2 DEF AnnounceQueued, AnnounceNow, Attempt, Fault, TypeOK
<1>4. a.chat = c /\ a.day = drawer[d].day
  BY DEF Announcement
<1>5. \A b \in Chats, k \in Days : InHand(b, k) => InHand(b, k)' \/ (b = c /\ k = a.day)
  BY <1>4, Moved DEF InHand, AnnounceQueued, AnnounceNow
<1>6. CASE AnnounceNow(d)
  <2>1. payloads' = payloads /\ sent' = sent \union {a}
    BY <1>2, <1>3, <1>6 DEF AnnounceNow, Attempt, Fault, SendNow
  <2> HIDE DEF a, c
  <2>2. QED
    BY <1>3, <1>4, <1>5, <2>1 DEF NothingDropped
<1>7. CASE AnnounceQueued(d)
  <2>1. sent' = sent /\ payloads' = [payloads EXCEPT ![c] = Append(@, a)]
    BY <1>2, <1>3, <1>7 DEF AnnounceQueued, Attempt, Fault
  <2> HIDE DEF a
  <2>2. /\ Len(payloads[c]) + 1 \in DOMAIN payloads'[c]
        /\ payloads'[c][Len(payloads[c]) + 1] = a
        /\ \A n \in DOMAIN payloads[c] : n \in DOMAIN payloads'[c] /\ payloads'[c][n] = payloads[c][n]
    <3>1. payloads[c] \in Seq(Announcements) /\ payloads'[c] = Append(payloads[c], a)
      BY <1>1, <2>1 DEF TypeOK
    <3> HIDE DEF c
    <3>2. QED
      BY <3>1
  <2>3. \A b \in Chats \ {c} : payloads'[b] = payloads[b]
    BY <2>1 DEF TypeOK
  <2> HIDE DEF c
  <2>4. ASSUME NEW b \in Chats, NEW k \in Days
        PROVE  (\E n \in DOMAIN payloads[b] : payloads[b][n].day = k)
                 => \E n \in DOMAIN payloads'[b] : payloads'[b][n].day = k
    BY <2>2, <2>3
  <2>5. \A b \in Chats, k \in Days :
          InHand(b, k) => InHand(b, k)' \/ \E n \in DOMAIN payloads'[b] : payloads'[b][n].day = k
    BY <1>5, <2>2
  <2>6. QED
    BY <1>3, <2>1, <2>4, <2>5 DEF NothingDropped
<1>8. QED
  BY <1>6, <1>7

LEMMA NextDropsNothing == TypeOK /\ NothingDropped /\ [Next]_vars => NothingDropped'
<1> SUFFICES ASSUME TypeOK, NothingDropped, [Next]_vars
             PROVE  NothingDropped'
  OBVIOUS
<1> USE DEF announcements
<1>1. CASE UNCHANGED <<drawer, winners, payloads, sent, faults>>
  BY <1>1, KeptNews DEF HasNews
<1>2. ASSUME NEW d \in Drawers, Draw(d)
      PROVE  NothingDropped'
  <2>1. CASE Start(d)
    BY <2>1, FaultType, NothingToDrop DEF Start, Attempt, HasNews, Resting
  <2>2. CASE \E c \in Chats : HasToday(d, c)
    BY <2>2, FaultType, NothingToDrop DEF HasToday, Attempt, HasNews
  <2>3. CASE ReadStandings(d)
    <3>1. PICK s : Goto(d, s)
      BY <2>3 DEF ReadStandings
    <3>2. QED
      BY <2>3, <3>1, NothingToDrop DEF ReadStandings, HasNews
  <2>4. CASE NoStandings(d)
    BY <2>4, FaultType, NothingToDrop DEF NoStandings, Attempt, HasNews
  <2>5. CASE CreateNothing(d)
    BY <2>5, FaultType, NothingToDrop DEF CreateNothing, HasNews
  <2>6. CASE Reset(d)
    <3>1. drawer[d].at = "reset" /\ drawer[d] \in DrawerStates
      BY <2>6 DEF Reset, TypeOK
    <3>2. Goto(d, [drawer[d] EXCEPT !.at = "announce"])
      BY <2>6 DEF Reset
    <3>3. /\ [drawer[d] EXCEPT !.at = "announce"].chat = drawer[d].chat
          /\ [drawer[d] EXCEPT !.at = "announce"].day = drawer[d].day
          /\ [drawer[d] EXCEPT !.at = "announce"].at = "announce"
      BY <3>1 DEF DrawerStates, Resting
    <3>4. \A e \in Drawers : HasNews(e) =>
            HasNews(e)' /\ drawer'[e].chat = drawer[e].chat /\ drawer'[e].day = drawer[e].day
      BY <3>2, <3>3, Moved DEF HasNews
    <3>5. QED
      BY <2>6, <3>4, FaultType, KeptNews DEF Reset, Attempt
  <2>7. QED
    BY <1>2, <2>1, <2>2, <2>3, <2>4, <2>5, <2>6, CreateDropsNothing, HandOverDropsNothing DEF Draw
<1>3. ASSUME NEW d \in Drawers, Restart(d)
      PROVE  NothingDropped'
  BY <1>3 DEF Restart, Fault, TypeOK, NothingDropped
<1>4. QED
  BY <1>1, <1>2, <1>3 DEF Next, vars, Switch, Score, Midnight, QueueWorks

\* Together: an announcement before the last was superseded, the last is pending
\* or done with.
LEMMA HeardIfKept ==
  TypeOK /\ LastUnitIsPending /\ NothingDropped => RecordedDrawIsHeard
<1> SUFFICES ASSUME TypeOK, LastUnitIsPending, NothingDropped, faults = 0,
                    NEW c \in Chats, NEW k \in Days, winners[c][k] # Nobody,
                    NEW n \in DOMAIN payloads[c], payloads[c][n].day = k
             PROVE  \/ pending[Slot(c)] = n
                    \/ <<Slot(c), n>> \in carriedOut \union refused \union expired
                    \/ n < submitted[Slot(c)]
  BY DEF NothingDropped, RecordedDrawIsHeard
<1>1. n \in 1 .. submitted[Slot(c)] /\ submitted[Slot(c)] \in Nat
  BY DEF TypeOK
<1>2. Slot(c) \in Slots
  BY DEF Slot, Slots
<1>3. CASE n = submitted[Slot(c)]
  BY <1>1, <1>2, <1>3 DEF LastUnitIsPending
<1>4. QED
  BY <1>1, <1>3

\* Without failures the draw reaches the chat, or the queue settles it in one of
\* the ways of its contract (runWinners, Announce, SummaryJobs).
THEOREM DrawsAreHeard == Spec => []RecordedDrawIsHeard
<1>1. Init => TypeOK /\ LastUnitIsPending /\ NothingDropped
  <2>1. Init => LastUnitIsPending /\ NothingDropped
    BY DEF Init, LastUnitIsPending, NothingDropped
  <2>2. QED
    BY <2>1, InitTypeOK
<1>2. TypeOK /\ LastUnitIsPending /\ NothingDropped /\ [Next]_vars =>
        (TypeOK /\ LastUnitIsPending /\ NothingDropped)'
  BY NextTypeOK, LastUnitStep, NextDropsNothing
<1>3. QED
  BY <1>1, <1>2, HeardIfKept, PTL DEF Spec
-----------------------------------------------------------------------------
(* A point counts once *)

\* With room for every member, the standings are all who have scored.
LEMMA TopIsAll ==
  ASSUME TypeOK, IsFiniteSet(Members), Cardinality(Members) <= StatsTop,
         NEW c \in Chats, NEW S \in Top(c, StatsTop)
  PROVE  \A m \in Members : (IF m \in S THEN score[c][m] ELSE 0) = score[c][m]
<1> DEFINE n == Cardinality(Scorers(c))
<1>1. Scorers(c) \in SUBSET Members
  BY DEF Scorers
<1>2. IsFiniteSet(Scorers(c)) /\ n <= Cardinality(Members)
  BY <1>1, FS_Subset
<1>3. n \in Nat /\ Cardinality(Members) \in Nat /\ StatsTop \in Nat
  BY <1>2, FS_CardinalityType, Bounds
<1>4. n <= StatsTop
  BY <1>2, <1>3
<1>5. Min({StatsTop, n}) = n
  <2>1. n \in {StatsTop, n} /\ \A y \in {StatsTop, n} : n <= y
    BY <1>3, <1>4
  <2>2. Min({StatsTop, n}) \in {StatsTop, n} /\ \A y \in {StatsTop, n} : Min({StatsTop, n}) <= y
    BY <2>1 DEF Min
  <2>3. Min({StatsTop, n}) <= n /\ n <= Min({StatsTop, n})
    BY <2>1, <2>2
  <2>4. QED
    BY <1>3, <2>2, <2>3
<1>6. S \in SUBSET Scorers(c) /\ Cardinality(S) = n
  BY <1>5 DEF Top
<1>7. S = Scorers(c)
  BY <1>2, <1>6, FS_Subset
<1>8. QED
  BY <1>7, Shapes DEF Scorers

LEMMA PointTypes ==
  ASSUME TypeOK, NEW c \in Chats, NEW m \in Members
  PROVE  /\ score[c][m] \in Nat /\ scored[c][m] \in Nat
         /\ counted[c][m] \in Nat /\ late[c][m] \in Nat
         /\ \A d \in Drawers : drawer[d].at = "create" => drawer[d].standings[m] \in Nat
<1>1. \A d \in Drawers : drawer[d].at = "create" => drawer[d].standings \in [Members -> Nat]
  BY AtTypes DEF Standings
<1>2. QED
  BY <1>1, Shapes

\* The points of a chat stay.
SamePoints(c) == /\ scored'[c] = scored[c] /\ score'[c] = score[c]
                 /\ counted'[c] = counted[c] /\ late'[c] = late[c]

\* Whoever still draws for a chat is where it was, and no draw that counted the
\* points is broken off.
SameDraws(c) ==
  \A d \in Drawers : /\ Draws(d, c)' => drawer'[d] = drawer[d]
                     /\ drawer[d].at = "reset" /\ drawer[d].chat = c => drawer'[d] = drawer[d]

LEMMA BalanceKept ==
  ASSUME TypeOK, NEW c \in Chats, Balanced(c), SamePoints(c), SameDraws(c)
  PROVE  Balanced(c)'
<1>1. \A m \in Members : Gone(c, m)' = Gone(c, m)
  BY DEF Gone, SamePoints
<1>2. \A d \in Drawers : Draws(d, c)' => Draws(d, c) /\ drawer'[d] = drawer[d]
  BY DEF SameDraws, Draws
<1>3. \A d, e \in Drawers : Draws(d, c)' /\ Draws(e, c)' => d = e
  BY <1>2 DEF Balanced
<1>4. \A d \in Drawers, m \in Members : drawer'[d].at = "create" /\ drawer'[d].chat = c =>
        /\ Gone(c, m)' \in 0 .. late'[c][m]
        /\ Gone(c, m)' + score'[c][m] - drawer'[d].standings[m] \in 0 .. late'[c][m]
  BY <1>1, <1>2 DEF Balanced, Draws, SamePoints
<1>5. \A d \in Drawers, m \in Members : drawer'[d].at = "reset" /\ drawer'[d].chat = c =>
        Gone(c, m)' + score'[c][m] \in 0 .. late'[c][m]
  BY <1>1, <1>2 DEF Balanced, Draws, SamePoints
<1>6. ASSUME NEW m \in Members, ~UnderWay(c)'
      PROVE  Gone(c, m) \in 0 .. late[c][m]
  <2>1. CASE \E d \in Drawers : drawer[d].at = "create" /\ drawer[d].chat = c
    BY <2>1 DEF Balanced
  <2>2. CASE \E d \in Drawers : drawer[d].at = "reset" /\ drawer[d].chat = c
    BY <1>6, <2>2 DEF SameDraws, UnderWay, Draws
  <2>3. QED
    BY <2>1, <2>2 DEF Balanced, UnderWay, Draws
<1>7. QED
  BY <1>1, <1>3, <1>4, <1>5, <1>6 DEF Balanced, SamePoints

\* A process that is not at the reset comes to a place outside the draw, or to
\* the draw of another chat.
LEMMA OtherDraws ==
  ASSUME TypeOK, NEW c \in Chats, NEW d \in Drawers, NEW s, UNCHANGED drawer \/ Goto(d, s),
         s.at \notin {"standings", "create", "reset"} \/ s.chat # c,
         drawer[d].at # "reset" \/ drawer[d].chat # c
  PROVE  SameDraws(c)
BY Moved DEF SameDraws, Draws

LEMMA ReadKeepsBalance ==
  ASSUME TypeOK, IsFiniteSet(Members), Cardinality(Members) <= StatsTop,
         NEW d \in Drawers, ReadStandings(d), NEW c \in Chats, Balanced(c)
  PROVE  Balanced(c)'
<1> DEFINE b == drawer[d].chat
<1>1. b \in Chats /\ drawer[d].at = "standings"
  BY AtTypes DEF ReadStandings
<1>2. UNCHANGED <<score, scored, counted, late, crossed>>
  BY DEF ReadStandings, points
<1>3. PICK S \in Top(b, StatsTop), k \in Members :
        Goto(d, [at |-> "create", chat |-> b, todo |-> drawer[d].todo, chosen |-> k,
                 standings |-> [o \in Members |-> IF o \in S THEN score[b][o] ELSE 0]])
  BY DEF ReadStandings, Top, Scorers
<1>4. /\ drawer'[d].at = "create" /\ drawer'[d].chat = b
      /\ \A m \in Members : drawer'[d].standings[m] = IF m \in S THEN score[b][m] ELSE 0
      /\ \A e \in Drawers \ {d} : drawer'[e] = drawer[e]
  BY <1>3, Moved
<1>5. \A m \in Members : drawer'[d].standings[m] = score[b][m]
  BY <1>1, <1>4, TopIsAll
<1>6. CASE c # b
  BY <1>1, <1>2, <1>4, <1>6, BalanceKept DEF SamePoints, SameDraws, Draws
<1>7. CASE c = b
  <2>1. Draws(d, c)
    BY <1>1, <1>7 DEF Draws
  <2>2. \A e \in Drawers \ {d} : ~Draws(e, c) /\ ~Draws(e, c)'
    BY <1>4, <2>1 DEF Balanced, Draws
  <2>3. ~UnderWay(c)
    BY <1>1, <2>2 DEF UnderWay
  <2>4. \A m \in Members : Gone(c, m) \in 0 .. late[c][m]
    BY <2>3 DEF Balanced
  <2>5. \A m \in Members : Gone(c, m)' = Gone(c, m) /\ Gone(c, m) \in Int
    BY <1>2, <2>4 DEF Gone
  <2>6. \A m \in Members :
          /\ Gone(c, m)' \in 0 .. late'[c][m]
          /\ Gone(c, m)' + score'[c][m] - drawer'[d].standings[m] \in 0 .. late'[c][m]
    BY <1>2, <1>5, <1>7, <2>4, <2>5, PointTypes
  <2> HIDE DEF b
  <2>7. QED
    BY <1>4, <2>2, <2>6 DEF Balanced, Draws
<1>8. QED
  BY <1>6, <1>7

LEMMA CreateKeepsBalance ==
  ASSUME TypeOK, NEW d \in Drawers, Create(d), faults' = 0, NEW c \in Chats, Balanced(c)
  PROVE  Balanced(c)'
<1> DEFINE b == drawer[d].chat
<1>1. b \in Chats /\ drawer[d].at = "create"
  BY AtTypes DEF Create
<1>2. UNCHANGED <<score, scored, late, crossed>>
  BY DEF Create
<1>3. /\ \A m \in Members : counted'[b][m] = counted[b][m] + drawer[d].standings[m]
      /\ \A x \in Chats \ {b} : counted'[x] = counted[x]
  BY <1>1, Shapes DEF Create, Insert
<1>4. Goto(d, Recorded(d))
  BY DEF Create, Attempt, Fault, TypeOK
<1>5. /\ drawer'[d].at = "reset" /\ drawer'[d].chat = b
      /\ \A e \in Drawers \ {d} : drawer'[e] = drawer[e]
  BY <1>4, Moved DEF Recorded
<1>6. CASE c # b
  BY <1>1, <1>2, <1>3, <1>5, <1>6, BalanceKept DEF SamePoints, SameDraws, Draws
<1>7. CASE c = b
  <2>1. Draws(d, c)
    BY <1>1, <1>7 DEF Draws
  <2>2. \A e \in Drawers \ {d} : ~Draws(e, c) /\ ~Draws(e, c)'
    BY <1>5, <2>1 DEF Balanced, Draws
  <2>3. \A m \in Members : Gone(c, m) + score[c][m] - drawer[d].standings[m] \in 0 .. late[c][m]
    BY <1>1, <1>7 DEF Balanced
  <2>4. \A m \in Members : Gone(c, m)' + score'[c][m] \in 0 .. late'[c][m]
    BY <1>1, <1>2, <1>3, <1>7, <2>3, PointTypes DEF Gone
  <2> HIDE DEF b
  <2>5. UnderWay(c)'
    BY <1>5, <1>7 DEF UnderWay, Draws
  <2>6. QED
    BY <1>5, <2>2, <2>4, <2>5 DEF Balanced, Draws
<1>8. QED
  BY <1>6, <1>7

LEMMA ResetKeepsBalance ==
  ASSUME TypeOK, NEW d \in Drawers, Reset(d), faults' = 0, NEW c \in Chats, Balanced(c)
  PROVE  Balanced(c)'
<1> DEFINE b == drawer[d].chat
<1>1. b \in Chats /\ drawer[d].at = "reset" /\ drawer[d] \in DrawerStates
  BY AtTypes DEF Reset, TypeOK
<1>2. UNCHANGED <<scored, counted, late, crossed>>
  BY DEF Reset, points
<1>3. /\ \A m \in Members : score'[b][m] = 0
      /\ \A x \in Chats \ {b} : score'[x] = score[x]
  BY <1>1, Shapes DEF Reset, Attempt, Fault, ResetScores, TypeOK
<1>4. /\ drawer'[d].at = "announce"
      /\ \A e \in Drawers \ {d} : drawer'[e] = drawer[e]
  <2>1. [drawer[d] EXCEPT !.at = "announce"].at = "announce"
    BY <1>1 DEF DrawerStates, Resting
  <2>2. QED
    BY <2>1, Moved DEF Reset
<1>5. CASE c # b
  BY <1>1, <1>2, <1>3, <1>4, <1>5, BalanceKept DEF SamePoints, SameDraws, Draws
<1>6. CASE c = b
  <2>1. Draws(d, c)
    BY <1>1, <1>6 DEF Draws
  <2>2. \A e \in Drawers : ~Draws(e, c)'
    BY <1>4, <2>1 DEF Balanced, Draws
  <2>3. \A m \in Members : Gone(c, m) + score[c][m] \in 0 .. late[c][m]
    BY <1>1, <1>6 DEF Balanced
  <2>4. \A m \in Members : Gone(c, m)' \in 0 .. late'[c][m]
    BY <1>2, <1>3, <1>6, <2>3, PointTypes DEF Gone
  <2>5. QED
    BY <2>2, <2>4 DEF Balanced, Draws
<1>7. QED
  BY <1>5, <1>6

LEMMA ScoreKeepsBalance ==
  ASSUME TypeOK, NEW b \in Chats, NEW k \in Members, Score(b, k), NEW c \in Chats, Balanced(c)
  PROVE  Balanced(c)'
<1>1. UNCHANGED <<drawer, counted>>
  BY DEF Score
<1>2. \A d \in Drawers : Draws(d, c)' <=> Draws(d, c)
  BY <1>1 DEF Draws
<1>3. UnderWay(c)' <=> UnderWay(c)
  BY <1>1, <1>2 DEF UnderWay
<1>4. CASE c # b
  BY <1>1, <1>2, <1>4, Shapes, BalanceKept DEF Score, SamePoints, SameDraws
<1>5. CASE c = b
  <2>1. ASSUME NEW m \in Members
        PROVE  /\ Gone(c, m)' = Gone(c, m)
               /\ \/ score'[c][m] = score[c][m] /\ late'[c][m] = late[c][m]
                  \/ ~UnderWay(c) /\ late'[c][m] = late[c][m]
                  \/ score'[c][m] = score[c][m] + 1 /\ late'[c][m] = late[c][m] + 1
               /\ late'[c][m] \in Nat /\ late[c][m] <= late'[c][m]
    <3>1. CASE m = k
      BY <1>1, <1>5, <3>1, Shapes DEF Score, Gone
    <3>2. CASE m # k
      BY <1>1, <1>5, <3>2, Shapes DEF Score, Gone
    <3>3. QED
      BY <3>1, <3>2
  <2>2. ASSUME NEW d \in Drawers, NEW m \in Members, drawer[d].at = "create", drawer[d].chat = c
        PROVE  /\ Gone(c, m)' \in 0 .. late'[c][m]
               /\ Gone(c, m)' + score'[c][m] - drawer[d].standings[m] \in 0 .. late'[c][m]
    <3>1. UnderWay(c)
      BY <2>2 DEF UnderWay, Draws
    <3>2. /\ Gone(c, m) \in 0 .. late[c][m]
          /\ Gone(c, m) + score[c][m] - drawer[d].standings[m] \in 0 .. late[c][m]
      BY <2>2 DEF Balanced
    <3>3. QED
      BY <2>1, <2>2, <3>1, <3>2, PointTypes
  <2>3. ASSUME NEW d \in Drawers, NEW m \in Members, drawer[d].at = "reset", drawer[d].chat = c
        PROVE  Gone(c, m)' + score'[c][m] \in 0 .. late'[c][m]
    <3>1. UnderWay(c)
      BY <2>3 DEF UnderWay, Draws
    <3>2. Gone(c, m) + score[c][m] \in 0 .. late[c][m]
      BY <2>3 DEF Balanced
    <3>3. Gone(c, m) \in Int
      BY PointTypes DEF Gone
    <3>4. QED
      BY <2>1, <3>1, <3>2, <3>3, PointTypes
  <2>4. \A m \in Members : UnderWay(c) \/ Gone(c, m)' \in 0 .. late'[c][m]
    BY <2>1, PointTypes DEF Balanced
  <2>5. QED
    BY <1>1, <1>2, <1>3, <2>2, <2>3, <2>4 DEF Balanced
<1>6. QED
  BY <1>4, <1>5

\* A draw begins where no other is under way, or the chat is crossed.
LEMMA BeginKeepsBalance ==
  ASSUME TypeOK, NEW d \in Drawers, NEW b \in Chats, HasToday(d, b),
         NEW c \in Chats, c \notin crossed', Balanced(c)
  PROVE  Balanced(c)'
<1>1. drawer[d].at = "chat" /\ drawer[d].todo \ {b} \in SUBSET Chats
  BY AtTypes DEF HasToday
<1>2. UNCHANGED <<score, scored, counted, late>>
  BY DEF HasToday
<1>3. CASE c # b \/ Goto(d, Loop(drawer[d].todo \ {b}))
  <2>1. Loop(drawer[d].todo \ {b}).at \in {"rest", "chat"}
    BY <1>1, LoopTypes
  <2>2. SameDraws(c)
    BY <1>1, <1>3, <2>1, OtherDraws DEF HasToday, Attempt
  <2>3. QED
    BY <1>2, <2>2, BalanceKept DEF SamePoints
<1>4. CASE c = b /\ Goto(d, [at |-> "standings", chat |-> b, todo |-> drawer[d].todo \ {b}])
  <2>1. \A e \in Drawers \ {d} : ~Draws(e, c) /\ drawer'[e] = drawer[e]
    BY <1>4, Moved DEF HasToday
  <2>2. drawer'[d].at = "standings" /\ ~Draws(d, c)
    BY <1>1, <1>4, Moved DEF Draws
  <2>3. ~UnderWay(c)
    BY <2>1, <2>2 DEF UnderWay
  <2>4. \A m \in Members : Gone(c, m)' \in 0 .. late'[c][m]
    BY <1>2, <2>3 DEF Balanced, Gone
  <2>5. QED
    BY <2>1, <2>2, <2>4 DEF Balanced, Draws
<1>5. QED
  BY <1>3, <1>4 DEF HasToday, Attempt

LEMMA NextBalances ==
  ASSUME IsFiniteSet(Members), Cardinality(Members) <= StatsTop,
         TypeOK, Account, [Next]_vars
  PROVE  Account'
<1>1. SUFFICES ASSUME faults' = 0, NEW c \in Chats, c \notin crossed'
               PROVE  Balanced(c)'
  BY DEF Account
<1> USE DEF points
<1>2. faults = 0 /\ c \notin crossed
  <2>1. UNCHANGED faults \/ Fault
    BY DEF Next, Draw, vars, Switch, Score, Midnight, Start, HasToday, ReadStandings,
      NoStandings, Create, CreateNothing, Reset, AnnounceQueued, AnnounceNow, Restart, QueueWorks,
      Attempt
  <2>2. crossed \subseteq crossed'
    BY DEF Next, Draw, vars, Switch, Score, Midnight, Start, HasToday, ReadStandings,
      NoStandings, Create, CreateNothing, Reset, AnnounceQueued, AnnounceNow, Restart, QueueWorks
  <2>3. QED
    BY <1>1, <2>1, <2>2, FaultType
<1>3. Balanced(c)
  BY <1>2 DEF Account
<1>4. CASE UNCHANGED <<drawer, points, score>>
  <2>1. SameDraws(c) /\ SamePoints(c)
    BY <1>4 DEF SameDraws, SamePoints
  <2>2. QED
    BY <1>3, <2>1, BalanceKept
<1>5. CASE \E b \in Chats, k \in Members : Score(b, k)
  BY <1>3, <1>5, ScoreKeepsBalance
<1>6. ASSUME NEW d \in Drawers, Draw(d)
      PROVE  Balanced(c)'
  <2>1. CASE Start(d)
    <3>1. Loop({b \in Chats : on[b]}).at \in {"rest", "chat"}
      BY LoopTypes
    <3>2. SameDraws(c) /\ SamePoints(c)
      BY <2>1, <3>1, OtherDraws DEF Start, Attempt, Resting, SamePoints
    <3>3. QED
      BY <1>3, <3>2, BalanceKept
  <2>2. CASE NoStandings(d) \/ CreateNothing(d) \/ AnnounceQueued(d) \/ AnnounceNow(d)
    <3>1. Goto(d, Loop(drawer[d].todo)) /\ drawer[d].at # "reset" /\ SamePoints(c)
      BY <2>2 DEF NoStandings, CreateNothing, Conflict, AnnounceQueued, AnnounceNow, SamePoints
    <3>2. drawer[d].todo \in SUBSET Chats
      BY <2>2, AtTypes DEF NoStandings, CreateNothing, AnnounceQueued, AnnounceNow
    <3>3. SameDraws(c)
      BY <3>1, <3>2, LoopTypes, OtherDraws
    <3>4. QED
      BY <1>3, <3>1, <3>3, BalanceKept
  <2>3. QED
    BY <1>1, <1>3, <1>6, <2>1, <2>2, BeginKeepsBalance, ReadKeepsBalance, CreateKeepsBalance,
       ResetKeepsBalance DEF Draw
<1>7. CASE \E d \in Drawers : Restart(d)
  BY <1>1, <1>7 DEF Restart, Fault, TypeOK
<1>8. QED
  BY <1>4, <1>5, <1>6, <1>7 DEF Next, vars, Switch, Midnight, QueueWorks

\* Where the standings have room for every member, a point is counted by one
\* draw at most and lost by none, but for the late ones (TopByScore, Create and
\* ResetScores are statements of their own).
THEOREM PointsOfADraw ==
  ASSUME IsFiniteSet(Members), Cardinality(Members) <= StatsTop
  PROVE  Spec => []PointsCountOnce
<1>1. Init => TypeOK /\ Account
  <2>1. Init => Account
    <3>1. SUFFICES ASSUME Init, NEW c \in Chats PROVE Balanced(c)
      BY DEF Account
    <3>2. \A d \in Drawers : drawer[d].at = "rest"
      BY <3>1 DEF Init, Resting
    <3>3. \A m \in Members : Gone(c, m) = 0 /\ late[c][m] = 0
      BY <3>1 DEF Init, Zero, Gone
    <3>4. QED
      BY <3>2, <3>3 DEF Balanced, Draws
  <2>2. QED
    BY <2>1, InitTypeOK
<1>2. TypeOK /\ Account /\ [Next]_vars => (TypeOK /\ Account)'
  BY NextTypeOK, NextBalances
<1>3. TypeOK /\ Account => PointsCountOnce
  BY DEF Account, Balanced, PointsCountOnce, Gone
<1>4. QED
  BY <1>1, <1>2, <1>3, PTL DEF Spec
=============================================================================

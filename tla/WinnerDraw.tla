------------------------------ MODULE WinnerDraw ------------------------------
(***************************************************************************)
(* The daily draw (runWinners in scheduler/scheduler.go, models/winner.go) *)
(* over the scores of models/participation.go, and the hand-over of its    *)
(* announcement (Announce in handlers/winner/announce.go): to the summary  *)
(* queue, of which only the contract QueueContract is used here, or to     *)
(* Telegram at once.                                                       *)
(*                                                                         *)
(* Every statement is one step of the cron goroutine.  Members go on       *)
(* scoring and admins go on switching the draw while it runs; midnight may *)
(* fall between any two steps, because winner_cron is configuration.       *)
(***************************************************************************)
EXTENDS Integers, Sequences, FiniteSets, FiniteSetsExt, TLC

CONSTANTS
  Chats, Members,
  Nobody,        \* winners has no row for a day
  Drawers,       \* running processes; two while one replaces the other
  Configured,    \* values SummaryConfigured() may have
  DrawPool,      \* drawPool
  StatsTop,      \* statsTop
  MaxPoints,     \* bound: points scored in a chat by one member
  MaxDay,        \* bound: the last day
  MaxFaults      \* bound: failed statements and calls, and crashes

ASSUME DrawAssumption ==
  /\ Nobody \notin Members
  /\ Configured \subseteq BOOLEAN /\ Configured # {}
  /\ 0 < DrawPool /\ DrawPool <= StatsTop
  /\ {DrawPool, StatsTop, MaxPoints, MaxDay, MaxFaults} \subseteq Nat

VARIABLES
  day,
  on,          \* chat -> active, with the draw enabled
  score,       \* chat -> member -> participations.score
  winners,     \* chat -> day -> the winner's row, or Nobody
  configured,
  drawer,      \* process -> its goroutine of runWinners
  payloads,    \* chat -> the announcements queued, in order
  sent,        \* the announcements Telegram took at once
  (* the queue's side, see QueueContract *)
  pending, submitted, carriedOut, refused, expired,
  (* history variables *)
  scored,      \* chat -> member -> points ever scored
  counted,     \* chat -> member -> points in the standings of recorded draws
  late,        \* chat -> member -> points scored while the chat's draw ran
  crossed,     \* chats two processes drew for at the same time
  faults

Slots == Chats \X {"winner"}
Slot(c) == <<c, "winner">>
Queue == INSTANCE QueueContract

queueVars == <<pending, submitted, carriedOut, refused, expired>>
points == <<scored, counted, late, crossed>>
announcements == <<payloads, sent, queueVars>>
vars == <<day, on, score, winners, configured, drawer, announcements, points, faults>>

Days == 0 .. MaxDay
Announcements == [chat : Chats, day : Days, winner : Members]
Resting == [at |-> "rest"]

Fault == faults < MaxFaults /\ faults' = faults + 1

\* A statement or a call works, or it fails.
Attempt(effect, failure) ==
  \/ effect /\ UNCHANGED faults
  \/ failure /\ Fault

Goto(d, state) == drawer' = [drawer EXCEPT ![d] = state]

\* The loop of forEachActiveChat: an error in one chat only skips it.
Loop(todo) == IF todo = {} THEN Resting ELSE [at |-> "chat", todo |-> todo]

-----------------------------------------------------------------------------
Scorers(c) == {m \in Members : score[c][m] > 0}

\* TopByScore: the highest scores first; the order of equal scores is the
\* database's choice.
Top(c, limit) ==
  {S \in SUBSET Scorers(c) :
     /\ Cardinality(S) = Min({limit, Cardinality(Scorers(c))})
     /\ \A m \in S, o \in Scorers(c) \ S : score[c][m] >= score[c][o]}

Zero == [c \in Chats |-> [m \in Members |-> 0]]

Init ==
  /\ day = 0
  /\ on = [c \in Chats |-> TRUE]
  /\ score = Zero
  /\ winners = [c \in Chats |-> [d \in Days |-> Nobody]]
  /\ configured \in Configured
  /\ drawer = [d \in Drawers |-> Resting]
  /\ payloads = [c \in Chats |-> <<>>]
  /\ sent = {}
  /\ pending = [s \in Slots |-> 0]
  /\ submitted = pending
  /\ carriedOut = {} /\ refused = {} /\ expired = {}
  /\ scored = Zero /\ counted = Zero /\ late = Zero /\ crossed = {}
  /\ faults = 0

-----------------------------------------------------------------------------
(* The chat *)

Draws(d, c) == drawer[d].at \in {"standings", "create", "reset"} /\ drawer[d].chat = c

UnderWay(c) == \E d \in Drawers : drawer[d].at # "standings" /\ Draws(d, c)

\* IncrScore, from the ingest of a join or a leave or from a goroutine of
\* collectStats that may be older than the last change of the settings.
Score(c, m) ==
  /\ scored[c][m] < MaxPoints
  /\ score' = [score EXCEPT ![c][m] = @ + 1]
  /\ scored' = [scored EXCEPT ![c][m] = @ + 1]
  /\ late' = IF UnderWay(c) THEN [late EXCEPT ![c][m] = @ + 1] ELSE late
  /\ UNCHANGED <<day, on, winners, configured, drawer, announcements, counted, crossed, faults>>

\* /start and /stop, /winner enable and /winner disable
Switch(c) ==
  /\ on' = [on EXCEPT ![c] = ~@]
  /\ UNCHANGED <<day, score, winners, configured, drawer, announcements, points, faults>>

Midnight ==
  /\ day < MaxDay
  /\ day' = day + 1
  /\ UNCHANGED <<on, score, winners, configured, drawer, announcements, points, faults>>

-----------------------------------------------------------------------------
(* The draw *)

\* winner_cron.  The list of active chats and their settings are read once.
Start(d) ==
  /\ drawer[d] = Resting
  /\ \E c \in Chats : on[c]
  /\ Attempt(Goto(d, Loop({c \in Chats : on[c]})), UNCHANGED drawer)
  /\ UNCHANGED <<day, on, score, winners, configured, announcements, points>>

DrawnToday(c) == winners[c][day] # Nobody

HasToday(d, c) ==
  LET rest == drawer[d].todo \ {c} IN
  /\ drawer[d].at = "chat" /\ c \in drawer[d].todo
  /\ Attempt(Goto(d, IF DrawnToday(c) THEN Loop(rest)
                     ELSE [at |-> "standings", chat |-> c, todo |-> rest]),
             Goto(d, Loop(rest)))
  /\ crossed' = IF \E e \in Drawers \ {d} : Draws(e, c) THEN crossed \union {c} ELSE crossed
  /\ UNCHANGED <<day, on, score, winners, configured, announcements, scored, counted, late>>

\* The winner is one of the first drawPool of the standings.  A member outside
\* the standings is given 0 points here: who is in them has more.
ReadStandings(d) ==
  LET c == drawer[d].chat IN
  /\ drawer[d].at = "standings"
  /\ \E S \in Top(c, StatsTop), P \in Top(c, DrawPool) : \E m \in S \cap P :
       Goto(d, [at |-> "create", chat |-> c, todo |-> drawer[d].todo, chosen |-> m,
                standings |-> [o \in Members |-> IF o \in S THEN score[c][o] ELSE 0]])
  /\ UNCHANGED <<day, on, score, winners, configured, announcements, points, faults>>

NoStandings(d) ==
  /\ drawer[d].at = "standings"
  /\ Attempt(Scorers(drawer[d].chat) = {}, TRUE)
  /\ Goto(d, Loop(drawer[d].todo))
  /\ UNCHANGED <<day, on, score, winners, configured, announcements, points>>

\* The INSERT of Winners.Create
Insert(d) ==
  LET c == drawer[d].chat IN
  /\ winners' = [winners EXCEPT ![c][day] = drawer[d].chosen]
  /\ counted' = [counted EXCEPT ![c] = [m \in Members |-> @[m] + drawer[d].standings[m]]]

\* The snapshot goes along with the day of its row.
Recorded(d) == [at |-> "reset", chat |-> drawer[d].chat, todo |-> drawer[d].todo,
                chosen |-> drawer[d].chosen, standings |-> drawer[d].standings, day |-> day]

\* Winners.Create.  Its DELETE of old rows may fail after the INSERT worked: an
\* error, and the draw goes no further.
Create(d) ==
  /\ drawer[d].at = "create" /\ ~DrawnToday(drawer[d].chat)
  /\ Insert(d)
  /\ Attempt(Goto(d, Recorded(d)), Goto(d, Loop(drawer[d].todo)))
  /\ UNCHANGED <<day, on, score, configured, announcements, scored, late, crossed>>

\* Mutant: RowsAffected is not looked at.
MutantConflict(d) == Recorded(d)

\* ON CONFLICT DO NOTHING: another process was faster.
Conflict(d) == Loop(drawer[d].todo)

CreateNothing(d) ==
  /\ drawer[d].at = "create"
  /\ \/ winners[drawer[d].chat][day] # Nobody /\ Goto(d, Conflict(d)) /\ UNCHANGED faults
     \/ Goto(d, Loop(drawer[d].todo)) /\ Fault
  /\ UNCHANGED <<day, on, score, winners, configured, announcements, points>>

\* Mutant: the scores stay.
MutantResetScores(c) == UNCHANGED score

ResetScores(c) == score' = [score EXCEPT ![c] = [m \in Members |-> 0]]

\* A failure is only logged.
Reset(d) ==
  /\ drawer[d].at = "reset"
  /\ Attempt(ResetScores(drawer[d].chat), UNCHANGED score)
  /\ Goto(d, [drawer[d] EXCEPT !.at = "announce"])
  /\ UNCHANGED <<day, on, winners, configured, announcements, points>>

\* The snapshot the announcement is made of.
Announcement(d) == [chat |-> drawer[d].chat, day |-> drawer[d].day, winner |-> drawer[d].chosen]

\* Announce with a summary chain: SummaryJobs.Enqueue
AnnounceQueued(d) ==
  LET c == drawer[d].chat IN
  /\ drawer[d].at = "announce" /\ configured
  /\ Attempt(/\ Queue!Submit(Slot(c))
             /\ payloads' = [payloads EXCEPT ![c] = Append(@, Announcement(d))],
             UNCHANGED <<payloads, queueVars>>)
  /\ Goto(d, Loop(drawer[d].todo))
  /\ UNCHANGED <<day, on, score, winners, configured, sent, points>>

\* Mutant: the settings are looked up again, and a chat switched off meanwhile
\* is passed over.
MutantSendNow(a) == sent' = IF on[a.chat] THEN sent \union {a} ELSE sent

SendNow(a) == sent' = sent \union {a}

\* Announce without one: a single attempt to send it.
AnnounceNow(d) ==
  /\ drawer[d].at = "announce" /\ ~configured
  /\ Attempt(SendNow(Announcement(d)), UNCHANGED sent)
  /\ Goto(d, Loop(drawer[d].todo))
  /\ UNCHANGED <<day, on, score, winners, configured, payloads, queueVars, points>>

\* A process ends; the next one starts with the tables alone.
Restart(d) ==
  /\ drawer[d] # Resting
  /\ Fault
  /\ Goto(d, Resting)
  /\ UNCHANGED <<day, on, score, winners, configured, announcements, points>>

\* The summary queue at work.
QueueWorks ==
  /\ \E s \in Slots : \/ Queue!Settle(s) \/ Queue!Expire({s})
                      \/ \E n \in 1 .. submitted[s] : Queue!CarryOut(s, n) \/ Queue!Refuse(s, n)
  /\ UNCHANGED <<day, on, score, winners, configured, drawer, payloads, sent, points, faults>>

Draw(d) ==
  \/ Start(d) \/ (\E c \in Chats : HasToday(d, c))
  \/ ReadStandings(d) \/ NoStandings(d) \/ Create(d) \/ CreateNothing(d) \/ Reset(d)
  \/ AnnounceQueued(d) \/ AnnounceNow(d)

Next ==
  \/ \E c \in Chats : Switch(c) \/ \E m \in Members : Score(c, m)
  \/ Midnight
  \/ \E d \in Drawers : Draw(d) \/ Restart(d)
  \/ QueueWorks

Spec == Init /\ [][Next]_vars

-----------------------------------------------------------------------------
(* Properties *)

(* What a process may be doing, and what it carries along. *)

Standings == [Members -> Nat]

DrawerStates ==
  {Resting}
    \union [at : {"chat"}, todo : SUBSET Chats]
    \union [at : {"standings"}, chat : Chats, todo : SUBSET Chats]
    \union [at : {"create"}, chat : Chats, todo : SUBSET Chats, chosen : Members,
            standings : Standings]
    \union [at : {"reset", "announce"}, chat : Chats, todo : SUBSET Chats, chosen : Members,
            standings : Standings, day : Days]

Units == Slots \X (Nat \ {0})

\* Every variable keeps its type; the queue's number of a payload is its place.
TypeOK ==
  /\ day \in Days /\ on \in [Chats -> BOOLEAN] /\ configured \in Configured
  /\ {score, scored, counted, late} \subseteq [Chats -> [Members -> Nat]] /\ crossed \subseteq Chats
  /\ winners \in [Chats -> [Days -> Members \union {Nobody}]]
  /\ drawer \in [Drawers -> DrawerStates]
  /\ payloads \in [Chats -> Seq(Announcements)] /\ sent \subseteq Announcements
  /\ {pending, submitted} \subseteq [Slots -> Nat]
  /\ \A c \in Chats : Len(payloads[c]) = submitted[Slot(c)]
  /\ carriedOut \subseteq Units /\ refused \subseteq Units /\ expired \subseteq Units
  /\ faults \in 0 .. MaxFaults

\* A point is rewarded by at most one draw, and none is lost unless it was
\* scored while the chat's draw was under way (TopByScore and ResetScores are
\* two statements): for chats with no more scorers than statsTop, as long as no
\* statement fails and no two processes draw for the chat at the same time.
PointsCountOnce ==
  faults = 0 => \A c \in Chats \ crossed, m \in Members :
    LET gone == scored[c][m] - score[c][m] - counted[c][m] IN
    UnderWay(c) \/ gone \in 0 .. late[c][m]

Told(c) == {a \in sent : a.chat = c} \union {payloads[c][i] : i \in DOMAIN payloads[c]}

InHand(c, d) == \E e \in Drawers : /\ drawer[e].at \in {"reset", "announce"}
                                   /\ drawer[e].chat = c /\ drawer[e].day = d

\* Whatever processes and restarts overlap, what is announced of a day is the
\* one winner the table has for it, and it is handed over once (Create).
OneAnnouncementPerDraw ==
  \A c \in Chats :
    /\ \A a \in Told(c) : winners[c][a.day] = a.winner
    /\ \A i, j \in DOMAIN payloads[c] : payloads[c][i].day = payloads[c][j].day => i = j

\* The draw's tables and the payloads handed over keep their shape and agree.
DrawInv == TypeOK /\ OneAnnouncementPerDraw

\* Without failures a recorded draw reaches the chat, unless Telegram refuses
\* it, it expires, or the next draw of the chat takes its place in the queue:
\* the draw and the queue's contract together (runWinners, Announce).
RecordedDrawIsHeard ==
  faults = 0 => \A c \in Chats, d \in Days :
    winners[c][d] # Nobody =>
      \/ InHand(c, d)
      \/ \E a \in sent : a.chat = c /\ a.day = d
      \/ \E n \in DOMAIN payloads[c] :
           /\ payloads[c][n].day = d
           /\ \/ pending[Slot(c)] = n
              \/ <<Slot(c), n>> \in carriedOut \union refused \union expired
              \/ n < submitted[Slot(c)]
=============================================================================

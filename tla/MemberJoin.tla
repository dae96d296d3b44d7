------------------------------ MODULE MemberJoin ------------------------------
(***************************************************************************)
(* What happens to people who join a chat: the captcha                     *)
(* (handlers/captcha), the greeting (handlers/greeting) and the rows of    *)
(* participations both of them claim (models/participation.go).            *)
(*                                                                         *)
(* The bot runs every update in a goroutine of its own, and Telegram       *)
(* reports one join twice, as chat_member and as new_chat_members.  The    *)
(* captcha cron job runs beside them.  Every statement and every Telegram  *)
(* call is one step of one of these goroutines; people come, press         *)
(* buttons, leave, or solve a captcha in another chat between the steps.   *)
(***************************************************************************)
EXTENDS Integers, FiniteSets, TLC

CONSTANTS
  Members,       \* the people, none of them a bot
  Emojis,        \* the symbols a challenge is made of
  Handlers,      \* goroutines that may handle updates at the same time
  Sweeper,       \* the goroutine of ExpirePending
  Captcha,       \* values captcha_enabled_at IS NOT NULL may have
  Greeting,      \* values the greeting flag and the greeting's text may have
  Elsewhere,     \* TRUE: the captcha may be solved in another chat meanwhile
  MaxJoins,      \* bound: how often each member joins
  MaxPresses,    \* bound: button presses
  MaxFaults      \* bound: failed statements and calls, and crashes

NoEmoji == "null"

ASSUME JoinAssumption ==
  /\ NoEmoji \notin Emojis
  /\ Sweeper \notin Handlers
  /\ Captcha \subseteq BOOLEAN /\ Captcha # {}
  /\ Greeting \subseteq [flag : BOOLEAN, text : BOOLEAN] /\ Greeting # {}
  /\ Elsewhere \in BOOLEAN
  /\ {MaxJoins, MaxPresses, MaxFaults} \subseteq Nat

VARIABLES
  (* Telegram *)
  inChat, muted, banned,
  posts,        \* the challenge messages standing in the chat
  posted,       \* how many were ever posted: their ids
  joinNotices,  \* batch of members -> join updates not handled yet
  leaveNotices, \* member -> leave updates not handled yet
  (* the database *)
  row,          \* member -> participations row
  solvedGlobally, \* member -> users.captcha_solved_at IS NOT NULL
  captchaOn, greeting,
  (* the process *)
  proc,         \* goroutine -> what it is doing
  (* history variables and bounds *)
  joins, presses, faults,
  claims,       \* member -> captcha claims won
  releases,     \* member -> captcha claims given up
  greetings     \* member -> greetings posted for a claim of theirs

telegram == <<inChat, muted, banned, posts, posted, joinNotices, leaveNotices>>
settings == <<captchaOn, greeting>>
database == <<row, solvedGlobally, settings>>
history  == <<joins, presses, claims, releases, greetings>>
vars == <<telegram, database, proc, history, faults>>

Actors == Handlers \union {Sweeper}
Batches == SUBSET Members \ {{}}
Resting == [at |-> "rest"]

Fault == faults < MaxFaults /\ faults' = faults + 1

\* A statement or a call works, or it fails and leaves what it would have changed.
Attempt(effect, unchanged) ==
  \/ effect /\ UNCHANGED faults
  \/ unchanged /\ Fault

-----------------------------------------------------------------------------
(* Rows of participations.  The time of the request only tells whether it is *)
(* older than the minute ExpirePending grants.                               *)

\* Ensure inserts the row of a first join; until then nothing refers to it.
NewRow == [left |-> FALSE, requested |-> "null", emoji |-> NoEmoji, message |-> 0,
           solved |-> FALSE, greeted |-> FALSE]

WithoutChallenge(r) == [r EXCEPT !.requested = "null", !.emoji = NoEmoji, !.message = 0]

Solved(r) == [WithoutChallenge(r) EXCEPT !.solved = TRUE]

\* Mutant: the claim does not look for an earlier one.
MutantClaimable(r) == ~r.solved

\* TryClaimCaptcha's WHERE.  CaptchaSolved, read just before, adds nothing to
\* it: a solved row stays solved.
Claimable(r) == ~r.solved /\ r.requested = "null"

\* Mutant: the details are stored whatever became of the claim.
MutantPending(r) == TRUE

\* GetCaptchaPending's and SetCaptchaDetails's WHERE.
Pending(r) == r.requested # "null" /\ ~r.solved

\* Mutant: the sweep looks for members who left.
MutantExpired(r) == Pending(r) /\ r.requested = "old" /\ r.left /\ r.message # 0

\* ExpiredPending, for a chat with the captcha enabled.
Expired(r) == Pending(r) /\ r.requested = "old" /\ ~r.left /\ r.message # 0

SetRow(m, r) == row' = [row EXCEPT ![m] = r]

\* ClearCaptcha
Release(m) ==
  /\ SetRow(m, WithoutChallenge(row[m]))
  /\ releases' = IF row[m].requested = "null" THEN releases
                 ELSE [releases EXCEPT ![m] = @ + 1]

-----------------------------------------------------------------------------
Init ==
  /\ inChat = [m \in Members |-> FALSE]
  /\ muted = [m \in Members |-> FALSE]
  /\ banned = [m \in Members |-> FALSE]
  /\ posts = {}
  /\ posted = 0
  /\ joinNotices = [S \in Batches |-> 0]
  /\ leaveNotices = [m \in Members |-> 0]
  /\ row = [m \in Members |-> NewRow]
  /\ solvedGlobally \in [Members -> IF Elsewhere THEN BOOLEAN ELSE {FALSE}]
  /\ captchaOn \in Captcha
  /\ greeting \in Greeting
  /\ proc = [a \in Actors |-> Resting]
  /\ joins = [m \in Members |-> 0]
  /\ presses = 0
  /\ faults = 0
  /\ claims = [m \in Members |-> 0]
  /\ releases = [m \in Members |-> 0]
  /\ greetings = [m \in Members |-> 0]

-----------------------------------------------------------------------------
(* People *)

\* Members added together are one service message and one chat_member each.
Join(S) ==
  /\ \A m \in S : ~inChat[m] /\ ~banned[m] /\ joins[m] < MaxJoins
  /\ inChat' = [m \in Members |-> m \in S \/ inChat[m]]
  /\ joins' = [m \in Members |-> IF m \in S THEN joins[m] + 1 ELSE joins[m]]
  /\ joinNotices' = [T \in Batches |->
       joinNotices[T] + (IF T = S THEN 1 ELSE 0)
                      + (IF \E m \in S : T = {m} THEN 1 ELSE 0)]
  /\ UNCHANGED <<muted, banned, posts, posted, leaveNotices, database, proc,
                 presses, claims, releases, greetings, faults>>

\* Telegram remembers the restrictions of somebody who left.
Leave(m) ==
  /\ inChat[m]
  /\ inChat' = [inChat EXCEPT ![m] = FALSE]
  /\ leaveNotices' = [leaveNotices EXCEPT ![m] = @ + 1]
  /\ UNCHANGED <<muted, banned, posts, posted, joinNotices, database, proc, history, faults>>

SolveElsewhere(m) ==
  /\ Elsewhere
  /\ ~solvedGlobally[m]
  /\ solvedGlobally' = [solvedGlobally EXCEPT ![m] = TRUE]
  /\ UNCHANGED <<telegram, row, settings, proc, history, faults>>

\* Presses of somebody else are only answered: Callback compares From with the
\* target.
Press(h, m, p, emoji) ==
  /\ proc[h] = Resting
  /\ inChat[m] /\ p \in posts /\ p.member = m
  /\ presses < MaxPresses
  /\ presses' = presses + 1
  /\ proc' = [proc EXCEPT ![h] = [at |-> "pending", member |-> m, post |-> p, pressed |-> emoji]]
  /\ UNCHANGED <<telegram, database, joins, claims, releases, greetings, faults>>

\* A minute passes over a challenge.
Age(m) ==
  /\ row[m].requested = "fresh"
  /\ SetRow(m, [row[m] EXCEPT !.requested = "old"])
  /\ UNCHANGED <<telegram, solvedGlobally, settings, proc, history, faults>>

\* /captcha enable and disable
SetCaptcha(on) ==
  /\ captchaOn # on
  /\ captchaOn' = on
  /\ UNCHANGED <<telegram, row, solvedGlobally, greeting, proc, history, faults>>

-----------------------------------------------------------------------------
(* A join: Ingest, then handleMembersJoined *)

Goto(a, state) == proc' = [proc EXCEPT ![a] = state]

Greet(batch, todo, claimed) ==
  CASE todo # {}    -> [at |-> "greet", batch |-> batch, todo |-> todo, claimed |-> claimed]
    [] claimed # {} -> [at |-> "welcome", claimed |-> claimed]
    [] OTHER        -> Resting

\* The next member to challenge, or the greeting once there is none.
Challenge(batch, todo) ==
  CASE todo # {}     -> [at |-> "member", batch |-> batch, todo |-> todo]
    [] greeting.flag -> Greet(batch, batch, {})
    [] OTHER         -> Resting

NextMember(h) == Challenge(proc[h].batch, proc[h].todo)

\* EnsureJoin, in one transaction.  The captcha flag it returns is the one the
\* handler goes by.
ReceiveJoin(h, S) ==
  /\ proc[h] = Resting
  /\ joinNotices[S] > 0
  /\ joinNotices' = [joinNotices EXCEPT ![S] = @ - 1]
  /\ Attempt(/\ row' = [m \in Members |-> [row[m] EXCEPT !.left = m \notin S /\ @]]
             /\ Goto(h, Challenge(S, IF captchaOn THEN S ELSE {})),
             UNCHANGED <<row, proc>>)
  /\ UNCHANGED <<inChat, muted, banned, posts, posted, leaveNotices, solvedGlobally,
                 settings, history>>

ReadGlobal(h, m) ==
  /\ proc[h].at = "member" /\ m \in proc[h].todo
  /\ Goto(h, [at |-> IF solvedGlobally[m] THEN "inherit" ELSE "claim", member |-> m,
              batch |-> proc[h].batch, todo |-> proc[h].todo \ {m}])
  /\ UNCHANGED <<telegram, database, history, faults>>

\* A captcha solved anywhere counts here: MarkCaptchaSolved.
Inherit(h) ==
  /\ proc[h].at = "inherit"
  /\ Attempt(SetRow(proc[h].member, Solved(row[proc[h].member])), UNCHANGED row)
  /\ Goto(h, NextMember(h))
  /\ UNCHANGED <<telegram, solvedGlobally, settings, history>>

\* TryClaimCaptcha, and buildChallenge for the winner of the claim.
Claim(h, emoji) ==
  LET m == proc[h].member IN
  /\ proc[h].at = "claim"
  /\ Claimable(row[m])
  /\ SetRow(m, [row[m] EXCEPT !.requested = "fresh"])
  /\ claims' = [claims EXCEPT ![m] = @ + 1]
  /\ Goto(h, [at |-> "mute", member |-> m, emoji |-> emoji,
              batch |-> proc[h].batch, todo |-> proc[h].todo])
  /\ UNCHANGED <<telegram, solvedGlobally, settings, joins, presses, releases, greetings, faults>>

ClaimLost(h) ==
  /\ proc[h].at = "claim"
  /\ Attempt(~Claimable(row[proc[h].member]), TRUE)
  /\ Goto(h, NextMember(h))
  /\ UNCHANGED <<telegram, database, history>>

\* Best effort.
Mute(h) ==
  /\ proc[h].at = "mute"
  /\ Attempt(muted' = [muted EXCEPT ![proc[h].member] = TRUE], UNCHANGED muted)
  /\ Goto(h, [proc[h] EXCEPT !.at = "post"])
  /\ UNCHANGED <<inChat, banned, posts, posted, joinNotices, leaveNotices, database, history>>

NewPost(m, emoji) == [id |-> posted + 1, member |-> m, emoji |-> emoji]

Post(h) ==
  LET p == NewPost(proc[h].member, proc[h].emoji) IN
  /\ proc[h].at = "post"
  /\ posts' = posts \union {p}
  /\ posted' = p.id
  /\ Goto(h, [at |-> "details", post |-> p, batch |-> proc[h].batch, todo |-> proc[h].todo])
  /\ UNCHANGED <<inChat, muted, banned, joinNotices, leaveNotices, database, history, faults>>

PostFails(h) ==
  /\ proc[h].at = "post"
  /\ Fault
  /\ Goto(h, [proc[h] EXCEPT !.at = "release"])
  /\ UNCHANGED <<telegram, database, history>>

\* The challenge reaches the chat, but its answer is lost: to the handler it failed,
\* and a keyboard stays that no row knows.
PostUnseen(h) ==
  LET p == NewPost(proc[h].member, proc[h].emoji) IN
  /\ proc[h].at = "post"
  /\ Fault
  /\ posts' = posts \union {p}
  /\ posted' = p.id
  /\ Goto(h, [proc[h] EXCEPT !.at = "release"])
  /\ UNCHANGED <<inChat, muted, banned, joinNotices, leaveNotices, database, history>>

\* The claim is given back, but nobody is unmuted.
ReleaseClaim(h) ==
  /\ proc[h].at = "release"
  /\ Attempt(Release(proc[h].member), UNCHANGED <<row, releases>>)
  /\ Goto(h, NextMember(h))
  /\ UNCHANGED <<telegram, solvedGlobally, settings, joins, presses, claims, greetings>>

SetCaptchaDetails(h) ==
  LET p == proc[h].post
      r == row[p.member] IN
  /\ proc[h].at = "details"
  /\ Attempt(SetRow(p.member, IF Pending(r) THEN [r EXCEPT !.emoji = p.emoji, !.message = p.id]
                                           ELSE r),
             UNCHANGED row)
  /\ Goto(h, NextMember(h))
  /\ UNCHANGED <<telegram, solvedGlobally, settings, history>>

-----------------------------------------------------------------------------
(* The greeting of a batch: claimGreetings, sendGreetingOrRollback *)

\* Mutant: the claim does not look for an earlier one.
MutantUngreeted(m) == {m}

\* TryClaimGreeting's WHERE; GreetingGreeted, read just before, adds nothing to it.
Ungreeted(m) == IF row[m].greeted THEN {} ELSE {m}

ClaimGreeting(h, m) ==
  LET rest == proc[h].todo \ {m} IN
  /\ proc[h].at = "greet" /\ m \in proc[h].todo
  /\ Attempt(/\ SetRow(m, [row[m] EXCEPT !.greeted = TRUE])
             /\ Goto(h, Greet(proc[h].batch, rest, proc[h].claimed \union Ungreeted(m))),
             /\ UNCHANGED row
             /\ Goto(h, Greet(proc[h].batch, rest, proc[h].claimed)))
  /\ UNCHANGED <<telegram, solvedGlobally, settings, history>>

\* greeting.Send reports that it sent something: there is a text.
Welcomed == greeting.text

SendGreeting(h) ==
  /\ proc[h].at = "welcome"
  /\ greetings' = [m \in Members |->
       greetings[m] + (IF greeting.text /\ m \in proc[h].claimed THEN 1 ELSE 0)]
  /\ Goto(h, IF Welcomed THEN Resting ELSE [proc[h] EXCEPT !.at = "ungreet"])
  /\ UNCHANGED <<telegram, database, joins, presses, claims, releases, faults>>

\* The error may hide that Telegram posted the message.
SendGreetingFails(h) ==
  /\ proc[h].at = "welcome"
  /\ Fault
  /\ \/ UNCHANGED greetings
     \/ /\ greeting.text
        /\ greetings' = [m \in Members |-> greetings[m] + (IF m \in proc[h].claimed THEN 1 ELSE 0)]
  /\ Goto(h, [proc[h] EXCEPT !.at = "ungreet"])
  /\ UNCHANGED <<telegram, database, joins, presses, claims, releases>>

ClearGreeting(h, m) ==
  LET rest == proc[h].claimed \ {m} IN
  /\ proc[h].at = "ungreet" /\ m \in proc[h].claimed
  /\ Attempt(SetRow(m, [row[m] EXCEPT !.greeted = FALSE]), UNCHANGED row)
  /\ Goto(h, IF rest = {} THEN Resting ELSE [proc[h] EXCEPT !.claimed = rest])
  /\ UNCHANGED <<telegram, solvedGlobally, settings, history>>

-----------------------------------------------------------------------------
(* Leaving, pressing a button, running out of time *)

\* EnsureEntities with left
ReceiveLeave(h, m) ==
  /\ proc[h] = Resting
  /\ leaveNotices[m] > 0
  /\ leaveNotices' = [leaveNotices EXCEPT ![m] = @ - 1]
  /\ Attempt(SetRow(m, [row[m] EXCEPT !.left = TRUE]), UNCHANGED row)
  /\ UNCHANGED <<inChat, muted, banned, posts, posted, joinNotices, solvedGlobally,
                 settings, proc, history>>

\* Mutant: the member is not removed.
MutantFail(m, message, todo) ==
  [at |-> "delete", member |-> m, message |-> message, todo |-> todo]

\* failCaptcha begins with the question whether the member is muted; a sweep has
\* more members to fail after this one.
Fail(m, message, todo) ==
  [at |-> "isMuted", member |-> m, message |-> message, todo |-> todo]

\* GetCaptchaPending; a row without details holds NULL, which no press matches.
GetPending(h) ==
  LET r == row[proc[h].member] IN
  /\ proc[h].at = "pending"
  /\ Attempt(Goto(h, CASE ~Pending(r)                -> Resting
                       [] r.emoji = proc[h].pressed  -> [proc[h] EXCEPT !.at = "ensure"]
                       [] OTHER -> Fail(proc[h].member, r.message, {})),
             Goto(h, Resting))
  /\ UNCHANGED <<telegram, database, history>>

\* acceptSolution: EnsureMember
EnsureMember(h) ==
  LET m == proc[h].member IN
  /\ proc[h].at = "ensure"
  /\ Attempt(SetRow(m, [row[m] EXCEPT !.left = FALSE]) /\ Goto(h, [proc[h] EXCEPT !.at = "mark"]),
             UNCHANGED row /\ Goto(h, Resting))
  /\ UNCHANGED <<telegram, solvedGlobally, settings, history>>

\* Participations.MarkCaptchaSolved
MarkSolved(h) ==
  LET m == proc[h].member IN
  /\ proc[h].at = "mark"
  /\ Attempt(SetRow(m, Solved(row[m])) /\ Goto(h, [proc[h] EXCEPT !.at = "markUser"]),
             UNCHANGED row /\ Goto(h, Resting))
  /\ UNCHANGED <<telegram, solvedGlobally, settings, history>>

\* Users.MarkCaptchaSolved, best effort like the two calls after it.
MarkUser(h) ==
  /\ proc[h].at = "markUser"
  /\ Attempt(solvedGlobally' = [solvedGlobally EXCEPT ![proc[h].member] = TRUE],
             UNCHANGED solvedGlobally)
  /\ Goto(h, [proc[h] EXCEPT !.at = "unmute"])
  /\ UNCHANGED <<telegram, row, settings, history>>

Unmute(h) ==
  /\ proc[h].at = "unmute"
  /\ Attempt(muted' = [muted EXCEPT ![proc[h].member] = FALSE], UNCHANGED muted)
  /\ Goto(h, [proc[h] EXCEPT !.at = "tidy"])
  /\ UNCHANGED <<inChat, banned, posts, posted, joinNotices, leaveNotices, database, history>>

Tidy(h) ==
  /\ proc[h].at = "tidy"
  /\ Attempt(posts' = posts \ {proc[h].post}, UNCHANGED posts)
  /\ Goto(h, Resting)
  /\ UNCHANGED <<inChat, muted, banned, posted, joinNotices, leaveNotices, database, history>>

\* ExpirePending reads its list once.
FailNext(todo) == IF todo = {} THEN Resting ELSE [at |-> "expired", todo |-> todo]

StartSweep ==
  /\ proc[Sweeper] = Resting
  /\ LET list == IF captchaOn THEN {m \in Members : Expired(row[m])} ELSE {} IN
       /\ list # {}
       /\ Goto(Sweeper, FailNext({<<m, row[m].message>> : m \in list}))
  /\ UNCHANGED <<telegram, database, history, faults>>

TakeExpired(e) ==
  /\ proc[Sweeper].at = "expired" /\ e \in proc[Sweeper].todo
  /\ Goto(Sweeper, Fail(e[1], e[2], proc[Sweeper].todo \ {e}))
  /\ UNCHANGED <<telegram, database, history, faults>>

\* Kick asks Telegram first; an answer that is lost counts as "not muted".
IsMuted(a) ==
  /\ proc[a].at = "isMuted"
  /\ Attempt(Goto(a, [proc[a] EXCEPT !.at = IF muted[proc[a].member] THEN "ban" ELSE "delete"]),
             Goto(a, [proc[a] EXCEPT !.at = "delete"]))
  /\ UNCHANGED <<telegram, database, history>>

\* Telegram reports the removal like any other departure.
Ban(a) ==
  LET m == proc[a].member IN
  /\ proc[a].at = "ban"
  /\ Attempt(/\ banned' = [banned EXCEPT ![m] = TRUE]
             /\ inChat' = [inChat EXCEPT ![m] = FALSE]
             /\ muted' = [muted EXCEPT ![m] = FALSE]
             /\ leaveNotices' = IF inChat[m] THEN [leaveNotices EXCEPT ![m] = @ + 1]
                                ELSE leaveNotices
             /\ Goto(a, [proc[a] EXCEPT !.at = "unban"]),
             /\ UNCHANGED <<banned, inChat, muted, leaveNotices>>
             /\ Goto(a, [proc[a] EXCEPT !.at = "delete"]))
  /\ UNCHANGED <<posts, posted, joinNotices, database, history>>

Unban(a) ==
  /\ proc[a].at = "unban"
  /\ Attempt(banned' = [banned EXCEPT ![proc[a].member] = FALSE], UNCHANGED banned)
  /\ Goto(a, [proc[a] EXCEPT !.at = "delete"])
  /\ UNCHANGED <<inChat, muted, posts, posted, joinNotices, leaveNotices, database, history>>

\* A message id of 0 stands for a challenge whose details were not stored yet.
DeletePost(a) ==
  /\ proc[a].at = "delete"
  /\ Attempt(posts' = {p \in posts : p.id # proc[a].message}, UNCHANGED posts)
  /\ Goto(a, [proc[a] EXCEPT !.at = "clear"])
  /\ UNCHANGED <<inChat, muted, banned, posted, joinNotices, leaveNotices, database, history>>

ClearCaptcha(a) ==
  /\ proc[a].at = "clear"
  /\ Attempt(Release(proc[a].member), UNCHANGED <<row, releases>>)
  /\ Goto(a, FailNext(proc[a].todo))
  /\ UNCHANGED <<telegram, solvedGlobally, settings, joins, presses, claims, greetings>>

\* The process ends and the next one starts: goroutines, and the updates they
\* were handling, are gone.
Restart ==
  /\ \E a \in Actors : proc[a] # Resting
  /\ Fault
  /\ proc' = [a \in Actors |-> Resting]
  /\ UNCHANGED <<telegram, database, history>>

-----------------------------------------------------------------------------
HandleJoin(h) ==
  \/ \E S \in Batches : ReceiveJoin(h, S)
  \/ \E m \in Members : ReadGlobal(h, m) \/ ClaimGreeting(h, m) \/ ClearGreeting(h, m)
  \/ \E emoji \in Emojis : Claim(h, emoji)
  \/ Inherit(h) \/ ClaimLost(h) \/ Mute(h) \/ Post(h) \/ PostFails(h) \/ PostUnseen(h) \/ ReleaseClaim(h)
  \/ SetCaptchaDetails(h) \/ SendGreeting(h) \/ SendGreetingFails(h)

HandlePress(h) ==
  GetPending(h) \/ EnsureMember(h) \/ MarkSolved(h) \/ MarkUser(h) \/ Unmute(h) \/ Tidy(h)

FailCaptcha(a) == IsMuted(a) \/ Ban(a) \/ Unban(a) \/ DeletePost(a) \/ ClearCaptcha(a)

Sweep == StartSweep \/ (\E m \in Members, n \in 1 .. posted : TakeExpired(<<m, n>>))

Work(h) == HandleJoin(h) \/ HandlePress(h) \/ FailCaptcha(h)
           \/ \E m \in Members : ReceiveLeave(h, m)

People ==
  \/ \E S \in Batches : Join(S)
  \/ \E m \in Members : Leave(m) \/ SolveElsewhere(m) \/ Age(m)
  \/ \E h \in Handlers, m \in Members, p \in posts, emoji \in Emojis : Press(h, m, p, emoji)
  \/ \E on \in Captcha : SetCaptcha(on)

Next ==
  \/ People
  \/ \E h \in Handlers : Work(h)
  \/ Sweep \/ FailCaptcha(Sweeper)
  \/ Restart

\* Goroutines are scheduled, updates are delivered, minutes pass and cron fires.
Fairness ==
  /\ \A h \in Handlers : WF_vars(Work(h))
  /\ \A m \in Members : WF_vars(Age(m))
  /\ WF_vars(Sweep \/ FailCaptcha(Sweeper))

Spec == Init /\ [][Next]_vars
FairSpec == Spec /\ Fairness

-----------------------------------------------------------------------------
(* Properties *)

PostRecord == [id : 1 .. posted, member : Members, emoji : Emojis]
Expiry == Members \X (1 .. posted)

(* What a goroutine may be doing, and what it carries along. *)

ChallengeStates ==
  [at : {"member"}, batch : Batches, todo : SUBSET Members]
    \union [at : {"inherit", "claim"}, member : Members, batch : Batches, todo : SUBSET Members]
    \union [at : {"mute", "post", "release"}, member : Members, emoji : Emojis,
            batch : Batches, todo : SUBSET Members]
    \union [at : {"details"}, post : PostRecord, batch : Batches, todo : SUBSET Members]

GreetStates ==
  [at : {"greet"}, batch : Batches, todo : SUBSET Members, claimed : SUBSET Members]
    \union [at : {"welcome", "ungreet"}, claimed : SUBSET Members]

PressStates ==
  [at : {"pending", "ensure", "mark", "markUser", "unmute", "tidy"},
   member : Members, post : PostRecord, pressed : Emojis]

FailStates(lists) ==
  [at : {"isMuted", "ban", "unban", "delete", "clear"},
   member : Members, message : 0 .. posted, todo : lists]

HandlerStates == ChallengeStates \union GreetStates \union PressStates
                   \union FailStates({{}}) \union {Resting}
SweeperStates == [at : {"expired"}, todo : SUBSET Expiry]
                   \union FailStates(SUBSET Expiry) \union {Resting}

States(a) == IF a = Sweeper THEN SweeperStates ELSE HandlerStates

\* Every variable keeps its type.
TypeOK ==
  /\ {inChat, muted, banned, solvedGlobally} \subseteq [Members -> BOOLEAN]
  /\ posted \in Nat /\ posts \subseteq PostRecord
  /\ joinNotices \in [Batches -> Nat] /\ leaveNotices \in [Members -> Nat]
  /\ row \in [Members -> [left : BOOLEAN, requested : {"null", "fresh", "old"},
                          emoji : Emojis \union {NoEmoji}, message : 0 .. posted,
                          solved : BOOLEAN, greeted : BOOLEAN]]
  /\ captchaOn \in Captcha /\ greeting \in Greeting
  /\ proc \in [Actors -> HandlerStates \union SweeperStates]
  /\ \A a \in Actors : proc[a] \in States(a)
  /\ {joins, claims, releases, greetings} \subseteq [Members -> Nat]
  /\ presses \in 0 .. MaxPresses /\ faults \in 0 .. MaxFaults

\* However joins, presses and sweeps overlap, a solved row carries no challenge
\* and a row without a claim carries no details, so that no sweep finds a member
\* who solved the captcha (SetCaptchaDetails and MarkCaptchaSolved).
RowsAreConsistent ==
  \A m \in Members :
    /\ row[m].solved => row[m].requested = "null"
    /\ row[m].message # 0 => row[m].requested # "null"
    /\ (row[m].message = 0) = (row[m].emoji = NoEmoji)

\* The rows are of their type, and their columns agree with each other.
RowInv == TypeOK /\ RowsAreConsistent

\* Two deliveries of a join never both hold the captcha: another challenge takes
\* another release of the claim before it (TryClaimCaptcha).
ClaimsNeedReleases == \A m \in Members : claims[m] <= 1 + releases[m]

HoldsGreeting(a, m) == /\ proc[a].at \in {"greet", "welcome", "ungreet"}
                       /\ m \in proc[a].claimed

\* Without failures a member is greeted once however often the join is
\* delivered and the member comes back, and whoever is marked as greeted was:
\* a claim that led to no message is rolled back (sendGreetingOrRollback).
GreetedOnce ==
  \A m \in Members :
    /\ greetings[m] <= 1 + faults
    /\ row[m].greeted /\ faults = 0 => \/ greetings[m] > 0
                                       \/ \E h \in Handlers : HoldsGreeting(h, m)

\* Both claims a delivery makes, the captcha's and the greeting's, are held by one
\* delivery at a time and end in a message or are given up.
ClaimsInv == ClaimsNeedReleases /\ GreetedOnce

\* Nothing the bot has received or begun concerns the captcha any more.
Quiet == /\ \A a \in Actors : proc[a] = Resting
         /\ \A S \in Batches : joinNotices[S] = 0
         /\ \A m \in Members : leaveNotices[m] = 0

\* The challenge stands in the chat and the row knows its answer.
Answerable(m) == /\ Pending(row[m])
                 /\ \E p \in posts : /\ p.id = row[m].message
                                     /\ p.member = m /\ p.emoji = row[m].emoji

FirstVisit(m) == joins[m] = 1 /\ ~solvedGlobally[m] /\ faults = 0

\* A newcomer whom the captcha silenced always has an answerable challenge once
\* the bot is done, whatever order the two deliveries, early presses and sweeps
\* came in.
NewcomerCanAnswer == Quiet => \A m \in Members :
  inChat[m] /\ muted[m] /\ FirstVisit(m) => Answerable(m)

\* Without failures a silenced newcomer answers or is removed in the end
\* (ExpirePending).
NewcomerNotStuck == \A m \in Members :
  inChat[m] /\ muted[m] /\ joins[m] = 1 ~> ~(inChat[m] /\ muted[m]) \/ faults > 0
=============================================================================

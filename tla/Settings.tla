------------------------------ MODULE Settings ------------------------------
(***************************************************************************)
(* The settings of one chat and the commands that change them: the row of  *)
(* chats and its greeting, Ingest's copy of the row, the gate every        *)
(* command passes (handlers/handlers.go), the commands' own checks and     *)
(* their statements.  The library runs each update in a goroutine of its   *)
(* own, so a command works on a copy that others' statements outdate.      *)
(*                                                                         *)
(* Free texts and joins are here as what they read of the settings; what   *)
(* they do is in Talk and MemberJoin.                                      *)
(***************************************************************************)
EXTENDS Integers, Sequences, FiniteSets

CONSTANTS
  Handlers,      \* goroutines that handle updates
  Users, Owners, \* config.Environment.BotOwners
  PrivateWith,   \* the user whose private chat this is, if it is one
  Orders,        \* what is sent: [command, value]
  Locales,       \* locale.Available()
  Modes,         \* models.GenerationModes()
  ValidTexts,    \* the greetings ValidateV2 accepts
  Labels,        \* labels of /winner enable, and prompts
  Default,       \* what a new row says of locale and mode
  None,          \* NULL, no row, no chat in the context, nobody
  AllowToAll,    \* the values of config.Environment.AllowToAll to look at
  Budget, PerChat,   \* of forEachActiveChat
  OtherChats,        \* the active chats a round may come to before this one
  MaxUpdates, MaxFaults, MaxChanges   \* bounds

\* A row of chats.
Row == [active : BOOLEAN, greeting : BOOLEAN, winner : Labels \cup {None}, captcha : BOOLEAN,
        locale : Locales, mode : Modes, random : 0 .. 50, prompt : Labels \cup {None}]

ASSUME SettingsAssumption ==
  /\ Owners \subseteq Users
  /\ Default.locale \in Locales /\ Default.mode \in Modes
  /\ None \notin Row \cup Orders \cup ValidTexts
  /\ AllowToAll \subseteq BOOLEAN
  /\ Budget \in Nat /\ PerChat \in Nat /\ OtherChats \in Nat
  /\ MaxUpdates \in Nat /\ MaxFaults \in Nat /\ MaxChanges \in Nat
  /\ \A order \in Orders : DOMAIN order = {"command", "value"}

VARIABLES
  allowToAll, \* read once at the start
  row,        \* the chat's row, or None
  text,       \* its row of greetings, or None
  admins,     \* whom Telegram lists as administrators
  handlers,   \* what each goroutine is doing
  left,       \* what the scheduler's round has left of its budget
  seen,       \* history: facts that held at some time while it was at work
  whole,      \* history: the last /greeting was alone and did not fail
  updates, faults, changes

vars == <<allowToAll, row, text, admins, handlers, left, seen, whole, updates, faults, changes>>
settings == <<row, text>>

-----------------------------------------------------------------------------
(* What the commands require and write *)

Roles == [start |-> "owner", stop |-> "owner", say |-> "owner", prompt |-> "owner",
          gab |-> "admin", greeting |-> "admin", captcha |-> "admin",
          generation |-> "everyone", lang |-> "everyone", winner |-> "everyone",
          status |-> "everyone", eightball |-> "everyone", ids |-> "everyone",
          me |-> "everyone", ping |-> "everyone"]

Commands == DOMAIN Roles

\* Mutant: /greeting is left out.
MutantNeedsEnabled == {"gab", "generation", "lang", "prompt", "status", "captcha", "winner"}

NeedsEnabled == {"gab", "generation", "greeting", "lang", "prompt", "status", "captcha", "winner"}

\* Everyone may look at these, an administrator may set them: they check inside.
ChecksInside == {"generation", "lang", "winner"}

\* Handlers that return when the ingest left no chat in the context.
NeedsChat == {"gab", "generation", "lang", "prompt", "status", "winner"}

\* The defaults of the table and of chatModelFromChat.
NewRow == [active |-> FALSE, greeting |-> FALSE, winner |-> None, captcha |-> FALSE,
           locale |-> Default.locale, mode |-> Default.mode, random |-> 0, prompt |-> None]

\* Mutant: any percentage.
MutantChances == 0 .. 100

\* What /gab accepts.
Chances == 0 .. 50

Set(column, value) == <<[column |-> column, value |-> value]>>

\* /greeting disable, and /greeting with a text.
Cleared == Set("text", None) \o Set("greeting", FALSE)

\* Mutant: a chat without a greeting gets a text and no flag.
MutantGreeting(v) == Set("text", v)

Greeting(v) == Set("text", v) \o Set("greeting", TRUE)

\* The statements of each command for what is sent with it.  What does not parse
\* has none, and so has a question.
StartSets == Set("active", TRUE)
StopSets  == Set("active", FALSE)

CaptchaSets(v) ==
  CASE v = "enable"  -> Set("captcha", TRUE)
    [] v = "disable" -> Set("captcha", FALSE)
    [] OTHER         -> <<>>

WinnerSets(v) ==
  CASE v \in Labels   -> Set("winner", v)
    [] v = "disable"  -> Set("winner", None)
    [] OTHER          -> <<>>

PromptSets(v) ==
  CASE v \in Labels   -> Set("prompt", v)
    [] v = "disable"  -> Set("prompt", None)
    [] OTHER          -> <<>>

LangSets(v)       == IF v \in Locales THEN Set("locale", v) ELSE <<>>
GenerationSets(v) == IF v \in Modes THEN Set("mode", v) ELSE <<>>
GabSets(v)        == IF v \in Chances THEN Set("random", v) ELSE <<>>

GreetingSets(v) ==
  CASE v \in ValidTexts -> Greeting(v)
    [] v = "disable"    -> Cleared
    [] OTHER            -> <<>>

Statements(order) ==
  LET v == order.value
  IN  CASE order.command = "start"      -> StartSets
        [] order.command = "stop"       -> StopSets
        [] order.command = "captcha"    -> CaptchaSets(v)
        [] order.command = "winner"     -> WinnerSets(v)
        [] order.command = "prompt"     -> PromptSets(v)
        [] order.command = "lang"       -> LangSets(v)
        [] order.command = "generation" -> GenerationSets(v)
        [] order.command = "gab"        -> GabSets(v)
        [] order.command = "greeting"   -> GreetingSets(v)
        [] OTHER -> <<>>

\* A statement done.  An UPDATE of a chat without a row changes nothing, and
\* that is no error.
Apply(statement) ==
  IF statement.column = "text"
  THEN text' = statement.value /\ UNCHANGED row
  ELSE /\ row' = IF row = None THEN None
                 ELSE [row EXCEPT ![statement.column] = statement.value]
       /\ UNCHANGED text

-----------------------------------------------------------------------------
(* Handlers *)

Begins(pc, order, user, chat) ==
  [pc |-> pc, order |-> order, user |-> user, chat |-> chat, at |-> 0]

Idle == Begins("idle", None, None, None)

Goes(h, pc) == handlers' = [handlers EXCEPT ![h].pc = pc]
Ends(h)     == handlers' = [handlers EXCEPT ![h] = Idle]

Fault == faults < MaxFaults /\ faults' = faults + 1

\* app.Enabled.
Enabled(chat) == allowToAll \/ (chat # None /\ chat.active)

\* IsChatAdmin, with the answer of GetChatAdministrators if it needs one.
IsAdmin(user, answer) == user \in Owners \/ user = PrivateWith \/ answer

\* Mutant: a call that fails denies nobody.
MutantAsk(user, allowed) ==
  \/ allowed = IsAdmin(user, user \in admins) /\ UNCHANGED faults
  \/ allowed = TRUE /\ Fault

\* The question whether user is an administrator.  A call that fails denies.
Ask(user, allowed) ==
  \/ allowed = IsAdmin(user, user \in admins) /\ UNCHANGED faults
  \/ allowed = IsAdmin(user, FALSE) /\ Fault

Receive(h, user, order) ==
  /\ updates < MaxUpdates
  /\ handlers[h] = Idle
  /\ handlers' = [handlers EXCEPT ![h] = Begins("ingest", order, user, None)]
  /\ updates' = updates + 1
  /\ UNCHANGED <<allowToAll, left, settings, admins, faults, changes>>

\* Mutant: the upsert writes every column it inserts.
MutantUpsert == IF row = None THEN NewRow
                ELSE [row EXCEPT !.locale = Default.locale, !.mode = Default.mode]

\* Chats.Upsert: a new row has the defaults, an old one keeps its settings.
Upsert == IF row = None THEN NewRow ELSE row

\* Ingest: the row is returned by the statement that upserts it.
Ingest(h) ==
  /\ handlers[h].pc = "ingest"
  /\ row' = Upsert
  /\ handlers' = [handlers EXCEPT ![h].pc = "gate", ![h].chat = Upsert]
  /\ UNCHANGED <<allowToAll, left, text, admins, updates, faults, changes>>

\* The transaction is rolled back and the update handled without a chat, or its
\* commit goes unnoticed.
IngestFails(h) ==
  /\ handlers[h].pc = "ingest"
  /\ Fault
  /\ row' \in {row, Upsert}
  /\ Goes(h, "gate")
  /\ UNCHANGED <<allowToAll, left, text, admins, updates, changes>>

\* What the gate finds about the role a command asks for.
Granted(order, user, allowed) ==
  CASE Roles[order.command] = "everyone" -> allowed = TRUE /\ UNCHANGED faults
    [] Roles[order.command] = "admin"    -> Ask(user, allowed)
    [] Roles[order.command] = "owner"    -> allowed = (user \in Owners) /\ UNCHANGED faults

\* gate.
Gate(h) ==
  LET order == handlers[h].order
  IN  /\ handlers[h].pc = "gate"
      /\ order.command \in Commands
      /\ IF order.command \in NeedsEnabled /\ ~Enabled(handlers[h].chat)
         THEN Ends(h) /\ UNCHANGED faults
         ELSE \E allowed \in BOOLEAN :
                /\ Granted(order, handlers[h].user, allowed)
                /\ IF allowed THEN Goes(h, "handle") ELSE Ends(h)
      /\ UNCHANGED <<allowToAll, left, settings, admins, updates, changes>>

\* The handler up to its first statement.
Handle(h) ==
  LET order == handlers[h].order
      user  == handlers[h].user
  IN  /\ handlers[h].pc = "handle"
      /\ IF \/ order.command \in NeedsChat /\ handlers[h].chat = None
            \/ Statements(order) = <<>>
         THEN Ends(h) /\ UNCHANGED faults
         ELSE \E allowed \in BOOLEAN :
                /\ IF order.command \in ChecksInside THEN Ask(user, allowed)
                   ELSE allowed = TRUE /\ UNCHANGED faults
                /\ IF allowed THEN handlers' = [handlers EXCEPT ![h].pc = "write", ![h].at = 1]
                   ELSE Ends(h)
      /\ UNCHANGED <<allowToAll, left, settings, admins, updates, changes>>

\* The statement h is at.
Statement(h) == Statements(handlers[h].order)[handlers[h].at]

Write(h) ==
  /\ handlers[h].pc = "write"
  /\ Apply(Statement(h))
  /\ handlers' = IF handlers[h].at = Len(Statements(handlers[h].order))
                 THEN [handlers EXCEPT ![h].pc = "confirm"]
                 ELSE [handlers EXCEPT ![h].at = @ + 1]
  /\ UNCHANGED <<allowToAll, left, admins, updates, faults, changes>>

\* The handler gives up at the first statement that fails, done or not.
WriteFails(h) ==
  /\ handlers[h].pc = "write"
  /\ Fault
  /\ Apply(Statement(h)) \/ UNCHANGED settings
  /\ Ends(h)
  /\ UNCHANGED <<allowToAll, left, admins, updates, changes>>

\* The reply that says it is set.
Confirm(h) ==
  /\ handlers[h].pc = "confirm"
  /\ Ends(h)
  /\ UNCHANGED <<allowToAll, left, settings, admins, updates, faults, changes>>

\* shouldRespond: to what is addressed to the bot, else by chance.
MayRespond(chat, addressed) == addressed \/ 0 < chat.random

\* What DefaultHandler says to a text: the dice answer a question before anybody
\* looks at the chat, if the language has answers.
MayAnswer(chat, value) ==
  /\ Enabled(chat)
  /\ value = "question" \/ (chat # None /\ MayRespond(chat, value = "mention"))

MustAnswer(chat, value) == Enabled(chat) /\ chat # None /\ value = "mention"

\* DefaultHandler with a text of somebody.
Hear(h) ==
  LET chat  == handlers[h].chat
      value == handlers[h].order.value
  IN  /\ handlers[h].pc = "gate"
      /\ handlers[h].order.command = "text"
      /\ \/ MayAnswer(chat, value) /\ Goes(h, "speak")
         \/ ~MustAnswer(chat, value) /\ Ends(h)
      /\ UNCHANGED <<allowToAll, left, settings, admins, updates, faults, changes>>

\* handleMembersJoined, as far as the greeting goes: the flag is the copy's, the
\* text is read when the newcomer's claim has been won.
Welcome(h) ==
  /\ handlers[h].pc = "gate"
  /\ handlers[h].order.command = "join"
  /\ IF handlers[h].chat # None /\ Enabled(handlers[h].chat) /\ handlers[h].chat.greeting
     THEN Goes(h, IF text = None THEN "ungreeted" ELSE "speak")
     ELSE Ends(h)
  /\ UNCHANGED <<allowToAll, left, settings, admins, updates, faults, changes>>

\* The reply, the greeting or the round's work is out.
Spoken(h) ==
  /\ handlers[h].pc \in {"speak", "ungreeted", "starved"}
  /\ Ends(h)
  /\ UNCHANGED <<allowToAll, left, settings, admins, updates, faults, changes>>

\* forEachActiveChat: the list is read once, a chat on it as it was then.  A cron
\* job does not start while its last run is still at work.
Round(h) ==
  /\ updates < MaxUpdates
  /\ handlers[h] = Idle
  /\ \A g \in Handlers : handlers[g].pc # "round"
  /\ row # None /\ row.active
  /\ handlers' = [handlers EXCEPT ![h] = Begins("round", None, None, row)]
  /\ left' = Budget
  /\ updates' = updates + 1
  /\ UNCHANGED <<allowToAll, settings, admins, faults, changes>>

\* Mutant: the job's deadline is every chat's.
MutantSlice == left

\* The longest a chat's turn can take.
Slice == IF PerChat < left THEN PerChat ELSE left

\* A chat before this one has its turn, and uses its time or not.
OtherTurn(h) ==
  /\ handlers[h].pc = "round"
  /\ handlers[h].at < OtherChats
  /\ \E used \in {0, Slice} : left' = left - used
  /\ handlers' = [handlers EXCEPT ![h].at = @ + 1]
  /\ UNCHANGED <<allowToAll, settings, admins, updates, faults, changes>>

\* This chat's turn: without any time left every call of it fails.
Turn(h) ==
  /\ handlers[h].pc = "round"
  /\ Goes(h, IF left = 0 THEN "starved" ELSE "speak")
  /\ UNCHANGED <<allowToAll, left, settings, admins, updates, faults, changes>>

\* The owner of a group makes somebody an administrator, or no longer one.
ChangeAdmins(user) ==
  /\ changes < MaxChanges
  /\ changes' = changes + 1
  /\ admins' = IF user \in admins THEN admins \ {user} ELSE admins \cup {user}
  /\ UNCHANGED <<allowToAll, left, settings, handlers, updates, faults>>

-----------------------------------------------------------------------------
(* History *)

\* What h handles; a round handles no update.
CommandOf(h) == IF handlers[h].order = None THEN "round" ELSE handlers[h].order.command

\* h is at the statements of a /greeting.
Greets(h) == handlers[h].pc = "write" /\ CommandOf(h) = "greeting"

\* What holds at this moment for h: its user is an administrator, the chat is
\* enabled, it answers by chance, another /greeting is at work, the last one
\* left text and flag apart.
Facts(h) ==
  {f \in {"admin", "active", "chatty", "mixed", "broken"} :
     LET command == CommandOf(h)
     IN  CASE f = "admin"  -> handlers[h].user \in admins
           [] f = "active" -> command \notin {"start", "stop"} /\ row # None /\ row.active
           [] f = "chatty" -> command = "text" /\ row # None /\ row.random > 0
           [] f = "mixed"  -> /\ command \in {"join", "greeting"}
                              /\ \E g \in Handlers \ {h} : Greets(g)
           [] f = "broken" -> command = "join" /\ ~whole}

\* Another command writes what h has written and not confirmed yet.
Overtaken(h) ==
  /\ handlers[h].pc = "confirm" \/ (handlers[h].pc = "write" /\ handlers[h].at > 1)
  /\ \E g \in Handlers \ {h} :
       /\ handlers[g].pc = "write" /\ handlers'[g] # handlers[g]
       /\ \E i \in DOMAIN Statements(handlers[h].order) :
            Statements(handlers[h].order)[i].column = Statement(g).column

\* h writes the last of its greeting, or gives up on it.
Greeted(h)  == Greets(h) /\ handlers'[h].pc = "confirm"
GivesUp(h)  == Greets(h) /\ handlers'[h].pc = "idle"

Observe ==
  /\ whole' = \/ \E h \in Handlers : Greeted(h) /\ row # None /\ "mixed" \notin seen[h]
              \/ /\ whole
                 /\ ~\E h \in Handlers : GivesUp(h) \/ (Greets(h) /\ row = None)
                 /\ \A g, h \in Handlers : Greets(g)' /\ Greets(h)' => g = h
  /\ seen' = [h \in Handlers |->
                IF handlers'[h].pc = "idle" THEN {}
                ELSE seen[h] \cup Facts(h)' \cup {f \in {"overtaken"} : Overtaken(h)}]

-----------------------------------------------------------------------------
\* A chat that was started, has a greeting and is answered in by chance.
Started == [active |-> TRUE, greeting |-> TRUE, winner |-> None, captcha |-> FALSE,
            locale |-> Default.locale, mode |-> Default.mode, random |-> 1, prompt |-> None]

\* A chat nobody has seen, or one that has been in use.
Init ==
  /\ allowToAll \in AllowToAll
  /\ \/ row = None /\ text = None
     \/ row = Started /\ text \in ValidTexts
  /\ admins \in SUBSET (Users \ Owners)
  /\ handlers = [h \in Handlers |-> Idle]
  /\ seen = [h \in Handlers |-> {}]
  /\ left = 0
  /\ whole = TRUE
  /\ updates = 0 /\ faults = 0 /\ changes = 0

Step ==
  \/ \E h \in Handlers :
       \/ \E user \in Users, order \in Orders : Receive(h, user, order)
       \/ Ingest(h) \/ IngestFails(h)
       \/ Gate(h) \/ Handle(h)
       \/ Write(h) \/ WriteFails(h) \/ Confirm(h)
       \/ Hear(h) \/ Welcome(h) \/ Spoken(h)
       \/ Round(h) \/ OtherTurn(h) \/ Turn(h)
  \/ \E user \in Users \ Owners : ChangeAdmins(user)

Next == Step /\ Observe

Spec == Init /\ [][Next]_vars

-----------------------------------------------------------------------------
(* Properties *)

\* The row holds what the commands accept, in particular a chance of at most 50,
\* whatever was sent.
TypeOK ==
  /\ allowToAll \in BOOLEAN
  /\ row \in Row \cup {None}
  /\ text \in ValidTexts \cup {None}
  /\ admins \in SUBSET Users
  /\ handlers \in [Handlers -> [pc : {"idle", "ingest", "gate", "handle", "write", "confirm",
                                      "speak", "ungreeted", "round", "starved"},
                                order : Orders \cup {None}, user : Users \cup {None},
                                chat : Row \cup {None}, at : Nat]]
  /\ left \in 0 .. Budget
  /\ seen \in [Handlers -> SUBSET {"admin", "active", "chatty", "mixed", "broken", "overtaken"}]
  /\ whole \in BOOLEAN
  /\ updates \in 0 .. MaxUpdates /\ faults \in 0 .. MaxFaults /\ changes \in 0 .. MaxChanges

\* A setting is written for an owner of the bot, or for somebody who was an
\* administrator of the chat while the command was handled: in spite of changes
\* under way, of failed calls, and of the two places that check.  The bot itself
\* is started, stopped and told its prompt by its owners alone.  gate,
\* RequireChatAdmin.
SetterIsEntitled ==
  \A h \in Handlers :
    handlers[h].pc \in {"write", "confirm"} =>
      LET user == handlers[h].user
      IN  \/ user \in Owners
          \/ /\ user = PrivateWith \/ "admin" \in seen[h]
             /\ handlers[h].order.command \notin {"start", "stop", "prompt"}

\* What has been stopped stays quiet: a message that came in while the chat was
\* disabled, and was handled while it stayed so, neither changes a setting but
\* by /start and /stop nor gets an answer or a greeting; and no round that began
\* then works on the chat.  app.Enabled, Chats.Active.
StoppedIsQuiet ==
  \A h \in Handlers :
    /\ handlers[h].pc \in {"write", "confirm", "speak", "ungreeted"}
    /\ CommandOf(h) \notin {"start", "stop"}
    => allowToAll \/ "active" \in seen[h]

\* What a command confirms is in the row: no message that is ingested meanwhile,
\* with the defaults it would insert, puts it back.  Another command may.  A
\* command whose own ingest failed may confirm what no row has.  Chats.Upsert.
ConfirmedIsStored ==
  \A h \in Handlers :
    /\ handlers[h].pc = "confirm"
    /\ handlers[h].chat # None
    /\ "overtaken" \notin seen[h]
    => \A i \in DOMAIN Statements(handlers[h].order) :
         LET s == Statements(handlers[h].order)[i]
         IN  IF s.column = "text" THEN text = s.value
             ELSE row # None /\ row[s.column] = s.value

\* The two statements of /greeting leave a text and its flag, or neither, once
\* one has run alone and to its end - also after others had left them apart.
\* greeting.go.
GreetingIsWhole ==
  whole /\ ~(\E h \in Handlers : Greets(h)) =>
    (text # None <=> row # None /\ row.greeting)

\* A newcomer is not left without the greeting the chat has: the flag of the
\* ingest's copy finds its text, unless a /greeting was at work or had failed
\* while the join was handled.  handleMembersJoined, greeting.Send.
NewcomerIsGreeted ==
  \A h \in Handlers :
    handlers[h].pc = "ungreeted" => seen[h] \cap {"mixed", "broken"} # {}

\* Text and flag agree where they are written and where they are read.
GreetingInv == GreetingIsWhole /\ NewcomerIsGreeted

\* With /gab 0 the bot answers only what is addressed to it, or asks the dice.
\* shouldRespond.
QuietAtZero ==
  \A h \in Handlers :
    /\ handlers[h].pc = "speak"
    /\ CommandOf(h) = "text" /\ handlers[h].order.value = "plain"
    => "chatty" \in seen[h]

\* The chat is as quiet as /stop and /gab 0 asked for, from the updates on that
\* come in after them.
QuietWhenTold == StoppedIsQuiet /\ QuietAtZero

\* One slow chat does not take the others' turns: without time is only who comes
\* after as many slow chats as the budget has slices.  forEachActiveChat.
StarvedByMany ==
  \A h \in Handlers : handlers[h].pc = "starved" => handlers[h].at * PerChat >= Budget
=============================================================================

---------------------------- MODULE SettingsProofs ----------------------------
(***************************************************************************)
(* Who sets a chat's settings, and when nothing does, for every set of     *)
(* users, handlers and orders.                                             *)
(*                                                                         *)
(* The properties are about handlers at their statements; what makes them  *)
(* inductive is what a handler has behind it at each place (Behind): the   *)
(* role the gate asked for, the question asked inside, and the fact that   *)
(* an enabled copy was enabled in the row when it was taken.  All of it    *)
(* survives the others' steps, because the facts seen only grow.           *)
(***************************************************************************)
EXTENDS Settings, TLAPS

Entitled(h) == \/ handlers[h].user \in Owners
               \/ handlers[h].user = PrivateWith
               \/ "admin" \in seen[h]

\* The chat was enabled at some time since h began.
WasEnabled(h) == allowToAll \/ "active" \in seen[h]

AtWork == {"handle", "write", "confirm"}

\* What a handler has behind it.
Behind(h) ==
  LET x == handlers[h]
  IN  /\ x.pc \in {"ingest", "gate"} \cup AtWork => x.order \in Orders
      /\ x.pc = "ingest" => x.chat = None
      /\ x.pc \notin {"idle", "ingest"} /\ x.chat # None =>
           /\ x.chat.active /\ CommandOf(h) \notin {"start", "stop"} => "active" \in seen[h]
           /\ x.chat.random > 0 /\ CommandOf(h) = "text" => "chatty" \in seen[h]
      /\ x.pc = "round" => x.order = None /\ WasEnabled(h)
      /\ x.pc \in {"speak", "ungreeted"} => WasEnabled(h)
      /\ x.pc = "speak" /\ CommandOf(h) = "text" /\ x.order.value = "plain" => "chatty" \in seen[h]
      /\ x.pc \in AtWork =>
           /\ x.order.command \in Commands
           /\ x.order.command \in NeedsEnabled => WasEnabled(h)
           /\ Roles[x.order.command] = "owner" => x.user \in Owners
           /\ Roles[x.order.command] = "admin" => Entitled(h)
      /\ x.pc \in {"write", "confirm"} =>
           /\ Statements(x.order) # <<>>
           /\ x.order.command \in ChecksInside => Entitled(h)
      /\ x.pc = "write" => x.at \in 1 .. Len(Statements(x.order))

IInv == TypeOK /\ \A h \in Handlers : Behind(h)

-----------------------------------------------------------------------------
(* Statements *)

\* What a statement may be.
Writes == [column : {"text"}, value : ValidTexts \cup {None}]
            \cup [column : {"active", "greeting", "captcha"}, value : BOOLEAN]
            \cup [column : {"winner", "prompt"}, value : Labels \cup {None}]
            \cup [column : {"locale"}, value : Locales]
            \cup [column : {"mode"}, value : Modes]
            \cup [column : {"random"}, value : 0 .. 50]

\* One statement, or the two of a greeting.
LEMMA Few ==
  /\ <<>> \in Seq(Writes) /\ Len(<<>>) = 0
  /\ \A s \in Writes : <<s>> \in Seq(Writes) /\ Len(<<s>>) = 1
  /\ \A s, t \in Writes : <<s>> \o <<t>> \in Seq(Writes) /\ Len(<<s>> \o <<t>>) = 2
OBVIOUS

\* A command's statements are at most two, and each fits its column.
LEMMA StatementsType ==
  ASSUME NEW order \in Orders
  PROVE  Statements(order) \in Seq(Writes) /\ Len(Statements(order)) <= 2
<1> DEFINE v == order.value
           S(column, value) == [column |-> column, value |-> value]
<1>1. /\ \A c \in {"active", "captcha", "greeting"} : S(c, TRUE) \in Writes /\ S(c, FALSE) \in Writes
      /\ \A c \in {"winner", "prompt"} : S(c, None) \in Writes /\ (v \in Labels => S(c, v) \in Writes)
      /\ v \in Locales => S("locale", v) \in Writes
      /\ v \in Modes => S("mode", v) \in Writes
      /\ v \in Chances => S("random", v) \in Writes
      /\ S("text", None) \in Writes /\ (v \in ValidTexts => S("text", v) \in Writes)
  BY DEF Writes, Chances
<1> DEFINE Fits(p) == p \in Seq(Writes) /\ Len(p) <= 2
<1>a. /\ Fits(<<>>)
      /\ \A s \in Writes : Fits(<<s>>)
      /\ \A s, t \in Writes : Fits(<<s>> \o <<t>>)
  BY Few
<1> SUFFICES Fits(Statements(order))
  OBVIOUS
<1> HIDE DEF Fits
<1>2. CASE order.command \in {"start", "stop"}
  <2>1. \/ Statements(order) = <<S("active", TRUE)>>
        \/ Statements(order) = <<S("active", FALSE)>>
    BY <1>2 DEF Statements, StartSets, StopSets, Set
  <2> QED
    BY <1>1, <1>a, <2>1
<1>3. CASE order.command = "captcha"
  <2>1. \/ Statements(order) = <<S("captcha", TRUE)>>
        \/ Statements(order) = <<S("captcha", FALSE)>>
        \/ Statements(order) = <<>>
    BY <1>3 DEF Statements, CaptchaSets, Set
  <2> QED
    BY <1>1, <1>a, <2>1
<1>4. CASE order.command = "winner"
  <2>1. \/ v \in Labels /\ Statements(order) = <<S("winner", v)>>
        \/ Statements(order) = <<S("winner", None)>>
        \/ Statements(order) = <<>>
    BY <1>4 DEF Statements, WinnerSets, Set
  <2> QED
    BY <1>1, <1>a, <2>1
<1>5. CASE order.command = "prompt"
  <2>1. \/ v \in Labels /\ Statements(order) = <<S("prompt", v)>>
        \/ Statements(order) = <<S("prompt", None)>>
        \/ Statements(order) = <<>>
    BY <1>5 DEF Statements, PromptSets, Set
  <2> QED
    BY <1>1, <1>a, <2>1
<1>6. CASE order.command \in {"lang", "generation", "gab"}
  <2>1. \/ v \in Locales /\ Statements(order) = <<S("locale", v)>>
        \/ v \in Modes /\ Statements(order) = <<S("mode", v)>>
        \/ v \in Chances /\ Statements(order) = <<S("random", v)>>
        \/ Statements(order) = <<>>
    BY <1>6 DEF Statements, LangSets, GenerationSets, GabSets, Set
  <2> QED
    BY <1>1, <1>a, <2>1
<1>7. CASE order.command = "greeting"
  <2>1. \/ v \in ValidTexts /\ Statements(order) = <<S("text", v)>> \o <<S("greeting", TRUE)>>
        \/ Statements(order) = <<S("text", None)>> \o <<S("greeting", FALSE)>>
        \/ Statements(order) = <<>>
    BY <1>7 DEF Statements, GreetingSets, Set, Greeting, Cleared
  <2> QED
    BY <1>1, <1>a, <2>1
<1>8. CASE order.command \notin {"start", "stop", "captcha", "winner", "prompt", "lang",
                                 "generation", "gab", "greeting"}
  <2>1. Statements(order) = <<>>
    BY <1>8 DEF Statements
  <2> QED
    BY <1>a, <2>1
<1> QED
  BY <1>2, <1>3, <1>4, <1>5, <1>6, <1>7, <1>8

\* Only these commands have statements.
LEMMA Setters ==
  ASSUME NEW order \in Orders, Statements(order) # <<>>
  PROVE  order.command \in {"start", "stop", "captcha", "winner", "prompt", "lang",
                            "generation", "gab", "greeting"}
BY DEF Statements

\* A statement leaves a row a row.
LEMMA RowKept ==
  ASSUME NEW r \in Row, NEW s \in Writes, s.column # "text"
  PROVE  [r EXCEPT ![s.column] = s.value] \in Row
<1>1. CASE s.column = "active"
  BY <1>1 DEF Row, Writes
<1>2. CASE s.column = "greeting"
  BY <1>2 DEF Row, Writes
<1>3. CASE s.column = "captcha"
  BY <1>3 DEF Row, Writes
<1>4. CASE s.column = "winner"
  BY <1>4 DEF Row, Writes
<1>5. CASE s.column = "prompt"
  BY <1>5 DEF Row, Writes
<1>6. CASE s.column = "locale"
  BY <1>6 DEF Row, Writes
<1>7. CASE s.column = "mode"
  BY <1>7 DEF Row, Writes
<1>8. CASE s.column = "random"
  BY <1>8 DEF Row, Writes
<1> QED
  BY <1>1, <1>2, <1>3, <1>4, <1>5, <1>6, <1>7, <1>8 DEF Writes

LEMMA NewRowIsRow == NewRow \in Row
BY SettingsAssumption DEF NewRow, Row

-----------------------------------------------------------------------------
(* What a step does to the facts seen *)

\* What h sees of the state a step leaves.
LEMMA Facets ==
  ASSUME NEW h \in Handlers
  PROVE  /\ handlers'[h].user \in admins' => "admin" \in Facts(h)'
         /\ CommandOf(h)' \notin {"start", "stop"} /\ row' # None /\ row'.active => "active" \in Facts(h)'
         /\ CommandOf(h)' = "text" /\ row' # None /\ row'.random > 0 => "chatty" \in Facts(h)'
<1>1. ASSUME handlers'[h].user \in admins'
      PROVE  "admin" \in Facts(h)'
  BY <1>1 DEF Facts
<1>2. ASSUME CommandOf(h)' \notin {"start", "stop"}, row' # None, row'.active
      PROVE  "active" \in Facts(h)'
  BY <1>2 DEF Facts
<1>3. ASSUME CommandOf(h)' = "text", row' # None, row'.random > 0
      PROVE  "chatty" \in Facts(h)'
  BY <1>3 DEF Facts
<1> QED
  BY <1>1, <1>2, <1>3

LEMMA SeenGrows ==
  ASSUME Observe, NEW h \in Handlers, handlers'[h].pc # "idle"
  PROVE  /\ seen[h] \subseteq seen'[h]
         /\ Facts(h)' \subseteq seen'[h]
BY DEF Observe

-----------------------------------------------------------------------------
(* Types *)

Handler == [pc : {"idle", "ingest", "gate", "handle", "write", "confirm",
                  "speak", "ungreeted", "round", "starved"},
            order : Orders \cup {None}, user : Users \cup {None},
            chat : Row \cup {None}, at : Nat]

LEMMA TypeInit == Init => TypeOK
<1> SUFFICES ASSUME Init PROVE TypeOK
  OBVIOUS
<1>1. row \in Row \cup {None} /\ text \in ValidTexts \cup {None}
  <2>1. Started \in Row
    BY SettingsAssumption DEF Started, Row
  <2> QED
    BY <2>1 DEF Init
<1>2. handlers \in [Handlers -> Handler]
  BY DEF Init, Handler, Idle, Begins
<1>3. /\ allowToAll \in BOOLEAN /\ admins \in SUBSET Users /\ whole \in BOOLEAN /\ left \in 0 .. Budget
      /\ updates \in 0 .. MaxUpdates /\ faults \in 0 .. MaxFaults /\ changes \in 0 .. MaxChanges
      /\ seen \in [Handlers -> SUBSET {"admin", "active", "chatty", "mixed", "broken", "overtaken"}]
  BY SettingsAssumption DEF Init
<1> QED
  BY <1>1, <1>2, <1>3 DEF TypeOK, Handler

\* The history has its type after every step.
LEMMA HistoryType ==
  ASSUME TypeOK, Observe
  PROVE  /\ seen' \in [Handlers -> SUBSET {"admin", "active", "chatty", "mixed", "broken", "overtaken"}]
         /\ whole' \in BOOLEAN
<1>1. ASSUME NEW h \in Handlers
      PROVE  Facts(h)' \subseteq {"admin", "active", "chatty", "mixed", "broken"}
  BY DEF Facts
<1>2. whole' \in BOOLEAN
  BY DEF Observe
<1>3. seen' \in [Handlers -> SUBSET {"admin", "active", "chatty", "mixed", "broken", "overtaken"}]
  <2>1. \A h \in Handlers : seen[h] \subseteq {"admin", "active", "chatty", "mixed", "broken", "overtaken"}
    BY DEF TypeOK
  <2> QED
    BY <1>1, <2>1 DEF Observe
<1> QED
  BY <1>2, <1>3

\* A statement at work is one of its command's.
LEMMA StatementType ==
  ASSUME IInv, NEW h \in Handlers, handlers[h].pc = "write"
  PROVE  Statement(h) \in Writes
<1>1. handlers[h].order \in Orders /\ handlers[h].at \in 1 .. Len(Statements(handlers[h].order))
  BY DEF IInv, Behind, AtWork
<1> QED
  BY <1>1, StatementsType DEF Statement

LEMMA Applied ==
  ASSUME TypeOK, NEW s \in Writes, Apply(s)
  PROVE  row' \in Row \cup {None} /\ text' \in ValidTexts \cup {None}
<1>1. CASE s.column = "text"
  BY <1>1 DEF Apply, Writes, TypeOK
<1>2. CASE s.column # "text"
  <2>1. text' \in ValidTexts \cup {None}
    BY <1>2 DEF Apply, TypeOK
  <2>2. CASE row = None
    BY <1>2, <2>1, <2>2 DEF Apply
  <2>3. CASE row # None
    <3>1. row \in Row /\ row' = [row EXCEPT ![s.column] = s.value]
      BY <1>2, <2>3 DEF Apply, TypeOK
    <3> QED
      BY <1>2, <2>1, <3>1, RowKept
  <2> QED
    BY <2>2, <2>3
<1> QED
  BY <1>1, <1>2

\* What the answer to Ask leaves of the bound on faults.
LEMMA Asked ==
  ASSUME TypeOK, NEW user, NEW allowed, Ask(user, allowed)
  PROVE  faults' \in 0 .. MaxFaults
BY SettingsAssumption DEF Ask, IsAdmin, Fault, TypeOK

LEMMA WasGranted ==
  ASSUME TypeOK, NEW order, NEW user, NEW allowed, order.command \in Commands,
         Granted(order, user, allowed)
  PROVE  /\ faults' \in 0 .. MaxFaults
         /\ Roles[order.command] = "owner" /\ allowed => user \in Owners
         /\ Roles[order.command] = "admin" => Ask(user, allowed)
<1>1. Roles[order.command] \in {"owner", "admin", "everyone"}
  BY DEF Commands, Roles
<1>2. CASE Roles[order.command] = "everyone"
  BY <1>2 DEF Granted, TypeOK
<1>3. CASE Roles[order.command] = "admin"
  BY <1>3, Asked DEF Granted
<1>4. CASE Roles[order.command] = "owner"
  BY <1>4 DEF Granted, TypeOK
<1> QED
  BY <1>1, <1>2, <1>3, <1>4

LEMMA TypeNext ==
  ASSUME IInv, Next
  PROVE  TypeOK'
<1> USE DEF IInv
<1>1. handlers \in [Handlers -> Handler]
  BY DEF TypeOK, Handler
<1>2. ASSUME handlers' \in [Handlers -> Handler], allowToAll' = allowToAll,
             row' \in Row \cup {None}, text' \in ValidTexts \cup {None},
             admins' \in SUBSET Users, left' \in 0 .. Budget,
             updates' \in 0 .. MaxUpdates, faults' \in 0 .. MaxFaults, changes' \in 0 .. MaxChanges
      PROVE  TypeOK'
  BY <1>2, HistoryType DEF Next, TypeOK, Handler
<1>i. Idle \in Handler
  BY DEF Idle, Begins, Handler
<1>3. ASSUME NEW h \in Handlers, NEW user \in Users, NEW order \in Orders, Receive(h, user, order)
      PROVE  TypeOK'
  <2>1. Begins("ingest", order, user, None) \in Handler
    BY DEF Begins, Handler
  <2> QED
    BY <1>1, <1>2, <1>3, <2>1, SettingsAssumption DEF Receive, settings, TypeOK
<1>4. ASSUME NEW h \in Handlers, Ingest(h)
      PROVE  TypeOK'
  <2>1. Upsert \in Row
    BY NewRowIsRow DEF Upsert, TypeOK
  <2>2. handlers' \in [Handlers -> Handler]
    BY <1>1, <1>4, <2>1 DEF Ingest, Handler
  <2> QED
    BY <1>2, <1>4, <2>1, <2>2 DEF Ingest, TypeOK
<1>5. ASSUME NEW h \in Handlers, IngestFails(h)
      PROVE  TypeOK'
  <2>1. Upsert \in Row
    BY NewRowIsRow DEF Upsert, TypeOK
  <2>2. handlers' \in [Handlers -> Handler]
    BY <1>1, <1>5 DEF IngestFails, Goes, Handler
  <2> QED
    BY <1>2, <1>5, <2>1, <2>2, SettingsAssumption DEF IngestFails, Fault, TypeOK
<1>6. ASSUME NEW h \in Handlers, Gate(h)
      PROVE  TypeOK'
  <2>1. handlers' \in [Handlers -> Handler]
    BY <1>1, <1>6, <1>i DEF Gate, Goes, Ends, Handler
  <2>2. faults' \in 0 .. MaxFaults
    BY <1>6, WasGranted DEF Gate, TypeOK
  <2> QED
    BY <1>2, <1>6, <2>1, <2>2 DEF Gate, settings, TypeOK
<1>7. ASSUME NEW h \in Handlers, Handle(h)
      PROVE  TypeOK'
  <2>1. handlers' \in [Handlers -> Handler]
    BY <1>1, <1>7, <1>i DEF Handle, Ends, Handler
  <2>2. faults' \in 0 .. MaxFaults
    BY <1>7, Asked DEF Handle, TypeOK
  <2> QED
    BY <1>2, <1>7, <2>1, <2>2 DEF Handle, settings, TypeOK
<1>8. ASSUME NEW h \in Handlers, Write(h)
      PROVE  TypeOK'
  <2>1. handlers' \in [Handlers -> Handler]
    <3>1. CASE handlers' = [handlers EXCEPT ![h].pc = "confirm"]
      BY <1>1, <3>1 DEF Handler
    <3>2. CASE handlers' = [handlers EXCEPT ![h].at = @ + 1]
      BY <1>1, <3>2 DEF Handler
    <3> QED
      BY <1>8, <3>1, <3>2 DEF Write
  <2>2. row' \in Row \cup {None} /\ text' \in ValidTexts \cup {None}
    BY <1>8, Applied, StatementType DEF Write
  <2> QED
    BY <1>2, <1>8, <2>1, <2>2 DEF Write, TypeOK
<1>9. ASSUME NEW h \in Handlers, WriteFails(h)
      PROVE  TypeOK'
  <2>1. handlers' \in [Handlers -> Handler]
    BY <1>1, <1>9, <1>i DEF WriteFails, Ends
  <2>2. row' \in Row \cup {None} /\ text' \in ValidTexts \cup {None}
    <3>1. CASE Apply(Statement(h))
      BY <1>9, <3>1, Applied, StatementType DEF WriteFails
    <3>2. CASE UNCHANGED settings
      BY <3>2 DEF settings, TypeOK
    <3> QED
      BY <1>9, <3>1, <3>2 DEF WriteFails
  <2> QED
    BY <1>2, <1>9, <2>1, <2>2, SettingsAssumption DEF WriteFails, Fault, TypeOK
<1>10. ASSUME NEW h \in Handlers, \/ Confirm(h) \/ Hear(h) \/ Welcome(h) \/ Spoken(h) \/ Turn(h)
       PROVE  TypeOK'
  <2>1. handlers' \in [Handlers -> Handler]
    <3>1. CASE \E pc \in {"speak", "ungreeted", "starved"} : Goes(h, pc)
      BY <1>1, <3>1 DEF Goes, Handler
    <3>2. CASE Ends(h)
      BY <1>1, <1>i, <3>2 DEF Ends
    <3> QED
      BY <1>10, <3>1, <3>2 DEF Confirm, Hear, Welcome, Spoken, Turn
  <2> QED
    BY <1>2, <1>10, <2>1 DEF Confirm, Hear, Welcome, Spoken, Turn, settings, TypeOK
<1>11. ASSUME NEW h \in Handlers, Round(h)
       PROVE  TypeOK'
  <2>1. row \in Row
    BY <1>11 DEF Round, TypeOK
  <2>2. Begins("round", None, None, row) \in Handler
    BY <2>1 DEF Begins, Handler
  <2> QED
    BY <1>1, <1>2, <1>11, <2>2, SettingsAssumption DEF Round, settings, TypeOK
<1>12. ASSUME NEW h \in Handlers, OtherTurn(h)
       PROVE  TypeOK'
  <2>1. handlers' \in [Handlers -> Handler]
    BY <1>1, <1>12 DEF OtherTurn, Handler
  <2>2. left' \in 0 .. Budget
    BY <1>12, SettingsAssumption DEF OtherTurn, Slice, TypeOK
  <2> QED
    BY <1>2, <1>12, <2>1, <2>2 DEF OtherTurn, settings, TypeOK
<1>13. ASSUME NEW user \in Users, ChangeAdmins(user)
       PROVE  TypeOK'
  BY <1>1, <1>2, <1>13, SettingsAssumption DEF ChangeAdmins, settings, TypeOK
<1> QED
  BY <1>3, <1>4, <1>5, <1>6, <1>7, <1>8, <1>9, <1>10, <1>11, <1>12, <1>13 DEF Next, Step

-----------------------------------------------------------------------------
(* What a handler has behind it stays behind it *)

LEMMA BehindInit == Init => \A h \in Handlers : Behind(h)
BY DEF Init, Behind, Idle, Begins, AtWork, CommandOf

LEMMA BehindOthers ==
  ASSUME IInv, Next, NEW g \in Handlers, handlers'[g] = handlers[g], allowToAll' = allowToAll
  PROVE  Behind(g)'
<1>1. Behind(g)
  BY DEF IInv
<1>2. CASE handlers[g].pc = "idle"
  BY <1>2 DEF Behind, AtWork
<1>3. CASE handlers[g].pc # "idle"
  <2>1. seen[g] \subseteq seen'[g]
    BY <1>3, SeenGrows DEF Next
  <2> QED
    BY <1>1, <2>1 DEF Behind, AtWork, CommandOf, Entitled, WasEnabled
<1> QED
  BY <1>2, <1>3

LEMMA BehindIdle ==
  ASSUME NEW h \in Handlers, handlers'[h] = Idle
  PROVE  Behind(h)'
BY DEF Idle, Begins, Behind, AtWork

\* What a fresh copy says is in the row.
LEMMA BehindCopy ==
  ASSUME TypeOK, Observe, NEW h \in Handlers, handlers'[h].pc # "idle",
         handlers'[h].chat # None, handlers'[h].chat = row'
  PROVE  /\ handlers'[h].chat.active /\ CommandOf(h)' \notin {"start", "stop"} => "active" \in seen'[h]
         /\ handlers'[h].chat.random > 0 /\ CommandOf(h)' = "text" => "chatty" \in seen'[h]
BY SeenGrows, Facets

\* Whom Ask lets pass is entitled: an administrator is one at this moment.
LEMMA AskedEntitled ==
  ASSUME Observe, NEW h \in Handlers, Ask(handlers[h].user, TRUE), UNCHANGED admins,
         handlers'[h].pc # "idle", handlers'[h].user = handlers[h].user
  PROVE  Entitled(h)'
<1>1. \/ handlers[h].user \in Owners
      \/ handlers[h].user = PrivateWith
      \/ handlers[h].user \in admins
  BY DEF Ask, IsAdmin
<1> QED
  BY <1>1, SeenGrows, Facets DEF Entitled

\* The steps of the handler that acts.
LEMMA BehindMover ==
  ASSUME IInv, Next, NEW h \in Handlers,
         \/ Ingest(h) \/ IngestFails(h)
         \/ Gate(h) \/ Handle(h)
         \/ Write(h) \/ WriteFails(h) \/ Confirm(h)
         \/ Hear(h) \/ Welcome(h) \/ Spoken(h)
         \/ OtherTurn(h) \/ Turn(h)
  PROVE  Behind(h)'
<1>1. handlers \in [Handlers -> Handler] /\ Behind(h) /\ Observe /\ TypeOK
  BY DEF IInv, TypeOK, Handler, Next
<1>2. CASE handlers'[h] = Idle
  BY <1>2, BehindIdle
<1>3. ASSUME handlers'[h].pc # "idle"
      PROVE  seen[h] \subseteq seen'[h]
  BY <1>1, <1>3, SeenGrows
<1>4. CASE Ingest(h)
  <2>1. /\ handlers'[h].pc = "gate" /\ handlers'[h].order = handlers[h].order
        /\ handlers'[h].chat = row'
    BY <1>1, <1>4 DEF Ingest, Handler
  <2>2. handlers'[h].order \in Orders
    BY <1>1, <1>4, <2>1 DEF Ingest, Behind
  <2> QED
    BY <1>1, <2>1, <2>2, BehindCopy DEF Behind, AtWork
<1>5. CASE IngestFails(h)
  <2>1. /\ handlers'[h].pc = "gate" /\ handlers'[h].order = handlers[h].order
        /\ handlers'[h].chat = None
    BY <1>1, <1>5 DEF IngestFails, Goes, Handler, Behind
  <2> QED
    BY <1>1, <1>5, <2>1 DEF IngestFails, Behind, AtWork
<1>6. CASE Gate(h) /\ handlers'[h] # Idle
  <2>1. /\ handlers'[h] = [handlers[h] EXCEPT !.pc = "handle"]
        /\ handlers[h].pc = "gate"
        /\ handlers[h].order.command \in Commands
        /\ handlers[h].order.command \in NeedsEnabled => Enabled(handlers[h].chat)
        /\ Granted(handlers[h].order, handlers[h].user, TRUE)
        /\ UNCHANGED <<allowToAll, admins>>
    BY <1>1, <1>6 DEF Gate, Goes, Ends
  <2>2. /\ handlers'[h].pc = "handle" /\ handlers'[h].order = handlers[h].order
        /\ handlers'[h].user = handlers[h].user /\ handlers'[h].chat = handlers[h].chat
    BY <1>1, <2>1 DEF Handler
  <2>3. Roles[handlers[h].order.command] = "owner" => handlers[h].user \in Owners
    BY <1>1, <2>1, WasGranted
  <2>4. Roles[handlers[h].order.command] = "admin" => Entitled(h)'
    BY <1>1, <2>1, <2>2, WasGranted, AskedEntitled
  <2>5. handlers[h].order.command \in NeedsEnabled => WasEnabled(h)'
    BY <1>1, <1>3, <2>1, <2>2 DEF Behind, Enabled, WasEnabled, NeedsEnabled, CommandOf
  <2> QED
    BY <1>1, <1>3, <2>1, <2>2, <2>3, <2>4, <2>5 DEF Behind, AtWork, CommandOf
<1>7. CASE Handle(h) /\ handlers'[h] # Idle
  <2>1. /\ handlers[h].pc = "handle"
        /\ handlers'[h] = [handlers[h] EXCEPT !.pc = "write", !.at = 1]
        /\ Statements(handlers[h].order) # <<>>
        /\ handlers[h].order.command \in ChecksInside => Ask(handlers[h].user, TRUE)
        /\ UNCHANGED <<allowToAll, admins>>
    BY <1>1, <1>7 DEF Handle, Ends
  <2>2. /\ handlers'[h].pc = "write" /\ handlers'[h].order = handlers[h].order
        /\ handlers'[h].user = handlers[h].user /\ handlers'[h].chat = handlers[h].chat
        /\ handlers'[h].at = 1
    BY <1>1, <2>1 DEF Handler
  <2>3. handlers[h].order.command \in ChecksInside => Entitled(h)'
    BY <1>1, <2>1, <2>2, AskedEntitled
  <2>4. handlers[h].order \in Orders
    BY <1>1, <2>1 DEF Behind, AtWork
  <2>5. 1 \in 1 .. Len(Statements(handlers[h].order))
    BY <2>1, <2>4, StatementsType
  <2> QED
    BY <1>1, <1>3, <2>1, <2>2, <2>3, <2>4, <2>5 DEF Behind, AtWork, CommandOf, Entitled, WasEnabled
<1>8. CASE Write(h)
  <2>1. /\ handlers[h].pc = "write" /\ handlers'[h].pc \in {"write", "confirm"}
        /\ handlers'[h].order = handlers[h].order
        /\ handlers'[h].user = handlers[h].user /\ handlers'[h].chat = handlers[h].chat
        /\ handlers'[h].pc = "write" => /\ handlers[h].at # Len(Statements(handlers[h].order))
                                        /\ handlers'[h].at = handlers[h].at + 1
        /\ UNCHANGED allowToAll
    <3>1. CASE handlers' = [handlers EXCEPT ![h].pc = "confirm"]
      BY <1>1, <1>8, <3>1 DEF Write, Handler
    <3>2. CASE handlers' = [handlers EXCEPT ![h].at = @ + 1]
               /\ handlers[h].at # Len(Statements(handlers[h].order))
      BY <1>1, <1>8, <3>2 DEF Write, Handler
    <3> QED
      BY <1>8, <3>1, <3>2 DEF Write
  <2>2. handlers[h].order \in Orders /\ handlers[h].at \in 1 .. Len(Statements(handlers[h].order))
    BY <1>1, <2>1 DEF Behind, AtWork
  <2>3. handlers'[h].pc = "write" => handlers'[h].at \in 1 .. Len(Statements(handlers[h].order))
    BY <2>1, <2>2, StatementsType
  <2> QED
    BY <1>1, <1>3, <2>1, <2>2, <2>3 DEF Behind, AtWork, CommandOf, Entitled, WasEnabled
<1>9. CASE \/ WriteFails(h) \/ Confirm(h) \/ Spoken(h)
  <2>1. handlers'[h] = Idle
    BY <1>1, <1>9 DEF WriteFails, Confirm, Spoken, Ends
  <2> QED
    BY <2>1, BehindIdle
<1>10. CASE Hear(h) /\ handlers'[h] # Idle
  <2>1. /\ handlers[h].pc = "gate" /\ handlers'[h] = [handlers[h] EXCEPT !.pc = "speak"]
        /\ handlers[h].order.command = "text"
        /\ MayAnswer(handlers[h].chat, handlers[h].order.value)
        /\ UNCHANGED allowToAll
    BY <1>1, <1>10 DEF Hear, Goes, Ends
  <2>2. /\ handlers'[h].pc = "speak" /\ handlers'[h].order = handlers[h].order
        /\ handlers'[h].user = handlers[h].user /\ handlers'[h].chat = handlers[h].chat
    BY <1>1, <2>1 DEF Handler
  <2>3. CommandOf(h) = "text" /\ CommandOf(h)' = "text"
    BY <1>1, <2>1, <2>2, SettingsAssumption DEF Behind, CommandOf
  <2>4. WasEnabled(h)'
    BY <1>1, <1>3, <2>1, <2>2, <2>3 DEF Behind, MayAnswer, Enabled, WasEnabled
  <2>5. handlers[h].order.value = "plain" => "chatty" \in seen'[h]
    BY <1>1, <1>3, <2>1, <2>2, <2>3 DEF Behind, MayAnswer, MayRespond
  <2> QED
    BY <1>1, <1>3, <2>1, <2>2, <2>3, <2>4, <2>5 DEF Behind, AtWork
<1>11. CASE Welcome(h) /\ handlers'[h] # Idle
  <2>1. /\ handlers[h].pc = "gate"
        /\ \E pc \in {"ungreeted", "speak"} : handlers'[h] = [handlers[h] EXCEPT !.pc = pc]
        /\ handlers[h].order.command = "join"
        /\ Enabled(handlers[h].chat) /\ handlers[h].chat # None
        /\ UNCHANGED allowToAll
    BY <1>1, <1>11 DEF Welcome, Goes, Ends
  <2>2. /\ handlers'[h].pc \in {"ungreeted", "speak"} /\ handlers'[h].order = handlers[h].order
        /\ handlers'[h].user = handlers[h].user /\ handlers'[h].chat = handlers[h].chat
    BY <1>1, <2>1 DEF Handler
  <2>3. CommandOf(h) = "join" /\ CommandOf(h)' = "join"
    BY <1>1, <2>1, <2>2, SettingsAssumption DEF Behind, CommandOf
  <2>4. WasEnabled(h)'
    BY <1>1, <1>3, <2>1, <2>2, <2>3 DEF Behind, Enabled, WasEnabled
  <2> QED
    BY <1>1, <1>3, <2>1, <2>2, <2>3, <2>4 DEF Behind, AtWork
<1>12. CASE OtherTurn(h) \/ Turn(h)
  <2>1. /\ handlers[h].pc = "round" /\ handlers'[h].pc \in {"round", "speak", "starved"}
        /\ handlers'[h].order = handlers[h].order /\ handlers'[h].chat = handlers[h].chat
        /\ UNCHANGED allowToAll
    <3>1. CASE OtherTurn(h)
      BY <1>1, <3>1 DEF OtherTurn, Handler
    <3>2. CASE Turn(h)
      BY <1>1, <3>2 DEF Turn, Goes, Handler
    <3> QED
      BY <1>12, <3>1, <3>2
  <2>2. CommandOf(h) = "round" /\ CommandOf(h)' = "round" /\ WasEnabled(h)'
    BY <1>1, <1>3, <2>1 DEF Behind, CommandOf, WasEnabled
  <2> QED
    BY <1>1, <1>3, <2>1, <2>2 DEF Behind, AtWork
<1> QED
  BY <1>2, <1>4, <1>5, <1>6, <1>7, <1>8, <1>9, <1>10, <1>11, <1>12

LEMMA BehindNext ==
  ASSUME IInv, Next
  PROVE  \A g \in Handlers : Behind(g)'
<1> SUFFICES ASSUME NEW g \in Handlers PROVE Behind(g)'
  OBVIOUS
<1>1. handlers \in [Handlers -> Handler] /\ Observe
  BY DEF IInv, TypeOK, Handler, Next
<1>2. ASSUME NEW h \in Handlers,
             \/ Ingest(h) \/ IngestFails(h)
             \/ Gate(h) \/ Handle(h)
             \/ Write(h) \/ WriteFails(h) \/ Confirm(h)
             \/ Hear(h) \/ Welcome(h) \/ Spoken(h)
             \/ OtherTurn(h) \/ Turn(h)
      PROVE  Behind(g)'
  <2>1. CASE g = h
    BY <1>2, <2>1, BehindMover
  <2>2. CASE g # h
    <3>1. allowToAll' = allowToAll
      BY <1>2 DEF Ingest, IngestFails, Gate, Handle, Write, WriteFails, Confirm, Hear, Welcome,
                  Spoken, OtherTurn, Turn
    <3>2. handlers'[g] = handlers[g]
      BY <1>1, <1>2, <2>2 DEF Ingest, IngestFails, Gate, Handle, Write, WriteFails, Confirm, Hear,
                  Welcome, Spoken, OtherTurn, Turn, Goes, Ends
    <3> QED
      BY <3>1, <3>2, BehindOthers
  <2> QED
    BY <2>1, <2>2
<1>3. ASSUME NEW h \in Handlers, NEW user \in Users, NEW order \in Orders, Receive(h, user, order)
      PROVE  Behind(g)'
  <2>1. CASE g = h
    <3>1. handlers'[h] = Begins("ingest", order, user, None)
      BY <1>1, <1>3 DEF Receive
    <3> QED
      BY <2>1, <3>1 DEF Begins, Behind, AtWork
  <2>2. CASE g # h
    BY <1>1, <1>3, <2>2, BehindOthers DEF Receive
  <2> QED
    BY <2>1, <2>2
<1>4. ASSUME NEW h \in Handlers, Round(h)
      PROVE  Behind(g)'
  <2>1. CASE g = h
    <3>1. /\ handlers'[h] = Begins("round", None, None, row)
          /\ row # None /\ row.active /\ UNCHANGED row
      BY <1>1, <1>4 DEF Round, settings
    <3>2. /\ handlers'[h].pc = "round" /\ handlers'[h].order = None /\ handlers'[h].chat = row'
          /\ CommandOf(h)' = "round"
      BY <3>1 DEF Begins, CommandOf
    <3>3. "active" \in seen'[h]
      BY <1>1, <3>1, <3>2, BehindCopy DEF IInv
    <3> QED
      BY <2>1, <3>2, <3>3 DEF Behind, AtWork, WasEnabled
  <2>2. CASE g # h
    BY <1>1, <1>4, <2>2, BehindOthers DEF Round
  <2> QED
    BY <2>1, <2>2
<1>5. ASSUME NEW user \in Users, ChangeAdmins(user)
      PROVE  Behind(g)'
  BY <1>5, BehindOthers DEF ChangeAdmins
<1> QED
  BY <1>2, <1>3, <1>4, <1>5 DEF Next, Step

\* Every handler has behind it, at each place, what its way there asked for: the
\* gate's role, the question asked inside, an enabled copy.
THEOREM Inductive == Spec => []IInv
<1>1. Init => IInv
  BY TypeInit, BehindInit DEF IInv
<1>2. IInv /\ [Next]_vars => IInv'
  <2> SUFFICES ASSUME IInv, [Next]_vars PROVE IInv'
    OBVIOUS
  <2>1. CASE Next
    BY <2>1, TypeNext, BehindNext DEF IInv
  <2>2. CASE UNCHANGED vars
    BY <2>2 DEF vars, IInv, TypeOK, Behind, AtWork, CommandOf, Entitled, WasEnabled
  <2> QED
    BY <2>1, <2>2
<1> QED
  BY <1>1, <1>2, PTL DEF Spec

-----------------------------------------------------------------------------
(* Theorems *)

\* The row never holds what no command accepts, whatever is sent by whom and in
\* which order the statements run.
THEOREM Typed == Spec => []TypeOK
<1>1. IInv => TypeOK
  BY DEF IInv
<1> QED
  BY <1>1, Inductive, PTL

\* Nobody who is not entitled sets anything: gate and RequireChatAdmin together
\* leave no command without its role checked.
THEOREM OnlyTheEntitledSet == Spec => []SetterIsEntitled
<1>1. ASSUME IInv PROVE SetterIsEntitled
  <2> SUFFICES ASSUME NEW h \in Handlers, handlers[h].pc \in {"write", "confirm"}
               PROVE  LET user == handlers[h].user
                      IN  \/ user \in Owners
                          \/ /\ user = PrivateWith \/ "admin" \in seen[h]
                             /\ handlers[h].order.command \notin {"start", "stop", "prompt"}
    BY DEF SetterIsEntitled
  <2>1. Behind(h)
    BY <1>1 DEF IInv
  <2>2. handlers[h].order.command \in {"start", "stop", "captcha", "winner", "prompt", "lang",
                                       "generation", "gab", "greeting"}
    BY <2>1, Setters DEF Behind, AtWork
  <2>3. CASE handlers[h].order.command \in {"start", "stop", "prompt"}
    BY <2>1, <2>3 DEF Behind, AtWork, Roles
  <2>4. CASE handlers[h].order.command \in {"captcha", "gab", "greeting"}
    BY <2>1, <2>4 DEF Behind, AtWork, Roles, Entitled
  <2>5. CASE handlers[h].order.command \in {"winner", "lang", "generation"}
    BY <2>1, <2>5 DEF Behind, ChecksInside, Entitled
  <2> QED
    BY <2>2, <2>3, <2>4, <2>5
<1> QED
  BY <1>1, Inductive, PTL

\* In a chat that was disabled all the time an update was handled, nothing is set
\* but by /start and /stop, and nothing answered or greeted: Ingest's copy and the
\* scheduler's list are never more enabled than the row was since.
THEOREM StoppedStaysQuiet == Spec => []StoppedIsQuiet
<1>1. ASSUME IInv PROVE StoppedIsQuiet
  <2> SUFFICES ASSUME NEW h \in Handlers,
                      handlers[h].pc \in {"write", "confirm", "speak", "ungreeted"},
                      CommandOf(h) \notin {"start", "stop"}
               PROVE  allowToAll \/ "active" \in seen[h]
    BY DEF StoppedIsQuiet
  <2>1. Behind(h)
    BY <1>1 DEF IInv
  <2>2. CASE handlers[h].pc \in {"speak", "ungreeted"}
    BY <2>1, <2>2 DEF Behind, WasEnabled
  <2>3. CASE handlers[h].pc \in {"write", "confirm"}
    <3>1. handlers[h].order \in Orders /\ Statements(handlers[h].order) # <<>>
      BY <2>1, <2>3 DEF Behind, AtWork
    <3>2. CommandOf(h) = handlers[h].order.command
      BY <3>1, SettingsAssumption DEF CommandOf
    <3>3. handlers[h].order.command \in NeedsEnabled
      BY <3>1, <3>2, Setters DEF NeedsEnabled
    <3> QED
      BY <2>1, <2>3, <3>3 DEF Behind, AtWork, WasEnabled
  <2> QED
    BY <2>2, <2>3
<1> QED
  BY <1>1, Inductive, PTL

\* At zero a plain text that is no question gets no answer: the chance is that of
\* the copy, and no copy is older than the handling of its text.
THEOREM ZeroIsQuiet == Spec => []QuietAtZero
<1>1. ASSUME IInv PROVE QuietAtZero
  BY <1>1 DEF IInv, Behind, QuietAtZero
<1> QED
  BY <1>1, Inductive, PTL

\* /stop and /gab 0 hold for every update that comes in after them, whatever
\* copies are at work.
THEOREM QuietAsTold == Spec => []QuietWhenTold
<1>1. StoppedIsQuiet /\ QuietAtZero => QuietWhenTold
  BY DEF QuietWhenTold
<1> QED
  BY <1>1, StoppedStaysQuiet, ZeroIsQuiet, PTL

-----------------------------------------------------------------------------
(* The budget of a round *)

\* At most one round is at work, and what it has spent it has spent on the chats
\* behind it, a slice on each.
RoundInv ==
  /\ \A g, h \in Handlers : handlers[g].pc = "round" /\ handlers[h].pc = "round" => g = h
  /\ \A h \in Handlers :
       /\ handlers[h].pc = "round" => left + handlers[h].at * PerChat >= Budget
       /\ handlers[h].pc = "starved" => handlers[h].at * PerChat >= Budget

\* A step that starts no round and ends no turn of another chat.
LEMMA RoundKept ==
  ASSUME TypeOK, RoundInv, UNCHANGED left,
         \A h \in Handlers : handlers'[h].pc \in {"round", "starved"} => handlers'[h] = handlers[h]
  PROVE  RoundInv'
BY DEF RoundInv

LEMMA SpentHere ==
  ASSUME NEW a \in Int, NEW b \in Int, NEW x \in Int, NEW y \in Int, NEW p \in Int, NEW m \in Int,
         b >= a - p, y = x + p, a + x >= m
  PROVE  b + y >= m
OBVIOUS

LEMMA RoundNext ==
  ASSUME IInv, RoundInv, Next
  PROVE  RoundInv'
<1>1. handlers \in [Handlers -> Handler] /\ TypeOK
  BY DEF IInv, TypeOK, Handler
<1>2. ASSUME NEW h \in Handlers,
             \/ \E user \in Users, order \in Orders : Receive(h, user, order)
             \/ Ingest(h) \/ IngestFails(h) \/ Gate(h) \/ Handle(h)
             \/ Write(h) \/ WriteFails(h) \/ Confirm(h)
             \/ Hear(h) \/ Welcome(h) \/ Spoken(h)
      PROVE  RoundInv'
  <2>1. UNCHANGED left
    BY <1>2 DEF Receive, Ingest, IngestFails, Gate, Handle, Write, WriteFails, Confirm, Hear,
                Welcome, Spoken
  <2>2. handlers'[h].pc \notin {"round", "starved"}
    <3>1. CASE \E user \in Users, order \in Orders : Receive(h, user, order)
      BY <1>1, <3>1 DEF Receive, Begins
    <3>2. CASE Ingest(h) \/ IngestFails(h)
      BY <1>1, <3>2 DEF Ingest, IngestFails, Goes, Handler
    <3>3. CASE Gate(h) \/ Handle(h)
      BY <1>1, <3>3 DEF Gate, Handle, Goes, Ends, Idle, Begins, Handler
    <3>4. CASE Write(h)
      <4>1. CASE handlers' = [handlers EXCEPT ![h].pc = "confirm"]
        BY <1>1, <4>1 DEF Handler
      <4>2. CASE handlers' = [handlers EXCEPT ![h].at = @ + 1]
        BY <1>1, <3>4, <4>2 DEF Write, Handler
      <4> QED
        BY <3>4, <4>1, <4>2 DEF Write
    <3>5. CASE WriteFails(h) \/ Confirm(h) \/ Spoken(h)
      BY <1>1, <3>5 DEF WriteFails, Confirm, Spoken, Ends, Idle, Begins
    <3>6. CASE Hear(h) \/ Welcome(h)
      BY <1>1, <3>6 DEF Hear, Welcome, Goes, Ends, Idle, Begins, Handler
    <3> QED
      BY <1>2, <3>1, <3>2, <3>3, <3>4, <3>5, <3>6
  <2>3. \A g \in Handlers \ {h} : handlers'[g] = handlers[g]
    BY <1>1, <1>2 DEF Receive, Ingest, IngestFails, Gate, Handle, Write, WriteFails, Confirm, Hear,
                Welcome, Spoken, Goes, Ends
  <2> QED
    BY <1>1, <2>1, <2>2, <2>3, RoundKept
<1>3. ASSUME NEW h \in Handlers, Round(h)
      PROVE  RoundInv'
  <2>1. /\ handlers'[h].pc = "round" /\ handlers'[h].at = 0 /\ left' = Budget
        /\ \A g \in Handlers \ {h} : handlers'[g] = handlers[g] /\ handlers[g].pc # "round"
    BY <1>1, <1>3 DEF Round, Begins
  <2> QED
    BY <2>1, SettingsAssumption DEF RoundInv
<1>4. ASSUME NEW h \in Handlers, OtherTurn(h)
      PROVE  RoundInv'
  <2>1. /\ handlers[h].pc = "round" /\ handlers'[h].pc = "round"
        /\ handlers'[h].at = handlers[h].at + 1 /\ handlers[h].at \in Nat
        /\ \A g \in Handlers \ {h} : handlers'[g] = handlers[g] /\ handlers[g].pc # "round"
    BY <1>1, <1>4 DEF OtherTurn, Handler, RoundInv
  <2>2. left' >= left - PerChat
    BY <1>4, SettingsAssumption DEF OtherTurn, Slice, IInv, TypeOK
  <2>3. handlers'[h].at * PerChat = handlers[h].at * PerChat + PerChat
    BY <2>1, SettingsAssumption
  <2>4. left' + handlers'[h].at * PerChat >= Budget
    <3>1. left + handlers[h].at * PerChat >= Budget
      BY <2>1 DEF RoundInv
    <3> DEFINE before == handlers[h].at * PerChat
               after  == handlers'[h].at * PerChat
    <3>2. before \in Int /\ after \in Int /\ after = before + PerChat
      BY <2>1, <2>3, SettingsAssumption
    <3>3. left \in Int /\ left' \in Int
      <4>1. TypeOK'
        BY TypeNext
      <4>2. \A n \in 0 .. Budget : n \in Int
        OBVIOUS
      <4>3. left \in 0 .. Budget /\ left' \in 0 .. Budget
        BY <4>1 DEF IInv, TypeOK
      <4> QED
        BY <4>2, <4>3
    <3> HIDE DEF before, after
    <3>4. left + before >= Budget
      BY <3>1 DEF before
    <3>5. left' + after >= Budget
      <4>1. PerChat \in Int /\ Budget \in Int
        BY SettingsAssumption
      <4> QED
        BY <2>2, <3>2, <3>3, <3>4, <4>1, SpentHere
    <3> QED
      BY <3>5 DEF after
  <2> QED
    BY <2>1, <2>4 DEF RoundInv
<1>5. ASSUME NEW h \in Handlers, Turn(h)
      PROVE  RoundInv'
  <2>1. /\ handlers[h].pc = "round" /\ handlers'[h].pc \in {"speak", "starved"}
        /\ handlers'[h].at = handlers[h].at /\ handlers[h].at \in Nat
        /\ handlers'[h].pc = "starved" => left = 0
        /\ \A g \in Handlers \ {h} : handlers'[g] = handlers[g]
        /\ UNCHANGED left
    BY <1>1, <1>5 DEF Turn, Goes, Handler
  <2>2. handlers'[h].pc = "starved" => handlers[h].at * PerChat >= Budget
    BY <2>1, SettingsAssumption DEF RoundInv
  <2> QED
    BY <2>1, <2>2 DEF RoundInv
<1>6. ASSUME NEW user \in Users, ChangeAdmins(user)
      PROVE  RoundInv'
  BY <1>1, <1>6, RoundKept DEF ChangeAdmins
<1> QED
  BY <1>2, <1>3, <1>4, <1>5, <1>6 DEF Next, Step

\* However long a chat takes, the ones after it keep what many slow ones would
\* have to use up: forEachActiveChat's slices.
THEOREM OneSlowChatStarvesNobody == Spec => []StarvedByMany
<1>1. Init => RoundInv
  BY DEF Init, RoundInv, Idle, Begins
<1>2. IInv /\ RoundInv /\ [Next]_vars => RoundInv'
  <2> SUFFICES ASSUME IInv, RoundInv, [Next]_vars PROVE RoundInv'
    OBVIOUS
  <2>1. CASE Next
    BY <2>1, RoundNext
  <2>2. CASE UNCHANGED vars
    BY <2>2 DEF vars, RoundInv
  <2> QED
    BY <2>1, <2>2
<1>3. RoundInv => StarvedByMany
  BY DEF RoundInv, StarvedByMany
<1> QED
  BY <1>1, <1>2, <1>3, Inductive, PTL DEF Spec

-----------------------------------------------------------------------------
(* What a command confirms *)

\* s is in the row.
Stored(s) == IF s.column = "text" THEN text = s.value
             ELSE row # None /\ row[s.column] = s.value

\* h has done its i-th statement.
Done(h, i) ==
  /\ i \in DOMAIN Statements(handlers[h].order)
  /\ \/ handlers[h].pc = "confirm"
     \/ handlers[h].pc = "write" /\ i < handlers[h].at

\* A command whose ingest left a chat has a row, and what it has done stays done
\* until another writes the same column.
Keeps(h) ==
  /\ handlers[h].chat # None => row # None
  /\ \A i \in DOMAIN Statements(handlers[h].order) :
       /\ Done(h, i) /\ handlers[h].chat # None /\ "overtaken" \notin seen[h]
       => Stored(Statements(handlers[h].order)[i])

\* The two statements of a greeting write different columns.
LEMMA Apart ==
  ASSUME NEW order \in Orders, NEW i \in DOMAIN Statements(order), NEW j \in DOMAIN Statements(order),
         i # j
  PROVE  Statements(order)[i].column # Statements(order)[j].column
<1> DEFINE v == order.value
           S(column, value) == [column |-> column, value |-> value]
<1>1. CASE order.command = "greeting"
  <2>1. \/ Statements(order) = <<S("text", v)>> \o <<S("greeting", TRUE)>>
        \/ Statements(order) = <<S("text", None)>> \o <<S("greeting", FALSE)>>
        \/ Statements(order) = <<>>
    BY <1>1 DEF Statements, GreetingSets, Greeting, Cleared, Set
  <2>2. \/ Statements(order) = <<>>
        \/ \E a, b : a.column = "text" /\ b.column = "greeting" /\ Statements(order) = <<a>> \o <<b>>
    <3>1. ASSUME Statements(order) = <<S("text", v)>> \o <<S("greeting", TRUE)>>
          PROVE  \E a, b : a.column = "text" /\ b.column = "greeting" /\ Statements(order) = <<a>> \o <<b>>
      <4> WITNESS S("text", v), S("greeting", TRUE)
      <4> QED
        BY <3>1
    <3>2. ASSUME Statements(order) = <<S("text", None)>> \o <<S("greeting", FALSE)>>
          PROVE  \E a, b : a.column = "text" /\ b.column = "greeting" /\ Statements(order) = <<a>> \o <<b>>
      <4> WITNESS S("text", None), S("greeting", FALSE)
      <4> QED
        BY <3>2
    <3> QED
      BY <2>1, <3>1, <3>2
  <2>4. ASSUME NEW a, NEW b, Statements(order) = <<a>> \o <<b>>
        PROVE  \/ Statements(order)[i] = a /\ Statements(order)[j] = b
               \/ Statements(order)[i] = b /\ Statements(order)[j] = a
    <3>1. /\ DOMAIN (<<a>> \o <<b>>) = {1, 2}
          /\ (<<a>> \o <<b>>)[1] = a /\ (<<a>> \o <<b>>)[2] = b
      OBVIOUS
    <3>2. i \in {1, 2} /\ j \in {1, 2}
      BY <2>4, <3>1
    <3> QED
      BY <2>4, <3>1, <3>2
  <2>5. Statements(order) # <<>>
    OBVIOUS
  <2>6. PICK a, b : a.column = "text" /\ b.column = "greeting" /\ Statements(order) = <<a>> \o <<b>>
    BY <2>2, <2>5
  <2>7. \/ Statements(order)[i] = a /\ Statements(order)[j] = b
        \/ Statements(order)[i] = b /\ Statements(order)[j] = a
    BY <2>4, <2>6
  <2> QED
    BY <2>6, <2>7
<1>2. CASE order.command # "greeting"
  <2>1. Len(Statements(order)) <= 1
    BY <1>2 DEF Statements, StartSets, StopSets, CaptchaSets, WinnerSets, PromptSets, LangSets,
           GenerationSets, GabSets, Set
  <2> QED
    BY <2>1, StatementsType
<1> QED
  BY <1>1, <1>2

\* Nothing takes a row away, and a statement keeps the other columns.
LEMMA AppliedKeeps ==
  ASSUME TypeOK, NEW s \in Writes, Apply(s)
  PROVE  /\ row # None => row' # None /\ Stored(s)'
         /\ \A t \in Writes : t.column # s.column /\ Stored(t) => Stored(t)'
<1>1. CASE s.column = "text"
  BY <1>1 DEF Apply, Stored
<1>2. CASE s.column # "text" /\ row = None
  BY <1>2 DEF Apply, Stored
<1>3. CASE s.column # "text" /\ row # None
  <2>1. row \in Row /\ row' = [row EXCEPT ![s.column] = s.value] /\ row' \in Row /\ UNCHANGED text
    <3>1. row \in Row
      BY <1>3 DEF TypeOK
    <3>2. row' = [row EXCEPT ![s.column] = s.value] /\ UNCHANGED text
      BY <1>3 DEF Apply
    <3>3. [row EXCEPT ![s.column] = s.value] \in Row
      BY <1>3, <3>1, RowKept
    <3> QED
      BY <3>1, <3>2, <3>3
  <2>2. row' # None
    BY <2>1, SettingsAssumption
  <2>3. \A t \in Writes : t.column # "text" => t.column \in DOMAIN row
    BY <2>1 DEF Row, Writes
  <2>4. row'[s.column] = s.value
    BY <1>3, <2>1, <2>3
  <2>5. \A t \in Writes : t.column # "text" /\ t.column # s.column => row'[t.column] = row[t.column]
    BY <2>1, <2>3
  <2> QED
    BY <1>3, <2>1, <2>2, <2>4, <2>5 DEF Stored
<1> QED
  BY <1>1, <1>2, <1>3

\* The statement another handler is at.
Writer(g) == handlers[g].pc = "write" /\ Apply(Statement(g)) /\ handlers'[g] # handlers[g]

\* Who moves, and where the settings change.
LEMMA Movers ==
  ASSUME IInv, Next
  PROVE  \/ UNCHANGED settings
         \/ row' = Upsert /\ UNCHANGED text
         \/ \E g \in Handlers : Writer(g)
<1>1. handlers \in [Handlers -> Handler]
  BY DEF IInv, TypeOK, Handler
<1>2. ASSUME NEW g \in Handlers, Ingest(g) \/ IngestFails(g)
      PROVE  \/ UNCHANGED settings
             \/ row' = Upsert /\ UNCHANGED text
  BY <1>2 DEF Ingest, IngestFails, settings
<1>3. ASSUME NEW g \in Handlers, Write(g)
      PROVE  Writer(g)
  <2>1. CASE handlers' = [handlers EXCEPT ![g].pc = "confirm"]
    BY <1>1, <1>3, <2>1 DEF Write, Writer, Handler
  <2>2. CASE handlers' = [handlers EXCEPT ![g].at = @ + 1]
    <3>1. handlers'[g].at = handlers[g].at + 1 /\ handlers[g].at \in Nat
      BY <1>1, <2>2 DEF Handler
    <3>2. handlers'[g].at # handlers[g].at
      BY <3>1
    <3> QED
      BY <1>3, <3>2 DEF Write, Writer
  <2> QED
    BY <1>3, <2>1, <2>2 DEF Write
<1>4. ASSUME NEW g \in Handlers, WriteFails(g)
      PROVE  UNCHANGED settings \/ Writer(g)
  <2>1. handlers[g].pc = "write" /\ handlers'[g].pc = "idle"
    BY <1>1, <1>4 DEF WriteFails, Ends, Idle, Begins
  <2> QED
    BY <1>4, <2>1 DEF WriteFails, Writer
<1>5. ASSUME NEW g \in Handlers,
             \/ \E user \in Users, order \in Orders : Receive(g, user, order)
             \/ Gate(g) \/ Handle(g) \/ Confirm(g)
             \/ Hear(g) \/ Welcome(g) \/ Spoken(g)
             \/ Round(g) \/ OtherTurn(g) \/ Turn(g)
      PROVE  UNCHANGED settings
  BY <1>5 DEF Receive, Gate, Handle, Confirm, Hear, Welcome, Spoken, Round, OtherTurn, Turn, settings
<1>6. ASSUME NEW user \in Users, ChangeAdmins(user)
      PROVE  UNCHANGED settings
  BY <1>6 DEF ChangeAdmins
<1> QED
  BY <1>2, <1>3, <1>4, <1>5, <1>6 DEF Next, Step

\* A row stays, and so does what is stored unless its own column is written.
LEMMA StaysStored ==
  ASSUME IInv, Next
  PROVE  /\ row # None => row' # None
         /\ \A t \in Writes :
              /\ Stored(t)
              /\ \A g \in Handlers : Writer(g) => Statement(g).column # t.column
              => Stored(t)'
<1>1. CASE UNCHANGED settings
  BY <1>1 DEF settings, Stored
<1>2. CASE row' = Upsert /\ UNCHANGED text
  <2>1. row # None => row' = row
    BY <1>2 DEF Upsert
  <2> QED
    BY <1>2, <2>1 DEF Stored
<1>3. ASSUME NEW g \in Handlers, Writer(g)
      PROVE  /\ row # None => row' # None
             /\ \A t \in Writes : Stored(t) /\ Statement(g).column # t.column => Stored(t)'
  <2>1. Statement(g) \in Writes /\ Apply(Statement(g))
    BY <1>3, StatementType DEF Writer
  <2> QED
    BY <2>1, AppliedKeeps DEF IInv
<1> QED
  BY <1>1, <1>2, <1>3, Movers

LEMMA KeepsOthers ==
  ASSUME IInv, Next, NEW h \in Handlers, Keeps(h), handlers'[h] = handlers[h]
  PROVE  Keeps(h)'
<1>1. handlers'[h].chat # None => row' # None
  BY StaysStored DEF Keeps
<1>2. ASSUME NEW i \in DOMAIN Statements(handlers[h].order),
             Done(h, i), handlers[h].chat # None, "overtaken" \notin seen'[h]
      PROVE  Stored(Statements(handlers[h].order)[i])'
  <2> DEFINE s == Statements(handlers[h].order)[i]
  <2>1. handlers[h].pc \in {"write", "confirm"}
    BY <1>2 DEF Done
  <2>2. "overtaken" \notin seen[h] /\ ~Overtaken(h)
    <3>1. handlers'[h].pc # "idle" /\ Observe
      BY <2>1 DEF Next
    <3> QED
      BY <1>2, <3>1 DEF Observe
  <2>3. Stored(s)
    BY <1>2, <2>2 DEF Keeps
  <2>4. handlers[h].order \in Orders /\ Statements(handlers[h].order) \in Seq(Writes)
    BY <2>1, StatementsType DEF IInv, Behind, AtWork
  <2>5. s \in Writes
    BY <1>2, <2>4
  <2>6. handlers[h].pc = "confirm" \/ (handlers[h].pc = "write" /\ handlers[h].at > 1)
    <3>1. handlers[h].at \in Nat /\ i \in Nat /\ i >= 1
      BY <1>2, <2>4 DEF IInv, TypeOK
    <3> QED
      BY <1>2, <3>1 DEF Done
  <2>7. ASSUME NEW g \in Handlers, Writer(g)
        PROVE  Statement(g).column # s.column
    <3>1. g # h
      BY <2>7 DEF Writer
    <3> QED
      BY <1>2, <2>2, <2>6, <2>7, <3>1 DEF Overtaken, Writer
  <2> QED
    BY <2>3, <2>5, <2>7, StaysStored
<1> QED
  BY <1>1, <1>2 DEF Keeps, Done

LEMMA KeepsIdle ==
  ASSUME NEW h \in Handlers, handlers'[h].pc \notin {"write", "confirm"},
         handlers'[h].chat # None => row' # None
  PROVE  Keeps(h)'
BY DEF Keeps, Done

LEMMA KeepsWrite ==
  ASSUME IInv, Next, NEW h \in Handlers, Keeps(h), Write(h)
  PROVE  Keeps(h)'
<1> DEFINE order == handlers[h].order
           at == handlers[h].at
<1>1. /\ handlers[h].pc = "write" /\ Apply(Statement(h))
      /\ handlers'[h].order = order /\ handlers'[h].chat = handlers[h].chat
      /\ \/ handlers'[h].pc = "confirm" /\ at = Len(Statements(order))
         \/ handlers'[h].pc = "write" /\ handlers'[h].at = at + 1
  <2>1. handlers \in [Handlers -> Handler]
    BY DEF IInv, TypeOK, Handler
  <2>2. CASE handlers' = [handlers EXCEPT ![h].pc = "confirm"] /\ at = Len(Statements(order))
    BY <2>1, <2>2 DEF Write, Handler
  <2>3. CASE handlers' = [handlers EXCEPT ![h].at = @ + 1]
    BY <2>1, <2>3 DEF Write, Handler
  <2> QED
    BY <2>2, <2>3 DEF Write
<1>2. /\ order \in Orders /\ Statements(order) \in Seq(Writes)
      /\ at \in 1 .. Len(Statements(order))
  BY <1>1, StatementsType DEF IInv, Behind, AtWork
<1>3. handlers'[h].chat # None => row' # None
  BY <1>1, StaysStored DEF Keeps
<1>4. seen[h] \subseteq seen'[h]
  BY <1>1, SeenGrows DEF Next
<1>5. ASSUME NEW i \in DOMAIN Statements(order), Done(h, i)', handlers[h].chat # None,
             "overtaken" \notin seen'[h]
      PROVE  Stored(Statements(order)[i])'
  <2>1. i \in 1 .. at
    BY <1>1, <1>2, <1>5 DEF Done
  <2>2. Statements(order)[i] \in Writes /\ Statement(h) \in Writes
    BY <1>2, <1>5 DEF Statement
  <2>3. CASE i = at
    BY <1>1, <1>5, <2>2, <2>3, AppliedKeeps DEF Keeps, Statement, IInv
  <2>4. CASE i < at
    <3>1. Stored(Statements(order)[i])
      BY <1>1, <1>4, <1>5, <2>4 DEF Keeps, Done
    <3>2. Statements(order)[i].column # Statement(h).column
      BY <1>2, <1>5, <2>4, Apart DEF Statement
    <3> QED
      BY <1>1, <2>2, <3>1, <3>2, AppliedKeeps DEF IInv
  <2> QED
    BY <1>2, <2>1, <2>3, <2>4
<1> QED
  BY <1>1, <1>3, <1>5 DEF Keeps

LEMMA KeepsNext ==
  ASSUME IInv, \A h \in Handlers : Keeps(h), Next
  PROVE  \A h \in Handlers : Keeps(h)'
<1> SUFFICES ASSUME NEW h \in Handlers PROVE Keeps(h)'
  OBVIOUS
<1>1. handlers \in [Handlers -> Handler] /\ Keeps(h)
  BY DEF IInv, TypeOK, Handler
<1>2. CASE handlers'[h] = handlers[h]
  BY <1>1, <1>2, KeepsOthers
<1>3. CASE handlers'[h] # handlers[h]
  <2>1. CASE Write(h)
    BY <1>1, <2>1, KeepsWrite
  <2>2. CASE Ingest(h) \/ IngestFails(h)
    <3>1. CASE Ingest(h)
      <4>1. handlers'[h].pc = "gate" /\ row' = Upsert
        BY <1>1, <3>1 DEF Ingest, Handler
      <4>2. row' # None
        BY <4>1, NewRowIsRow, SettingsAssumption DEF Upsert, TypeOK
      <4> QED
        BY <4>1, <4>2, KeepsIdle
    <3>2. CASE IngestFails(h)
      <4>1. handlers'[h].pc = "gate" /\ handlers'[h].chat = handlers[h].chat
        BY <1>1, <3>2 DEF IngestFails, Goes, Handler
      <4> QED
        BY <1>1, <4>1, KeepsIdle, StaysStored DEF Keeps
    <3> QED
      BY <2>2, <3>1, <3>2
  <2>3. CASE \/ Gate(h) \/ WriteFails(h) \/ Confirm(h) \/ Hear(h) \/ Welcome(h) \/ Spoken(h)
             \/ OtherTurn(h) \/ Turn(h)
    <3>1. \/ handlers'[h] = Idle
          \/ \E pc \in {"handle", "speak", "ungreeted", "starved"} :
               handlers' = [handlers EXCEPT ![h].pc = pc]
          \/ OtherTurn(h)
      BY <1>1, <2>3 DEF Gate, WriteFails, Confirm, Hear, Welcome, Spoken, Turn, Goes, Ends
    <3>2. /\ handlers'[h].pc \notin {"write", "confirm"}
          /\ handlers'[h].chat # None => handlers'[h].chat = handlers[h].chat
      <4>1. CASE handlers'[h] = Idle
        BY <4>1 DEF Idle, Begins
      <4>2. CASE \E pc \in {"handle", "speak", "ungreeted", "starved"} :
                   handlers' = [handlers EXCEPT ![h].pc = pc]
        BY <1>1, <4>2 DEF Handler
      <4>3. CASE OtherTurn(h)
        BY <1>1, <4>3 DEF OtherTurn, Handler
      <4> QED
        BY <3>1, <4>1, <4>2, <4>3
    <3> QED
      BY <1>1, <3>2, KeepsIdle, StaysStored DEF Keeps
  <2>4. CASE Handle(h)
    <3>1. \/ handlers'[h] = Idle
          \/ handlers'[h] = [handlers[h] EXCEPT !.pc = "write", !.at = 1]
      BY <1>1, <2>4 DEF Handle, Ends
    <3>2. CASE handlers'[h] = Idle
      BY <3>2, KeepsIdle DEF Idle, Begins
    <3>3. CASE handlers'[h] = [handlers[h] EXCEPT !.pc = "write", !.at = 1]
      <4>1. /\ handlers'[h].pc = "write" /\ handlers'[h].at = 1
            /\ handlers'[h].chat = handlers[h].chat /\ handlers'[h].order = handlers[h].order
        BY <1>1, <3>3 DEF Handler
      <4>2. \A i \in DOMAIN Statements(handlers[h].order) : ~(i < 1)
        <5>1. handlers[h].order \in Orders
          BY <2>4 DEF Handle, IInv, Behind, AtWork
        <5> QED
          BY <5>1, StatementsType
      <4> QED
        BY <1>1, <4>1, <4>2, StaysStored DEF Keeps, Done
    <3> QED
      BY <3>1, <3>2, <3>3
  <2>5. CASE \E user \in Users, order \in Orders : Receive(h, user, order)
    <3>1. handlers'[h].pc = "ingest" /\ handlers'[h].chat = None
      BY <1>1, <2>5 DEF Receive, Begins
    <3> QED
      BY <3>1, KeepsIdle
  <2>6. CASE Round(h)
    <3>1. handlers'[h].pc = "round" /\ row # None
      BY <1>1, <2>6 DEF Round, Begins
    <3> QED
      BY <3>1, KeepsIdle, StaysStored
  <2>7. ASSUME NEW g \in Handlers, g # h,
               \/ \E user \in Users, order \in Orders : Receive(g, user, order)
               \/ Ingest(g) \/ IngestFails(g) \/ Gate(g) \/ Handle(g)
               \/ Write(g) \/ WriteFails(g) \/ Confirm(g)
               \/ Hear(g) \/ Welcome(g) \/ Spoken(g)
               \/ Round(g) \/ OtherTurn(g) \/ Turn(g)
        PROVE  FALSE
    BY <1>1, <1>3, <2>7 DEF Receive, Ingest, IngestFails, Gate, Handle, Write, WriteFails, Confirm,
         Hear, Welcome, Spoken, Round, OtherTurn, Turn, Goes, Ends
  <2>8. ASSUME NEW user \in Users, ChangeAdmins(user)
        PROVE  FALSE
    BY <1>3, <2>8 DEF ChangeAdmins
  <2> QED
    BY <2>1, <2>2, <2>3, <2>4, <2>5, <2>6, <2>7, <2>8 DEF Next, Step
<1> QED
  BY <1>2, <1>3

\* What is confirmed is stored, for every interleaving of ingests, commands and
\* failures: of the others only a command can come between.
THEOREM ConfirmedHolds == Spec => []ConfirmedIsStored
<1> DEFINE KInv == \A h \in Handlers : Keeps(h)
<1>1. Init => KInv
  BY DEF Init, Keeps, Done, Idle, Begins
<1>2. IInv /\ KInv /\ [Next]_vars => KInv'
  <2> SUFFICES ASSUME IInv, KInv, [Next]_vars PROVE KInv'
    OBVIOUS
  <2>1. CASE Next
    BY <2>1, KeepsNext
  <2>2. CASE UNCHANGED vars
    BY <2>2 DEF vars, Keeps, Done, Stored
  <2> QED
    BY <2>1, <2>2
<1>3. KInv => ConfirmedIsStored
  BY DEF ConfirmedIsStored, Keeps, Done, Stored
<1> HIDE DEF KInv
<1> QED
  BY <1>1, <1>2, <1>3, Inductive, PTL DEF Spec

-----------------------------------------------------------------------------
(* Greetings *)

\* The row says that the chat greets; and whether there is a text to do it with.
Flag  == row # None /\ row.greeting
Agree == text # None <=> Flag

\* What is handled while another /greeting is at its statements has seen it.
SeesOthers(h) ==
  /\ handlers[h].pc # "idle" /\ CommandOf(h) \in {"join", "greeting"}
  /\ \E g \in Handlers \ {h} : Greets(g)
  => "mixed" \in seen[h]

\* Between its statements the text is the one of a greeting that nobody disturbed.
TextIsOwn(h) ==
  /\ Greets(h) /\ handlers[h].at = 2
  /\ whole \/ "mixed" \notin seen[h]
  => text = Statements(handlers[h].order)[1].value

\* As long as the greetings came one after the other, text and flag agree up to
\* the first statement of the next.
WholeAgrees ==
  whole => /\ \A g, h \in Handlers : Greets(g) /\ Greets(h) => g = h
           /\ (\A h \in Handlers : Greets(h) => handlers[h].at = 1) => Agree

\* A join whose copy has the flag finds the text, or has seen why not.
JoinFinds(h) ==
  /\ handlers[h].pc = "gate" /\ CommandOf(h) = "join"
  /\ handlers[h].chat # None /\ handlers[h].chat.greeting
  => text # None \/ seen[h] \cap {"mixed", "broken"} # {}

Greetings ==
  /\ \A h \in Handlers : SeesOthers(h) /\ TextIsOwn(h) /\ JoinFinds(h)
  /\ WholeAgrees
  /\ NewcomerIsGreeted

\* /greeting writes a text and then the flag that goes with it.
LEMMA TwoStatements ==
  ASSUME NEW order \in Orders, order.command = "greeting", Statements(order) # <<>>
  PROVE  LET s == Statements(order)[1]
             t == Statements(order)[2]
         IN  /\ Len(Statements(order)) = 2
             /\ s.column = "text" /\ t.column = "greeting"
             /\ \/ s.value \in ValidTexts /\ t.value = TRUE
                \/ s.value = None /\ t.value = FALSE
<1> DEFINE v == order.value
           S(column, value) == [column |-> column, value |-> value]
<1>1. ASSUME NEW a, NEW b, Statements(order) = <<a>> \o <<b>>
      PROVE  Len(Statements(order)) = 2 /\ Statements(order)[1] = a /\ Statements(order)[2] = b
  <2>1. Len(<<a>> \o <<b>>) = 2 /\ (<<a>> \o <<b>>)[1] = a /\ (<<a>> \o <<b>>)[2] = b
    OBVIOUS
  <2> QED
    BY <1>1, <2>1
<1>2. \/ v \in ValidTexts /\ Statements(order) = <<S("text", v)>> \o <<S("greeting", TRUE)>>
      \/ Statements(order) = <<S("text", None)>> \o <<S("greeting", FALSE)>>
  BY DEF Statements, GreetingSets, Greeting, Cleared, Set
<1>3. /\ S("text", v).column = "text" /\ S("text", v).value = v
      /\ S("text", None).column = "text" /\ S("text", None).value = None
      /\ S("greeting", TRUE).column = "greeting" /\ S("greeting", TRUE).value = TRUE
      /\ S("greeting", FALSE).column = "greeting" /\ S("greeting", FALSE).value = FALSE
  OBVIOUS
<1> HIDE DEF S, v
<1>4. CASE v \in ValidTexts /\ Statements(order) = <<S("text", v)>> \o <<S("greeting", TRUE)>>
  <2>1. /\ Len(Statements(order)) = 2
        /\ Statements(order)[1] = S("text", v)
        /\ Statements(order)[2] = S("greeting", TRUE)
    BY <1>1, <1>4
  <2> QED
    BY <1>3, <1>4, <2>1
<1>5. CASE Statements(order) = <<S("text", None)>> \o <<S("greeting", FALSE)>>
  <2>1. /\ Len(Statements(order)) = 2
        /\ Statements(order)[1] = S("text", None)
        /\ Statements(order)[2] = S("greeting", FALSE)
    BY <1>1, <1>5
  <2> QED
    BY <1>3, <2>1
<1> QED
  BY <1>2, <1>4, <1>5

\* No other command writes either.
LEMMA OtherColumns ==
  ASSUME NEW order \in Orders, order.command # "greeting", NEW i \in DOMAIN Statements(order)
  PROVE  Statements(order)[i].column \notin {"text", "greeting"}
<1> DEFINE v == order.value
           S(column, value) == [column |-> column, value |-> value]
<1>1. ASSUME NEW c, NEW value, c \notin {"text", "greeting"}, Statements(order) = <<S(c, value)>>
      PROVE  Statements(order)[i].column \notin {"text", "greeting"}
  <2>1. i = 1
    BY <1>1
  <2> QED
    BY <1>1, <2>1
<1>2. Statements(order) # <<>>
  OBVIOUS
<1>3. CASE order.command \in {"start", "stop"}
  <2>1. \/ Statements(order) = <<S("active", TRUE)>>
        \/ Statements(order) = <<S("active", FALSE)>>
    BY <1>3 DEF Statements, StartSets, StopSets, Set
  <2> QED
    BY <1>1, <2>1
<1>4. CASE order.command = "captcha"
  <2>1. \/ Statements(order) = <<S("captcha", TRUE)>>
        \/ Statements(order) = <<S("captcha", FALSE)>>
    BY <1>2, <1>4 DEF Statements, CaptchaSets, Set
  <2> QED
    BY <1>1, <2>1
<1>5. CASE order.command = "winner"
  <2>1. \/ Statements(order) = <<S("winner", v)>>
        \/ Statements(order) = <<S("winner", None)>>
    BY <1>2, <1>5 DEF Statements, WinnerSets, Set
  <2> QED
    BY <1>1, <2>1
<1>6. CASE order.command = "prompt"
  <2>1. \/ Statements(order) = <<S("prompt", v)>>
        \/ Statements(order) = <<S("prompt", None)>>
    BY <1>2, <1>6 DEF Statements, PromptSets, Set
  <2> QED
    BY <1>1, <2>1
<1>7. CASE order.command \in {"lang", "generation", "gab"}
  <2>1. \/ Statements(order) = <<S("locale", v)>>
        \/ Statements(order) = <<S("mode", v)>>
        \/ Statements(order) = <<S("random", v)>>
    BY <1>2, <1>7 DEF Statements, LangSets, GenerationSets, GabSets, Set
  <2> QED
    BY <1>1, <2>1
<1> QED
  BY <1>2, <1>3, <1>4, <1>5, <1>6, <1>7, Setters

\* A handler at the statements of a /greeting.
LEMMA Greeter ==
  ASSUME IInv, NEW h \in Handlers, Greets(h)
  PROVE  /\ handlers[h].pc = "write" /\ handlers[h].order \in Orders
         /\ handlers[h].order.command = "greeting"
         /\ Statements(handlers[h].order) # <<>>
         /\ handlers[h].at \in {1, 2}
<1>1. /\ handlers[h].pc = "write" /\ handlers[h].order \in Orders
      /\ Statements(handlers[h].order) # <<>>
      /\ handlers[h].at \in 1 .. Len(Statements(handlers[h].order))
  BY DEF Greets, IInv, Behind, AtWork
<1>2. handlers[h].order.command = "greeting"
  <2>1. handlers[h].order # None
    BY <1>1, SettingsAssumption
  <2> QED
    BY <2>1 DEF Greets, CommandOf
<1>3. handlers[h].at \in {1, 2}
  <2>1. Len(Statements(handlers[h].order)) = 2
    BY <1>1, <1>2, TwoStatements
  <2> QED
    BY <1>1, <2>1
<1> QED
  BY <1>1, <1>2, <1>3

\* A step is one handler's.
LEMMA OneMoves ==
  ASSUME IInv, Next, NEW g \in Handlers, NEW h \in Handlers,
         handlers'[g] # handlers[g], handlers'[h] # handlers[h]
  PROVE  g = h
<1>1. handlers \in [Handlers -> Handler]
  BY DEF IInv, TypeOK, Handler
<1>2. ASSUME NEW k \in Handlers,
             \/ \E user \in Users, order \in Orders : Receive(k, user, order)
             \/ Ingest(k) \/ IngestFails(k) \/ Gate(k) \/ Handle(k)
             \/ Write(k) \/ WriteFails(k) \/ Confirm(k)
             \/ Hear(k) \/ Welcome(k) \/ Spoken(k)
             \/ Round(k) \/ OtherTurn(k) \/ Turn(k)
      PROVE  g = k /\ h = k
  BY <1>1, <1>2 DEF Receive, Ingest, IngestFails, Gate, Handle, Write, WriteFails, Confirm,
       Hear, Welcome, Spoken, Round, OtherTurn, Turn, Goes, Ends
<1>3. ASSUME NEW user \in Users, ChangeAdmins(user)
      PROVE  FALSE
  BY <1>3 DEF ChangeAdmins
<1> QED
  BY <1>2, <1>3 DEF Next, Step

\* What a greeting's handler does next.
LEMMA GreeterMoves ==
  ASSUME IInv, Next, NEW h \in Handlers, Greets(h), handlers'[h] # handlers[h]
  PROVE  Write(h) \/ WriteFails(h)
<1>1. handlers \in [Handlers -> Handler]
  BY DEF IInv, TypeOK, Handler
<1>2. handlers[h].pc = "write"
  BY Greeter
<1>3. ASSUME NEW k \in Handlers,
             \/ \E user \in Users, order \in Orders : Receive(k, user, order)
             \/ Ingest(k) \/ IngestFails(k) \/ Gate(k) \/ Handle(k) \/ Confirm(k)
             \/ Hear(k) \/ Welcome(k) \/ Spoken(k)
             \/ Round(k) \/ OtherTurn(k) \/ Turn(k)
      PROVE  FALSE
  <2>1. k # h
    BY <1>2, <1>3 DEF Receive, Ingest, IngestFails, Gate, Handle, Confirm, Idle, Begins,
         Hear, Welcome, Spoken, Round, OtherTurn, Turn
  <2> QED
    BY <1>1, <1>3, <2>1 DEF Receive, Ingest, IngestFails, Gate, Handle, Confirm,
         Hear, Welcome, Spoken, Round, OtherTurn, Turn, Goes, Ends
<1>4. ASSUME NEW k \in Handlers, Write(k) \/ WriteFails(k), k # h
      PROVE  FALSE
  BY <1>1, <1>4 DEF Write, WriteFails, Ends
<1>5. ASSUME NEW user \in Users, ChangeAdmins(user)
      PROVE  FALSE
  BY <1>5 DEF ChangeAdmins
<1> QED
  BY <1>3, <1>4, <1>5 DEF Next, Step

\* Who is at the first statement of a greeting and was not, has just come there.
LEMMA GreeterComes ==
  ASSUME IInv, Next, NEW h \in Handlers, Greets(h)', ~Greets(h)
  PROVE  handlers'[h].at = 1 /\ UNCHANGED settings
<1>1. handlers \in [Handlers -> Handler]
  BY DEF IInv, TypeOK, Handler
<1>2. handlers'[h].pc = "write" /\ handlers'[h] # handlers[h]
  BY DEF Greets, CommandOf
<1>3. CASE Handle(h)
  <2>1. \/ handlers'[h] = Idle
        \/ handlers'[h] = [handlers[h] EXCEPT !.pc = "write", !.at = 1]
    BY <1>1, <1>3 DEF Handle, Ends
  <2>2. handlers'[h] # Idle
    BY <1>2 DEF Idle, Begins
  <2>3. UNCHANGED settings
    BY <1>3 DEF Handle
  <2> QED
    BY <1>1, <2>1, <2>2, <2>3 DEF Handler
<1>4. CASE Write(h)
  <2>1. CASE handlers' = [handlers EXCEPT ![h].pc = "confirm"]
    BY <1>1, <1>2, <2>1 DEF Handler
  <2>2. CASE handlers' = [handlers EXCEPT ![h].at = @ + 1]
    BY <1>1, <1>4, <2>2 DEF Handler, Greets, CommandOf, Write
  <2> QED
    BY <1>4, <2>1, <2>2 DEF Write
<1>5. ASSUME \/ \E user \in Users, order \in Orders : Receive(h, user, order)
             \/ Ingest(h) \/ IngestFails(h) \/ Gate(h) \/ WriteFails(h) \/ Confirm(h)
             \/ Hear(h) \/ Welcome(h) \/ Spoken(h)
             \/ Round(h) \/ OtherTurn(h) \/ Turn(h)
      PROVE  FALSE
  BY <1>1, <1>2, <1>5 DEF Receive, Ingest, IngestFails, Gate, WriteFails, Confirm, Idle, Begins,
       Hear, Welcome, Spoken, Round, OtherTurn, Turn, Goes, Ends, Handler
<1>6. ASSUME NEW k \in Handlers, k # h,
             \/ \E user \in Users, order \in Orders : Receive(k, user, order)
             \/ Ingest(k) \/ IngestFails(k) \/ Gate(k) \/ Handle(k)
             \/ Write(k) \/ WriteFails(k) \/ Confirm(k)
             \/ Hear(k) \/ Welcome(k) \/ Spoken(k)
             \/ Round(k) \/ OtherTurn(k) \/ Turn(k)
      PROVE  FALSE
  BY <1>1, <1>2, <1>6 DEF Receive, Ingest, IngestFails, Gate, Handle, Write, WriteFails, Confirm,
       Hear, Welcome, Spoken, Round, OtherTurn, Turn, Goes, Ends
<1>7. ASSUME NEW user \in Users, ChangeAdmins(user)
      PROVE  FALSE
  BY <1>2, <1>7 DEF ChangeAdmins
<1> QED
  BY <1>3, <1>4, <1>5, <1>6, <1>7 DEF Next, Step

\* Text and flag change at the statements of a /greeting only.
LEMMA GreetingsAlone ==
  ASSUME IInv, Next
  PROVE  \/ text' = text /\ (Flag' <=> Flag)
         \/ \E g \in Handlers : Greets(g) /\ Writer(g)
<1>1. CASE UNCHANGED settings
  BY <1>1 DEF settings, Flag
<1>2. CASE row' = Upsert /\ UNCHANGED text
  BY <1>2, SettingsAssumption, NewRowIsRow DEF Upsert, Flag, NewRow
<1>3. ASSUME NEW g \in Handlers, Writer(g), ~Greets(g)
      PROVE  text' = text /\ (Flag' <=> Flag)
  <2>1. /\ handlers[g].order \in Orders /\ Statement(g) \in Writes
        /\ handlers[g].at \in DOMAIN Statements(handlers[g].order)
    <3>1. /\ handlers[g].pc = "write" /\ handlers[g].order \in Orders
          /\ handlers[g].at \in 1 .. Len(Statements(handlers[g].order))
      BY <1>3 DEF Writer, IInv, Behind, AtWork
    <3> QED
      BY <1>3, <3>1, StatementType, StatementsType DEF Writer
  <2>2. handlers[g].order.command # "greeting"
    BY <1>3, <2>1, SettingsAssumption DEF Greets, CommandOf, Writer
  <2>3. Statement(g).column \notin {"text", "greeting"}
    BY <2>1, <2>2, OtherColumns DEF Statement
  <2>4. /\ row' = IF row = None THEN None ELSE [row EXCEPT ![Statement(g).column] = Statement(g).value]
        /\ text' = text
    BY <1>3, <2>3 DEF Writer, Apply
  <2>5. CASE row = None
    BY <2>4, <2>5 DEF Flag
  <2>6. CASE row # None
    <3>1. row \in Row
      BY <2>6 DEF IInv, TypeOK
    <3>2. row' \in Row
      BY <2>1, <2>3, <2>4, <2>6, <3>1, RowKept
    <3>3. row'.greeting = row.greeting
      BY <2>3, <2>4, <2>6, <3>1 DEF Row
    <3> QED
      BY <2>4, <2>6, <3>2, <3>3, SettingsAssumption DEF Flag
  <2> QED
    BY <2>5, <2>6
<1> QED
  BY <1>1, <1>2, <1>3, Movers

\* A greeting's own steps: the text, then the flag, or giving up on either.
LEMMA GreeterWrites ==
  ASSUME IInv, Next, NEW h \in Handlers, Greets(h), handlers'[h] # handlers[h]
  PROVE  \/ /\ handlers[h].at = 1 /\ Greets(h)' /\ handlers'[h].at = 2
            /\ handlers'[h].order = handlers[h].order
            /\ text' = Statements(handlers[h].order)[1].value
            /\ Flag' <=> Flag
         \/ /\ handlers[h].at = 2 /\ handlers'[h].pc = "confirm"
            /\ text' = text
            /\ row # None => (Flag' <=> Statements(handlers[h].order)[2].value)
         \/ handlers'[h].pc = "idle"
<1> DEFINE order == handlers[h].order
           at == handlers[h].at
<1>1. handlers \in [Handlers -> Handler] /\ handlers[h] \in Handler
  BY DEF IInv, TypeOK, Handler
<1>2. /\ handlers[h].pc = "write" /\ order \in Orders /\ order.command = "greeting"
      /\ Statements(order) # <<>> /\ at \in {1, 2} /\ CommandOf(h) = "greeting"
  BY Greeter DEF Greets
<1>3. CASE WriteFails(h)
  BY <1>1, <1>3 DEF WriteFails, Ends, Idle, Begins
<1>4. CASE Write(h) /\ at = 1
  <2>1. /\ Statement(h).column = "text"
        /\ Statement(h) = Statements(order)[1]
        /\ Len(Statements(order)) = 2
    BY <1>2, <1>4, TwoStatements DEF Statement
  <2>2. text' = Statements(order)[1].value /\ UNCHANGED row
    BY <1>4, <2>1 DEF Write, Apply
  <2>3. handlers' = [handlers EXCEPT ![h].at = @ + 1]
    BY <1>4, <2>1 DEF Write
  <2>4. handlers'[h].at = 2 /\ handlers'[h].order = order /\ handlers'[h].pc = "write"
    BY <1>1, <1>2, <1>4, <2>3 DEF Handler
  <2>5. Greets(h)'
    BY <1>2, <2>4 DEF Greets, CommandOf
  <2> QED
    BY <1>4, <2>2, <2>4, <2>5 DEF Flag
<1>5. CASE Write(h) /\ at = 2
  <2>1. /\ Statement(h).column = "greeting"
        /\ Statement(h).value = Statements(order)[2].value
        /\ Len(Statements(order)) = 2
    BY <1>2, <1>5, TwoStatements DEF Statement
  <2>2. /\ text' = text
        /\ row' = IF row = None THEN None ELSE [row EXCEPT ![Statement(h).column] = Statement(h).value]
    BY <1>5, <2>1 DEF Write, Apply
  <2>3. row # None => (Flag' <=> Statements(order)[2].value)
    <3> SUFFICES ASSUME row # None PROVE Flag' <=> Statements(order)[2].value
      OBVIOUS
    <3>1. row \in Row /\ Statement(h) \in Writes /\ Statement(h).column # "text"
      BY <1>2, <2>1, StatementType DEF IInv, TypeOK
    <3>2. row' \in Row
      BY <2>2, <3>1, RowKept
    <3>3. row'.greeting = Statements(order)[2].value
      BY <2>1, <2>2, <3>1 DEF Row
    <3> QED
      BY <3>2, <3>3, SettingsAssumption DEF Flag
  <2>4. handlers'[h].pc = "confirm"
    BY <1>1, <1>5, <2>1 DEF Write, Handler
  <2> QED
    BY <1>5, <2>2, <2>3, <2>4
<1> QED
  BY <1>2, <1>3, <1>4, <1>5, GreeterMoves

\* The parts, one by one.
LEMMA SeesOthersNext ==
  ASSUME Next, NEW h \in Handlers
  PROVE  SeesOthers(h)'
<1> SUFFICES ASSUME handlers'[h].pc # "idle", CommandOf(h)' \in {"join", "greeting"},
                    \E g \in Handlers \ {h} : Greets(g)'
             PROVE  "mixed" \in seen'[h]
  BY DEF SeesOthers
<1>1. "mixed" \in Facts(h)'
  BY DEF Facts
<1> QED
  BY <1>1, SeenGrows DEF Next

\* Who changes the text or the flag of an undisturbed greeting is itself.
LEMMA Undisturbed ==
  ASSUME IInv, Greetings, Next, NEW h \in Handlers, Greets(h), whole \/ "mixed" \notin seen[h],
         handlers'[h] = handlers[h]
  PROVE  text' = text /\ (Flag' <=> Flag)
<1>1. ASSUME NEW g \in Handlers, Greets(g)
      PROVE  g = h
  <2>1. CASE whole
    BY <1>1, <2>1 DEF Greetings, WholeAgrees
  <2>2. CASE "mixed" \notin seen[h]
    BY <1>1, <2>2 DEF Greetings, SeesOthers, Greets
  <2> QED
    BY <2>1, <2>2
<1> QED
  BY <1>1, GreetingsAlone DEF Writer

\* A greeting that ends undisturbed is the only one.
LEMMA EndsAlone ==
  ASSUME IInv, Greetings, Next, NEW h \in Handlers, Greeted(h), "mixed" \notin seen[h]
  PROVE  \A g \in Handlers : ~Greets(g)'
<1>1. handlers[h].pc = "write" /\ CommandOf(h) = "greeting" /\ handlers'[h].pc = "confirm"
  BY DEF Greeted, Greets
<1>2. ASSUME NEW g \in Handlers, Greets(g)'
      PROVE  FALSE
  <2>1. g # h
    BY <1>1, <1>2 DEF Greets
  <2>2. ~Greets(g)
    BY <1>1, <2>1 DEF Greetings, SeesOthers
  <2>3. handlers'[g] # handlers[g]
    BY <1>2, <2>2 DEF Greets, CommandOf
  <2> QED
    BY <1>1, <2>1, <2>3, OneMoves
<1> QED
  BY <1>2

LEMMA TextIsOwnNext ==
  ASSUME IInv, Greetings, Next, NEW h \in Handlers
  PROVE  TextIsOwn(h)'
<1> SUFFICES ASSUME Greets(h)', handlers'[h].at = 2, whole' \/ "mixed" \notin seen'[h]
             PROVE  text' = Statements(handlers'[h].order)[1].value
  BY DEF TextIsOwn
<1>1. Greets(h)
  BY GreeterComes
<1>2. whole \/ "mixed" \notin seen[h]
  <2>1. handlers'[h].pc # "idle"
    BY DEF Greets
  <2>2. CASE "mixed" \notin seen'[h]
    BY <2>1, <2>2, SeenGrows DEF Next
  <2>3. CASE whole'
    <3>1. CASE \E g \in Handlers : Greeted(g) /\ row # None /\ "mixed" \notin seen[g]
      BY <3>1, EndsAlone
    <3>2. CASE whole
      BY <3>2
    <3> QED
      BY <2>3, <3>1, <3>2 DEF Next, Observe
  <2> QED
    BY <2>2, <2>3
<1>3. CASE handlers'[h] = handlers[h]
  BY <1>1, <1>2, <1>3, Undisturbed DEF Greetings, TextIsOwn
<1>4. CASE handlers'[h] # handlers[h]
  <2>1. handlers'[h].pc = "write"
    BY DEF Greets
  <2> QED
    BY <1>1, <1>4, <2>1, GreeterWrites
<1> QED
  BY <1>3, <1>4

\* A greeting that is finished leaves text and flag in agreement.
LEMMA EndsInAgreement ==
  ASSUME IInv, Greetings, Next, NEW h \in Handlers, Greeted(h), row # None,
         whole \/ "mixed" \notin seen[h]
  PROVE  Agree'
<1> DEFINE order == handlers[h].order
<1>1. /\ Greets(h) /\ handlers'[h].pc = "confirm" /\ handlers'[h] # handlers[h]
      /\ order \in Orders /\ order.command = "greeting" /\ Statements(order) # <<>>
  BY Greeter DEF Greeted
<1>2. ~Greets(h)'
  BY <1>1 DEF Greets
<1>3. handlers[h].at = 2 /\ text' = text /\ (Flag' <=> Statements(order)[2].value)
  BY <1>1, <1>2, GreeterWrites
<1>4. text = Statements(order)[1].value
  BY <1>1, <1>3 DEF Greetings, TextIsOwn
<1>5. \/ text # None /\ Statements(order)[2].value = TRUE
      \/ text = None /\ Statements(order)[2].value = FALSE
  BY <1>1, <1>4, TwoStatements, SettingsAssumption
<1> QED
  BY <1>3, <1>5 DEF Agree

LEMMA WholeAgreesNext ==
  ASSUME IInv, Greetings, Next
  PROVE  WholeAgrees'
<1> SUFFICES ASSUME whole'
             PROVE  /\ \A g, h \in Handlers : Greets(g)' /\ Greets(h)' => g = h
                    /\ (\A h \in Handlers : Greets(h)' => handlers'[h].at = 1) => Agree'
  BY DEF WholeAgrees
<1>1. CASE \E h \in Handlers : Greeted(h) /\ row # None /\ "mixed" \notin seen[h]
  BY <1>1, EndsAlone, EndsInAgreement
<1>2. CASE /\ whole
           /\ ~\E h \in Handlers : GivesUp(h) \/ (Greets(h) /\ row = None)
           /\ \A g, h \in Handlers : Greets(g)' /\ Greets(h)' => g = h
  <2> SUFFICES ASSUME \A h \in Handlers : Greets(h)' => handlers'[h].at = 1
               PROVE  Agree'
    BY <1>2
  <2>1. CASE \E h \in Handlers : Greets(h) /\ handlers'[h] # handlers[h]
    <3>1. PICK h \in Handlers : Greets(h) /\ handlers'[h] # handlers[h]
      BY <2>1
    <3>2. ~(Greets(h)' /\ handlers'[h].at = 2) /\ handlers'[h].pc # "idle" /\ row # None
      BY <1>2, <3>1 DEF GivesUp
    <3>3. Greeted(h)
      BY <3>1, <3>2, GreeterWrites DEF Greeted
    <3> QED
      BY <1>2, <3>2, <3>3, EndsInAgreement
  <2>2. CASE ~\E h \in Handlers : Greets(h) /\ handlers'[h] # handlers[h]
    <3>1. text' = text /\ (Flag' <=> Flag)
      BY <2>2, GreetingsAlone DEF Writer
    <3>2. ASSUME NEW h \in Handlers, Greets(h)
          PROVE  handlers[h].at = 1
      <4>1. handlers'[h] = handlers[h]
        BY <2>2, <3>2
      <4>2. Greets(h)'
        BY <3>2, <4>1 DEF Greets, CommandOf
      <4> QED
        BY <4>1, <4>2
    <3>3. Agree
      BY <1>2, <3>2 DEF Greetings, WholeAgrees
    <3> QED
      BY <3>1, <3>3 DEF Agree
  <2> QED
    BY <2>1, <2>2
<1> QED
  BY <1>1, <1>2 DEF Next, Observe

\* A join comes to the gate with the row its ingest returned.
LEMMA JoinArrives ==
  ASSUME IInv, Next, NEW h \in Handlers, handlers'[h] # handlers[h],
         handlers'[h].pc = "gate", handlers'[h].chat # None
  PROVE  row' = handlers'[h].chat /\ row' \in Row
<1>1. handlers \in [Handlers -> Handler]
  BY DEF IInv, TypeOK, Handler
<1>2. CASE Ingest(h)
  <2>1. Upsert \in Row
    BY NewRowIsRow DEF Upsert, IInv, TypeOK
  <2> QED
    BY <1>1, <1>2, <2>1 DEF Ingest, Handler
<1>3. CASE IngestFails(h)
  <2>1. handlers[h].chat = None
    BY <1>3 DEF IngestFails, IInv, Behind
  <2>2. handlers'[h].chat = handlers[h].chat
    BY <1>1, <1>3 DEF IngestFails, Goes, Handler
  <2> QED
    BY <2>1, <2>2
<1>4. ASSUME \/ \E user \in Users, order \in Orders : Receive(h, user, order)
             \/ Gate(h) \/ Handle(h) \/ Write(h) \/ WriteFails(h) \/ Confirm(h)
             \/ Hear(h) \/ Welcome(h) \/ Spoken(h)
             \/ Round(h) \/ OtherTurn(h) \/ Turn(h)
      PROVE  FALSE
  <2>1. handlers'[h].pc = "gate"
    OBVIOUS
  <2>2. CASE \/ \E user \in Users, order \in Orders : Receive(h, user, order)
             \/ Gate(h) \/ WriteFails(h) \/ Confirm(h) \/ Hear(h) \/ Welcome(h) \/ Spoken(h)
             \/ Round(h) \/ Turn(h)
    BY <1>1, <2>1, <2>2 DEF Receive, Gate, WriteFails, Confirm, Idle, Begins,
         Hear, Welcome, Spoken, Round, Turn, Goes, Ends, Handler
  <2>3. CASE OtherTurn(h)
    BY <1>1, <2>1, <2>3 DEF OtherTurn, Handler
  <2>4. CASE Handle(h)
    <3>1. \/ handlers'[h] = Idle
          \/ handlers'[h] = [handlers[h] EXCEPT !.pc = "write", !.at = 1]
      BY <1>1, <2>4 DEF Handle, Ends
    <3>2. handlers'[h] = Idle => handlers'[h].pc = "idle"
      BY DEF Idle, Begins
    <3>3. ASSUME handlers'[h] = [handlers[h] EXCEPT !.pc = "write", !.at = 1]
          PROVE  handlers'[h].pc = "write"
      BY <1>1, <3>3 DEF Handler
    <3> QED
      BY <2>1, <3>1, <3>2, <3>3
  <2>5. CASE Write(h)
    <3>1. \/ handlers' = [handlers EXCEPT ![h].pc = "confirm"]
          \/ handlers' = [handlers EXCEPT ![h].at = @ + 1]
      BY <2>5 DEF Write
    <3> QED
      BY <1>1, <2>1, <2>5, <3>1 DEF Write, Handler
  <2> QED
    BY <1>4, <2>2, <2>3, <2>4, <2>5
<1>5. ASSUME NEW k \in Handlers, k # h,
             \/ \E user \in Users, order \in Orders : Receive(k, user, order)
             \/ Ingest(k) \/ IngestFails(k) \/ Gate(k) \/ Handle(k)
             \/ Write(k) \/ WriteFails(k) \/ Confirm(k)
             \/ Hear(k) \/ Welcome(k) \/ Spoken(k)
             \/ Round(k) \/ OtherTurn(k) \/ Turn(k)
      PROVE  FALSE
  BY <1>1, <1>5 DEF Receive, Ingest, IngestFails, Gate, Handle, Write, WriteFails, Confirm,
       Hear, Welcome, Spoken, Round, OtherTurn, Turn, Goes, Ends
<1>6. ASSUME NEW user \in Users, ChangeAdmins(user)
      PROVE  FALSE
  BY <1>6 DEF ChangeAdmins
<1> QED
  BY <1>2, <1>3, <1>4, <1>5, <1>6 DEF Next, Step

LEMMA JoinFindsNext ==
  ASSUME IInv, Greetings, Next, NEW h \in Handlers
  PROVE  JoinFinds(h)'
<1> SUFFICES ASSUME handlers'[h].pc = "gate", CommandOf(h)' = "join",
                    handlers'[h].chat # None, handlers'[h].chat.greeting
             PROVE  text' # None \/ seen'[h] \cap {"mixed", "broken"} # {}
  BY DEF JoinFinds
<1>1. seen[h] \subseteq seen'[h] /\ Facts(h)' \subseteq seen'[h]
  BY SeenGrows DEF Next
<1>2. CASE handlers'[h] = handlers[h]
  <2>1. CommandOf(h) = "join"
    BY <1>2 DEF CommandOf
  <2>2. text # None \/ seen[h] \cap {"mixed", "broken"} # {}
    BY <1>2, <2>1 DEF Greetings, JoinFinds
  <2>3. CASE text' = text
    BY <1>1, <2>2, <2>3
  <2>4. CASE \E g \in Handlers : Greets(g)
    <3>1. PICK g \in Handlers : Greets(g)
      BY <2>4
    <3>2. g # h
      BY <2>1, <3>1 DEF Greets
    <3>3. "mixed" \in seen[h]
      BY <1>2, <2>1, <3>1, <3>2 DEF Greetings, SeesOthers
    <3> QED
      BY <1>1, <3>3
  <2> QED
    BY <2>3, <2>4, GreetingsAlone
<1>3. CASE handlers'[h] # handlers[h]
  <2>1. row' = handlers'[h].chat /\ row' \in Row
    BY <1>3, JoinArrives
  <2>2. Flag'
    BY <2>1, SettingsAssumption DEF Flag
  <2>3. CASE \E g \in Handlers \ {h} : Greets(g)'
    <3>1. "mixed" \in Facts(h)'
      BY <2>3 DEF Facts
    <3> QED
      BY <1>1, <3>1
  <2>4. CASE ~whole'
    <3>1. "broken" \in Facts(h)'
      BY <2>4 DEF Facts
    <3> QED
      BY <1>1, <3>1
  <2>5. CASE whole' /\ \A g \in Handlers \ {h} : ~Greets(g)'
    <3>1. \A g \in Handlers : ~Greets(g)'
      BY <2>5 DEF Greets
    <3>2. Agree'
      BY <2>5, <3>1, WholeAgreesNext DEF WholeAgrees
    <3> QED
      BY <2>2, <3>2 DEF Agree
  <2> QED
    BY <2>3, <2>4, <2>5
<1> QED
  BY <1>2, <1>3

LEMMA GreetedNext ==
  ASSUME IInv, Greetings, Next
  PROVE  NewcomerIsGreeted'
<1> SUFFICES ASSUME NEW h \in Handlers, handlers'[h].pc = "ungreeted"
             PROVE  seen'[h] \cap {"mixed", "broken"} # {}
  BY DEF NewcomerIsGreeted
<1>0. handlers \in [Handlers -> Handler]
  BY DEF IInv, TypeOK, Handler
<1>1. seen[h] \subseteq seen'[h]
  BY SeenGrows DEF Next
<1>2. CASE handlers'[h] = handlers[h]
  BY <1>1, <1>2 DEF Greetings, NewcomerIsGreeted
<1>3. CASE Welcome(h)
  <2>1. /\ handlers[h].pc = "gate" /\ CommandOf(h) = "join"
        /\ handlers[h].chat # None /\ handlers[h].chat.greeting /\ text = None
    <3>1. /\ handlers[h].pc = "gate" /\ handlers[h].order.command = "join"
          /\ handlers[h].order \in Orders
      BY <1>3 DEF Welcome, IInv, Behind
    <3>2. handlers[h].order # None
      BY <3>1, SettingsAssumption
    <3>3. CommandOf(h) = "join"
      BY <3>1, <3>2 DEF CommandOf
    <3>4. handlers'[h].pc # "idle" /\ handlers'[h].pc # "speak"
      OBVIOUS
    <3>5. /\ handlers[h].chat # None /\ handlers[h].chat.greeting
          /\ handlers' = [handlers EXCEPT ![h].pc = IF text = None THEN "ungreeted" ELSE "speak"]
      BY <1>0, <1>3, <3>4 DEF Welcome, Goes, Ends, Idle, Begins
    <3>6. text = None
      BY <1>0, <3>4, <3>5 DEF Handler
    <3> QED
      BY <3>1, <3>3, <3>5, <3>6
  <2> QED
    BY <1>1, <2>1 DEF Greetings, JoinFinds
<1>4. CASE \/ \E user \in Users, order \in Orders : Receive(h, user, order)
           \/ Ingest(h) \/ IngestFails(h) \/ Gate(h) \/ WriteFails(h) \/ Confirm(h)
           \/ Hear(h) \/ Spoken(h) \/ Round(h) \/ Turn(h)
  BY <1>0, <1>4 DEF Receive, Ingest, IngestFails, Gate, WriteFails, Confirm, Idle, Begins,
       Hear, Spoken, Round, Turn, Goes, Ends, Handler
<1>5. CASE OtherTurn(h)
  BY <1>0, <1>5 DEF OtherTurn, Handler
<1>6. CASE Handle(h)
  <2>1. \/ handlers'[h] = Idle
        \/ handlers'[h] = [handlers[h] EXCEPT !.pc = "write", !.at = 1]
    BY <1>0, <1>6 DEF Handle, Ends
  <2>2. handlers'[h] = Idle => handlers'[h].pc = "idle"
    BY DEF Idle, Begins
  <2>3. ASSUME handlers'[h] = [handlers[h] EXCEPT !.pc = "write", !.at = 1]
        PROVE  handlers'[h].pc = "write"
    BY <1>0, <2>3 DEF Handler
  <2> QED
    BY <2>1, <2>2, <2>3
<1>7. CASE Write(h)
  <2>1. \/ handlers' = [handlers EXCEPT ![h].pc = "confirm"]
        \/ handlers' = [handlers EXCEPT ![h].at = @ + 1]
    BY <1>7 DEF Write
  <2> QED
    BY <1>0, <1>7, <2>1 DEF Write, Handler
<1>8. ASSUME NEW k \in Handlers, k # h, handlers'[h] # handlers[h],
             \/ \E user \in Users, order \in Orders : Receive(k, user, order)
             \/ Ingest(k) \/ IngestFails(k) \/ Gate(k) \/ Handle(k)
             \/ Write(k) \/ WriteFails(k) \/ Confirm(k)
             \/ Hear(k) \/ Welcome(k) \/ Spoken(k)
             \/ Round(k) \/ OtherTurn(k) \/ Turn(k)
      PROVE  FALSE
  BY <1>0, <1>8 DEF Receive, Ingest, IngestFails, Gate, Handle, Write, WriteFails, Confirm,
       Hear, Welcome, Spoken, Round, OtherTurn, Turn, Goes, Ends
<1>9. ASSUME NEW user \in Users, ChangeAdmins(user)
      PROVE  handlers'[h] = handlers[h]
  BY <1>9 DEF ChangeAdmins
<1> QED
  BY <1>2, <1>3, <1>4, <1>5, <1>6, <1>7, <1>8, <1>9 DEF Next, Step

\* Text and flag agree where they are written, once a /greeting has run alone and
\* to its end, and a newcomer whose copy of the chat has the flag finds the text,
\* unless a /greeting was at work or had failed: for every number of handlers and
\* every interleaving.
THEOREM GreetingsAgree == Spec => []GreetingInv
<1>1. Init => Greetings
  <2> SUFFICES ASSUME Init PROVE Greetings
    OBVIOUS
  <2>1. \A h \in Handlers : handlers[h].pc = "idle"
    BY DEF Init, Idle, Begins
  <2>2. Agree
    <3>1. Started \in Row /\ Started.greeting
      BY SettingsAssumption DEF Started, Row
    <3>2. Started # None /\ None \notin ValidTexts
      BY <3>1, SettingsAssumption
    <3>3. CASE row = None /\ text = None
      BY <3>3 DEF Agree, Flag
    <3>4. CASE row = Started /\ text \in ValidTexts
      BY <3>1, <3>2, <3>4 DEF Agree, Flag
    <3> QED
      BY <3>3, <3>4 DEF Init
  <2> QED
    BY <2>1, <2>2 DEF Greetings, SeesOthers, TextIsOwn, JoinFinds, WholeAgrees, NewcomerIsGreeted, Greets
<1>2. IInv /\ Greetings /\ [Next]_vars => Greetings'
  <2> SUFFICES ASSUME IInv, Greetings, [Next]_vars PROVE Greetings'
    OBVIOUS
  <2>1. CASE Next
    BY <2>1, SeesOthersNext, TextIsOwnNext, JoinFindsNext, WholeAgreesNext, GreetedNext DEF Greetings
  <2>2. CASE UNCHANGED vars
    BY <2>2 DEF vars, Greetings, SeesOthers, TextIsOwn, JoinFinds, WholeAgrees, NewcomerIsGreeted,
         Greets, CommandOf, Agree, Flag
  <2> QED
    BY <2>1, <2>2
<1>3. Greetings => GreetingInv
  BY DEF Greetings, WholeAgrees, GreetingInv, GreetingIsWhole, Agree, Flag
<1> QED
  BY <1>1, <1>2, <1>3, Inductive, PTL DEF Spec
=============================================================================

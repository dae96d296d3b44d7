----------------------------- MODULE NeuralLedger -----------------------------
(***************************************************************************)
(* The client of the language models: a chain of providers tried in order, *)
(* each with a daily limit kept in one ledger in memory.  Handlers walk    *)
(* the reply chain and the queue's worker the summary chain, all at once,  *)
(* sharing the ledger by provider name.  A call reserves a unit, asks the  *)
(* server for a free slot, sends its request, and gives the unit back when *)
(* it has no usable answer; midnight or a restart may fall anywhere.       *)
(***************************************************************************)
EXTENDS Integers, FiniteSets, Sequences

CONSTANTS
    Repliers,       \* goroutines of message handlers, which use the reply chain
    Worker,         \* the goroutine of the summary queue, which uses the other
    Names,          \* provider names, the keys of the ledger
    ReplyChain,     \* the configured chains: sequences of providers
    SummaryChain,
    MaxDay          \* the calendar days of an instance are 1 .. MaxDay

Days == 1 .. MaxDay

\* The day of an entry that was never written, and of an uncounted reservation.
NoDay == 0

Callers == Repliers \cup {Worker}

\* What the ledger and the walk use of a provider's configuration.
Provider == [name : Names, limit : Int, slotCheck : BOOLEAN]

ASSUME LedgerAssumption ==
    /\ IsFiniteSet(Repliers)
    /\ ReplyChain \in Seq(Provider)
    /\ SummaryChain \in Seq(Provider)
    /\ MaxDay \in Nat \ {0}

VARIABLES
    today,      \* the calendar day of the process's clock
    ledger,     \* name -> day and count of its entry
    call,       \* caller -> where its walk along the chain stands
    spent       \* name -> day -> answers paid for that day (history, per process)

vars == <<today, ledger, call, spent>>

-----------------------------------------------------------------------------
(* A caller's position.                                                    *)

Idle == [at |-> "idle", next |-> 1, day |-> NoDay]

Chain(c) == IF c = Worker THEN SummaryChain ELSE ReplyChain

\* The provider a caller has reached, while there is one.
Exhausted(c) == call[c].next > Len(Chain(c))
Current(c) == Chain(c)[call[c].next]

Limited(p) == p.limit > 0

InFlight == {"slots", "request", "release"}

\* The callers that hold a unit of a name's budget for a day.
Holding(n, d) ==
    {c \in Callers : /\ call[c].at \in InFlight
                     /\ Current(c).name = n
                     /\ call[c].day = d}

-----------------------------------------------------------------------------
(* The ledger.                                                             *)

MutantEntryToday(n) == ledger[n]    \* yesterday's count is carried over

\* The entry as reserve sees it: yesterday's counts for nothing.
EntryToday(n) ==
    IF ledger[n].day = today THEN ledger[n] ELSE [day |-> today, count |-> 0]

MutantHasBudget(p) == EntryToday(p.name).count <= p.limit    \* one call too many

HasBudget(p) == EntryToday(p.name).count < p.limit

\* A unit taken from nothing, and one taken from another day's count.
MutantReturned(n, d) == [ledger[n] EXCEPT !.count = @ - 1]
MutantReturnedToday(n, d) ==
    IF ledger[n].count > 0 THEN [ledger[n] EXCEPT !.count = @ - 1] ELSE ledger[n]

\* The entry after a unit of a reservation day comes back: an entry that has
\* moved on to another day is left alone.
Returned(n, d) ==
    IF ledger[n].day = d /\ ledger[n].count > 0
    THEN [ledger[n] EXCEPT !.count = @ - 1]
    ELSE ledger[n]

-----------------------------------------------------------------------------
(* The walk.                                                               *)

Init ==
    /\ today = 1
    /\ ledger = [n \in Names |-> [day |-> NoDay, count |-> 0]]
    /\ call = [c \in Callers |-> Idle]
    /\ spent = [n \in Names |-> [d \in Days |-> 0]]

Begin(c) ==
    /\ call[c].at = "idle"
    /\ call' = [call EXCEPT ![c].at = "provider"]
    /\ UNCHANGED <<today, ledger, spent>>

AfterReserve(p) == IF p.slotCheck THEN "slots" ELSE "request"

\* A provider without a limit leaves the ledger alone.
ReserveUnlimited(c) ==
    /\ call[c].at = "provider" /\ ~Exhausted(c)
    /\ ~Limited(Current(c))
    /\ call' = [call EXCEPT ![c] = [at |-> AfterReserve(Current(c)), next |-> @.next, day |-> NoDay]]
    /\ UNCHANGED <<today, ledger, spent>>

Reserve(c) ==
    /\ call[c].at = "provider" /\ ~Exhausted(c)
    /\ Limited(Current(c)) /\ HasBudget(Current(c))
    /\ ledger' = [ledger EXCEPT ![Current(c).name] =
                      [day |-> today, count |-> EntryToday(Current(c).name).count + 1]]
    /\ call' = [call EXCEPT ![c] = [at |-> AfterReserve(Current(c)), next |-> @.next, day |-> today]]
    /\ UNCHANGED <<today, spent>>

\* The budget is used up: the next provider is tried, nothing to give back.
Refused(c) ==
    /\ call[c].at = "provider" /\ ~Exhausted(c)
    /\ Limited(Current(c)) /\ ~HasBudget(Current(c))
    /\ call' = [call EXCEPT ![c].next = @ + 1]
    /\ UNCHANGED <<today, ledger, spent>>

SlotFree(c) ==
    /\ call[c].at = "slots"
    /\ call' = [call EXCEPT ![c].at = "request"]
    /\ UNCHANGED <<today, ledger, spent>>

\* Every slot busy, the health check failed, or the caller's context ended.
NoSlot(c) ==
    /\ call[c].at = "slots"
    /\ call' = [call EXCEPT ![c].at = "release"]
    /\ UNCHANGED <<today, ledger, spent>>

\* A usable answer ends the walk and keeps its unit.
Answer(c) ==
    /\ call[c].at = "request"
    /\ spent' = IF call[c].day = NoDay THEN spent
                ELSE [spent EXCEPT ![Current(c).name][call[c].day] = @ + 1]
    /\ call' = [call EXCEPT ![c] = Idle]
    /\ UNCHANGED <<today, ledger>>

\* A timeout, a bad status, no choices, or nothing left of the text.
RequestFails(c) ==
    /\ call[c].at = "request"
    /\ call' = [call EXCEPT ![c].at = "release"]
    /\ UNCHANGED <<today, ledger, spent>>

\* The deferred release, then the next provider of the chain.
Release(c) ==
    /\ call[c].at = "release"
    /\ ledger' = IF Limited(Current(c))
                 THEN [ledger EXCEPT ![Current(c).name] = Returned(Current(c).name, call[c].day)]
                 ELSE ledger
    /\ call' = [call EXCEPT ![c] = [at |-> "provider", next |-> @.next + 1, day |-> NoDay]]
    /\ UNCHANGED <<today, spent>>

\* ErrUnavailable: the caller falls back to the classic generator, or retries.
GiveUp(c) ==
    /\ call[c].at = "provider" /\ Exhausted(c)
    /\ call' = [call EXCEPT ![c] = Idle]
    /\ UNCHANGED <<today, ledger, spent>>

-----------------------------------------------------------------------------
(* The environment.                                                        *)

Midnight ==
    /\ today < MaxDay
    /\ today' = today + 1
    /\ UNCHANGED <<ledger, call, spent>>

\* The ledger lives in memory: a new process starts with an empty one.
Restart ==
    /\ ledger' = [n \in Names |-> [day |-> NoDay, count |-> 0]]
    /\ call' = [c \in Callers |-> Idle]
    /\ spent' = [n \in Names |-> [d \in Days |-> 0]]
    /\ UNCHANGED today

Step(c) ==
    \/ Begin(c)
    \/ ReserveUnlimited(c) \/ Reserve(c) \/ Refused(c)
    \/ SlotFree(c) \/ NoSlot(c)
    \/ Answer(c) \/ RequestFails(c)
    \/ Release(c) \/ GiveUp(c)

Next == (\E c \in Callers : Step(c)) \/ Midnight \/ Restart

Spec == Init /\ [][Next]_vars

-----------------------------------------------------------------------------
(* Properties.                                                             *)

\* Entries count from zero, calls stand at a provider of their chain.
TypeOK ==
    /\ today \in Days
    /\ ledger \in [Names -> [day : Days \cup {NoDay}, count : Nat]]
    /\ call \in [Callers -> [at : {"idle", "provider"} \cup InFlight,
                             next : Nat \ {0}, day : Days \cup {NoDay}]]
    /\ spent \in [Names -> [Days -> Nat]]
    /\ \A c \in Callers : call[c].at \in InFlight => ~Exhausted(c)

\* The ledger's books balance (reserve, and the deferred release of call): what
\* an entry counts is exactly the answers paid for on its day and the calls that
\* may still give their unit back, whoever released what across a midnight.
LedgerAccounts ==
    \A n \in Names :
        IF ledger[n].day = NoDay
        THEN ledger[n].count = 0
        ELSE ledger[n].count =
                 spent[n][ledger[n].day] + Cardinality(Holding(n, ledger[n].day))

\* k units of a name fit a limit configured for it in some chain.
WithinLimit(n, k) ==
    \/ k = 0
    \/ \E c \in Callers : \E i \in DOMAIN Chain(c) :
           Chain(c)[i].name = n /\ k <= Chain(c)[i].limit

\* No day's budget is overdrawn: the answers paid for on a day and the calls
\* still at work for it never exceed the limit of the provider's name, with
\* all callers reserving and releasing at once (DailyLimit in provider.go).
CapHolds ==
    \A n \in Names, d \in Days :
        WithinLimit(n, spent[n][d] + Cardinality(Holding(n, d)))

\* A provider is passed over for its limit only when that many of today's units
\* are paid for or at work: a failed call, an answerless one, or one reserved
\* yesterday costs nothing (limits.go, the comment of release).
RefusalIsJust ==
    [][\A c \in Callers :
           Refused(c) =>
               LET n == Current(c).name
               IN  spent[n][today] + Cardinality(Holding(n, today)) >= Current(c).limit]_vars
=============================================================================

-------------------------- MODULE NeuralLedgerProofs --------------------------
(***************************************************************************)
(* The ledger's books balance and no daily limit is overdrawn, for every   *)
(* number of callers, every pair of chains and every number of days.       *)
(*                                                                         *)
(* LedgerAccounts is not inductive.  A reservation on a new day starts     *)
(* counting at one, which is right only if nothing is held or paid for on  *)
(* a day its entry has not reached (NothingAhead); a release must find its *)
(* own unit in the count, so a call at work holds a day exactly if its     *)
(* provider is limited (UnitsHeld).                                        *)
(***************************************************************************)
EXTENDS NeuralLedger, FiniteSetTheorems, TLAPS

NothingAhead ==
    \A n \in Names :
        /\ ledger[n].day <= today
        /\ \A d \in Days : d > ledger[n].day => spent[n][d] = 0 /\ Holding(n, d) = {}

UnitsHeld ==
    \A c \in Callers :
        call[c].at \in InFlight =>
            /\ Limited(Current(c)) <=> call[c].day # NoDay
            /\ call[c].day <= today

IInv == TypeOK /\ NothingAhead /\ UnitsHeld /\ LedgerAccounts /\ CapHolds

-----------------------------------------------------------------------------
(* Chains and holders.                                                     *)

\* The provider a caller has reached is one of its chain's.
LEMMA CurrentType ==
  ASSUME TypeOK, NEW c \in Callers, ~Exhausted(c)
  PROVE  /\ call[c].next \in DOMAIN Chain(c)
         /\ Current(c) \in Provider
<1>1. Chain(c) \in Seq(Provider)
  BY LedgerAssumption DEF Chain
<1>2. call[c].next \in Nat \ {0}
  BY DEF TypeOK
<1> QED
  BY <1>1, <1>2 DEF Exhausted, Current

\* There are finitely many holders of any unit.
LEMMA HoldersFinite ==
  ASSUME NEW n, NEW d
  PROVE  IsFiniteSet(Holding(n, d)) /\ Cardinality(Holding(n, d)) \in Nat
<1>1. IsFiniteSet(Callers)
  BY LedgerAssumption, FS_AddElement DEF Callers
<1>2. Holding(n, d) \in SUBSET Callers
  BY DEF Holding
<1>3. IsFiniteSet(Holding(n, d))
  BY <1>1, <1>2, FS_Subset
<1> QED
  BY <1>3, FS_CardinalityType

\* Adding a holder adds one.
LEMMA OneMoreHolder ==
  ASSUME NEW S, NEW T, NEW c, IsFiniteSet(S), c \notin S, T = S \cup {c}
  PROVE  Cardinality(T) = Cardinality(S) + 1
BY FS_AddElement

\* Taking a holder away takes one.
LEMMA OneHolderLess ==
  ASSUME NEW S, NEW T, NEW c, IsFiniteSet(S), c \in S, T = S \ {c}
  PROVE  Cardinality(S) >= 1 /\ Cardinality(T) = Cardinality(S) - 1
<1>1. Cardinality(T) = Cardinality(S) - 1 /\ IsFiniteSet(T)
  BY FS_RemoveElement
<1>2. Cardinality(T) \in Nat /\ Cardinality(S) \in Nat
  BY <1>1, FS_CardinalityType
<1> QED
  BY <1>1, <1>2

\* A position v of caller c holds a unit of n's budget for day d.
Holds(c, v, n, d) ==
    v.at \in InFlight /\ Chain(c)[v.next].name = n /\ v.day = d

\* A caller's step changes no other caller's part in any unit.
LEMMA OthersHold ==
  ASSUME TypeOK, NEW c \in Callers, NEW v, call' = [call EXCEPT ![c] = v],
         NEW n, NEW d
  PROVE  /\ c \in Holding(n, d)' => Holding(n, d)' = Holding(n, d) \cup {c}
         /\ c \notin Holding(n, d)' => Holding(n, d)' = Holding(n, d) \ {c}
         /\ c \in Holding(n, d)' <=> Holds(c, v, n, d)
<1>1. \A b \in Callers : b # c => call'[b] = call[b]
  BY DEF TypeOK
<1>2. call'[c] = v
  BY DEF TypeOK
<1>3. \A b \in Callers : b # c => (b \in Holding(n, d)' <=> b \in Holding(n, d))
  BY <1>1 DEF Holding, Current, Chain
<1>4. Holding(n, d)' \subseteq Callers /\ Holding(n, d) \subseteq Callers
  BY DEF Holding
<1>5. c \in Holding(n, d)' <=> Holds(c, v, n, d)
  BY <1>2 DEF Holding, Holds, Current, Chain
<1> QED
  BY <1>3, <1>4, <1>5

\* A position taken that holds the unit adds the caller to its holders, ...
LEMMA Joins ==
  ASSUME TypeOK, NEW c \in Callers, NEW v, call' = [call EXCEPT ![c] = v],
         NEW n, NEW d, Holds(c, v, n, d)
  PROVE  Holding(n, d)' = Holding(n, d) \cup {c}
BY OthersHold

\* ... and one that does not takes it away.
LEMMA Leaves ==
  ASSUME TypeOK, NEW c \in Callers, NEW v, call' = [call EXCEPT ![c] = v],
         NEW n, NEW d, ~Holds(c, v, n, d)
  PROVE  Holding(n, d)' = Holding(n, d) \ {c}
BY OthersHold

-----------------------------------------------------------------------------
(* Types.                                                                  *)

\* The initial state has the types.
LEMMA TypeInit == Init => TypeOK
BY LedgerAssumption DEF Init, TypeOK, Idle, Days, NoDay, InFlight, Exhausted

\* A caller's own entry keeps its type, and everyone else theirs.
LEMMA CallType ==
  ASSUME TypeOK, NEW c \in Callers, NEW v, call' = [call EXCEPT ![c] = v],
         v \in [at : {"idle", "provider"} \cup InFlight,
                next : Nat \ {0}, day : Days \cup {NoDay}],
         v.at \in InFlight => v.next <= Len(Chain(c)),
         UNCHANGED today,
         ledger' \in [Names -> [day : Days \cup {NoDay}, count : Nat]],
         spent' \in [Names -> [Days -> Nat]]
  PROVE  TypeOK'
<1>1. call' \in [Callers -> [at : {"idle", "provider"} \cup InFlight,
                            next : Nat \ {0}, day : Days \cup {NoDay}]]
  BY DEF TypeOK
<1>2. ASSUME NEW b \in Callers, call'[b].at \in InFlight
      PROVE  ~Exhausted(b)'
  <2>1. Len(Chain(b)) \in Nat
    BY LedgerAssumption DEF Chain
  <2>2. CASE b = c
    <3>1. call'[b] = v
      BY <2>2 DEF TypeOK
    <3> QED
      BY <3>1, <2>1, <2>2, <1>2 DEF Exhausted, Chain
  <2>3. CASE b # c
    <3>1. call'[b] = call[b]
      BY <2>3 DEF TypeOK
    <3> QED
      BY <3>1, <1>2 DEF TypeOK, Exhausted, Chain
  <2> QED
    BY <2>2, <2>3
<1> QED
  BY <1>1, <1>2 DEF TypeOK

\* Every step keeps the types.
LEMMA TypeStep == TypeOK /\ [Next]_vars => TypeOK'
<1> SUFFICES ASSUME TypeOK, [Next]_vars PROVE TypeOK'
  OBVIOUS
<1>1. ASSUME NEW c \in Callers, Step(c) PROVE TypeOK'
  <2> DEFINE CallRecord == [at : {"idle", "provider"} \cup InFlight,
                            next : Nat \ {0}, day : Days \cup {NoDay}]
  <2>0. /\ call[c] \in CallRecord
        /\ call \in [Callers -> CallRecord]
        /\ Len(Chain(c)) \in Nat
        /\ call[c].at \in InFlight => call[c].next <= Len(Chain(c))
    <3>1. Len(Chain(c)) \in Nat
      BY LedgerAssumption DEF Chain
    <3> QED
      BY <3>1 DEF TypeOK, Exhausted
  <2>1. CASE Begin(c)
    <3>1. PICK v : v = [call[c] EXCEPT !.at = "provider"]
      OBVIOUS
    <3>2. call' = [call EXCEPT ![c] = v]
      BY <2>0, <2>1, <3>1 DEF Begin
    <3>3. v \in CallRecord /\ v.at \notin InFlight
      BY <2>0, <3>1 DEF InFlight
    <3>4. UNCHANGED <<today, ledger, spent>>
      BY <2>1 DEF Begin
    <3>5. /\ ledger' \in [Names -> [day : Days \cup {NoDay}, count : Nat]]
          /\ spent' \in [Names -> [Days -> Nat]]
      BY <3>4 DEF TypeOK
    <3> QED
      BY <3>2, <3>3, <3>4, <3>5, CallType
  <2>2. CASE ReserveUnlimited(c)
    BY <2>0, <2>2, CallType DEF ReserveUnlimited, AfterReserve, TypeOK, InFlight, Exhausted
  <2>3. CASE Reserve(c)
    <3>1. Current(c) \in Provider
      BY <2>3, CurrentType DEF Reserve
    <3>2. EntryToday(Current(c).name) \in [day : Days, count : Nat]
      BY <3>1 DEF EntryToday, TypeOK, Provider
    <3>3. ledger' \in [Names -> [day : Days \cup {NoDay}, count : Nat]]
      BY <2>3, <3>1, <3>2 DEF Reserve, TypeOK, Provider
    <3>4. [at |-> AfterReserve(Current(c)), next |-> call[c].next, day |-> today] \in CallRecord
      BY <2>0 DEF AfterReserve, InFlight, TypeOK
    <3>5. call[c].next <= Len(Chain(c))
      BY <2>0, <2>3 DEF Reserve, Exhausted
    <3>6. /\ call' = [call EXCEPT ![c] =
                        [at |-> AfterReserve(Current(c)), next |-> call[c].next, day |-> today]]
          /\ UNCHANGED <<today, spent>>
      BY <2>3 DEF Reserve
    <3> QED
      BY <3>3, <3>4, <3>5, <3>6, CallType DEF TypeOK
  <2>4. CASE Refused(c)
    <3>1. call' = [call EXCEPT ![c] = [call[c] EXCEPT !.next = call[c].next + 1]]
      BY <2>0, <2>4 DEF Refused
    <3>2. /\ [call[c] EXCEPT !.next = call[c].next + 1] \in CallRecord
          /\ [call[c] EXCEPT !.next = call[c].next + 1].at \notin InFlight
      BY <2>0, <2>4 DEF Refused, InFlight
    <3>3. UNCHANGED <<today, ledger, spent>>
      BY <2>4 DEF Refused
    <3> QED
      BY <3>1, <3>2, <3>3, CallType DEF TypeOK
  <2>5. CASE SlotFree(c)
    <3>1. call' = [call EXCEPT ![c] = [call[c] EXCEPT !.at = "request"]]
      BY <2>0, <2>5 DEF SlotFree
    <3> QED
      BY <3>1, <2>0, <2>5, CallType DEF SlotFree, TypeOK, InFlight
  <2>6. CASE NoSlot(c)
    <3>1. call' = [call EXCEPT ![c] = [call[c] EXCEPT !.at = "release"]]
      BY <2>0, <2>6 DEF NoSlot
    <3> QED
      BY <3>1, <2>0, <2>6, CallType DEF NoSlot, TypeOK, InFlight
  <2>7. CASE Answer(c)
    <3>1. Current(c) \in Provider
      BY <2>7, CurrentType DEF Answer, TypeOK, InFlight
    <3>2. spent' \in [Names -> [Days -> Nat]]
      <4>1. CASE call[c].day = NoDay
        BY <2>7, <4>1 DEF Answer, TypeOK
      <4>2. CASE call[c].day # NoDay
        <5>1. call[c].day \in Days /\ Current(c).name \in Names
          BY <2>0, <3>1, <4>2 DEF Provider
        <5> QED
          BY <2>7, <4>2, <5>1 DEF Answer, TypeOK
      <4> QED
        BY <4>1, <4>2
    <3>3. Idle \in CallRecord /\ Idle.at \notin InFlight
      BY DEF Idle, InFlight, NoDay
    <3> QED
      BY <2>7, <3>2, <3>3, CallType DEF Answer, TypeOK
  <2>8. CASE RequestFails(c)
    <3>1. call' = [call EXCEPT ![c] = [call[c] EXCEPT !.at = "release"]]
      BY <2>0, <2>8 DEF RequestFails
    <3> QED
      BY <3>1, <2>0, <2>8, CallType DEF RequestFails, TypeOK, InFlight
  <2>9. CASE Release(c)
    <3>1. Current(c) \in Provider
      BY <2>9, CurrentType DEF Release, TypeOK, InFlight
    <3>2. Returned(Current(c).name, call[c].day) \in [day : Days \cup {NoDay}, count : Nat]
      BY <3>1 DEF Returned, TypeOK, Provider
    <3>3. ledger' \in [Names -> [day : Days \cup {NoDay}, count : Nat]]
      BY <2>9, <3>1, <3>2 DEF Release, TypeOK, Provider
    <3>4. [at |-> "provider", next |-> call[c].next + 1, day |-> NoDay] \in CallRecord
      BY <2>0
    <3>5. /\ call' = [call EXCEPT ![c] =
                        [at |-> "provider", next |-> call[c].next + 1, day |-> NoDay]]
          /\ UNCHANGED <<today, spent>>
      BY <2>9 DEF Release
    <3> QED
      BY <3>3, <3>4, <3>5, CallType DEF TypeOK, InFlight
  <2>10. CASE GiveUp(c)
    <3>1. Idle \in CallRecord /\ Idle.at \notin InFlight
      BY DEF Idle, InFlight, NoDay
    <3> QED
      BY <2>10, <3>1, CallType DEF GiveUp, TypeOK
  <2> QED
    BY <1>1, <2>1, <2>2, <2>3, <2>4, <2>5, <2>6, <2>7, <2>8, <2>9, <2>10 DEF Step
<1>2. CASE Midnight
  <2>1. today + 1 \in Days
    BY <1>2, LedgerAssumption DEF Midnight, TypeOK, Days
  <2> QED
    BY <1>2, <2>1 DEF Midnight, TypeOK, Exhausted, Chain
<1>3. CASE Restart
  BY <1>3 DEF Restart, TypeOK, Idle, NoDay, InFlight
<1>4. CASE UNCHANGED vars
  BY <1>4 DEF vars, TypeOK, Exhausted, Chain
<1> QED
  BY <1>1, <1>2, <1>3, <1>4 DEF Next

-----------------------------------------------------------------------------
(* The books.                                                              *)

\* A smaller charge fits the same limit.
LEMMA LessFits ==
  ASSUME NEW n, NEW j \in Nat, NEW k \in Nat, j <= k, WithinLimit(n, k)
  PROVE  WithinLimit(n, j)
<1>1. CASE k = 0
  BY <1>1 DEF WithinLimit
<1>2. ASSUME NEW c \in Callers, NEW i \in DOMAIN Chain(c),
             Chain(c)[i].name = n, k <= Chain(c)[i].limit
      PROVE  WithinLimit(n, j)
  <2>1. Chain(c) \in Seq(Provider)
    BY LedgerAssumption DEF Chain
  <2>2. Chain(c)[i].limit \in Int
    <3>1. \A q \in Seq(Provider) : \A x \in DOMAIN q : q[x] \in Provider
      OBVIOUS
    <3>2. Chain(c)[i] \in Provider
      BY <1>2, <2>1, <3>1
    <3> QED
      BY <3>2 DEF Provider
  <2> QED
    BY <1>2, <2>2 DEF WithinLimit
<1> QED
  BY <1>1, <1>2 DEF WithinLimit

\* The invariant holds at the start: nobody holds anything.
LEMMA InvInit == Init => IInv
<1> SUFFICES ASSUME Init PROVE IInv
  OBVIOUS
<1>1. \A n, d : Holding(n, d) = {}
  BY DEF Init, Holding, Idle, InFlight
<1>2. Cardinality({}) = 0
  BY FS_EmptySet
<1>3. NothingAhead /\ UnitsHeld
  BY <1>1, LedgerAssumption DEF Init, NothingAhead, UnitsHeld, Idle, InFlight, NoDay, Days
<1>4. LedgerAccounts
  BY DEF Init, LedgerAccounts
<1>5. CapHolds
  BY <1>1, <1>2 DEF Init, CapHolds, WithinLimit
<1> QED
  BY <1>3, <1>4, <1>5, TypeInit DEF IInv

\* A step of a caller that writes neither ledger nor history and changes nobody's
\* part in a counted unit.
LEMMA QuietStep ==
  ASSUME IInv, TypeOK', NEW c \in Callers, NEW v,
         call' = [call EXCEPT ![c] = v], UNCHANGED <<today, ledger, spent>>,
         \A n \in Names, d \in Days : c \in Holding(n, d)' <=> c \in Holding(n, d),
         v.at \in InFlight => /\ Limited(Chain(c)[v.next]) <=> v.day # NoDay
                              /\ v.day <= today
  PROVE  IInv'
<1>1. \A n \in Names, d \in Days : Holding(n, d)' = Holding(n, d)
  <2> SUFFICES ASSUME NEW n \in Names, NEW d \in Days
               PROVE  Holding(n, d)' = Holding(n, d)
    OBVIOUS
  <2>1. TypeOK
    BY DEF IInv
  <2>2. CASE c \in Holding(n, d)
    <3>1. Holding(n, d)' = Holding(n, d) \cup {c}
      BY <2>1, <2>2, OthersHold
    <3> QED
      BY <2>2, <3>1
  <2>3. CASE c \notin Holding(n, d)
    <3>1. Holding(n, d)' = Holding(n, d) \ {c}
      BY <2>1, <2>3, OthersHold
    <3> QED
      BY <2>3, <3>1
  <2> QED
    BY <2>2, <2>3
<1>2. UnitsHeld'
  BY DEF UnitsHeld, IInv, TypeOK, Current, Chain
<1>3. NothingAhead'
  BY <1>1 DEF NothingAhead, IInv
<1>4. LedgerAccounts'
  BY <1>1 DEF LedgerAccounts, IInv, TypeOK
<1>5. CapHolds'
  BY <1>1 DEF CapHolds, WithinLimit, IInv
<1> QED
  BY <1>2, <1>3, <1>4, <1>5 DEF IInv

\* The quiet steps of a caller.
LEMMA QuietSteps ==
  ASSUME IInv, TypeOK', NEW c \in Callers,
         \/ Begin(c) \/ ReserveUnlimited(c) \/ Refused(c) \/ SlotFree(c)
         \/ NoSlot(c) \/ RequestFails(c) \/ GiveUp(c)
  PROVE  IInv'
<1>0. TypeOK /\ UnitsHeld
  BY DEF IInv
<1>1. CASE Begin(c) \/ Refused(c) \/ GiveUp(c)
  <2>1. PICK v : call' = [call EXCEPT ![c] = v] /\ v.at \in {"idle", "provider"}
    <3>1. CASE Begin(c)
      <4>1. call' = [call EXCEPT ![c] = [call[c] EXCEPT !.at = "provider"]]
        BY <3>1, <1>0 DEF Begin, TypeOK
      <4>2. [call[c] EXCEPT !.at = "provider"].at = "provider"
        BY <1>0 DEF TypeOK
      <4> QED
        BY <4>1, <4>2
    <3>2. CASE Refused(c)
      <4>1. call' = [call EXCEPT ![c] = [call[c] EXCEPT !.next = call[c].next + 1]]
        BY <3>2, <1>0 DEF Refused, TypeOK
      <4>2. [call[c] EXCEPT !.next = call[c].next + 1].at = "provider"
        BY <3>2, <1>0 DEF Refused, TypeOK
      <4> QED
        BY <4>1, <4>2
    <3>3. CASE GiveUp(c)
      <4>1. call' = [call EXCEPT ![c] = Idle] /\ Idle.at = "idle"
        BY <3>3 DEF GiveUp, Idle
      <4> QED
        BY <4>1
    <3> QED
      BY <1>1, <3>1, <3>2, <3>3
  <2>2. call[c].at \notin InFlight /\ v.at \notin InFlight
    BY <1>1, <2>1 DEF Begin, Refused, GiveUp, InFlight
  <2>3. \A n \in Names, d \in Days : c \in Holding(n, d)' <=> c \in Holding(n, d)
    BY <2>1, <2>2, <1>0, OthersHold DEF Holding, Holds
  <2>4. UNCHANGED <<today, ledger, spent>>
    BY <1>1 DEF Begin, Refused, GiveUp
  <2> QED
    BY <2>1, <2>2, <2>3, <2>4, QuietStep
<1>2. CASE SlotFree(c) \/ NoSlot(c) \/ RequestFails(c)
  <2>1. PICK v : /\ call' = [call EXCEPT ![c] = v]
                 /\ v.at \in InFlight /\ v.next = call[c].next /\ v.day = call[c].day
    <3>1. CASE SlotFree(c)
      BY <3>1, <1>0 DEF SlotFree, TypeOK, InFlight
    <3>2. CASE NoSlot(c)
      BY <3>2, <1>0 DEF NoSlot, TypeOK, InFlight
    <3>3. CASE RequestFails(c)
      <4>1. call' = [call EXCEPT ![c] = [call[c] EXCEPT !.at = "release"]]
        BY <3>3, <1>0 DEF RequestFails, TypeOK
      <4>2. LET v == [call[c] EXCEPT !.at = "release"]
            IN  v.at \in InFlight /\ v.next = call[c].next /\ v.day = call[c].day
        BY <1>0 DEF TypeOK, InFlight
      <4> QED
        BY <4>1, <4>2
    <3> QED
      BY <1>2, <3>1, <3>2, <3>3
  <2>2. call[c].at \in InFlight
    BY <1>2 DEF SlotFree, NoSlot, RequestFails, InFlight
  <2>3. \A n \in Names, d \in Days : c \in Holding(n, d)' <=> c \in Holding(n, d)
    BY <2>1, <2>2, <1>0, OthersHold DEF Holding, Holds, Current
  <2>4. UNCHANGED <<today, ledger, spent>>
    BY <1>2 DEF SlotFree, NoSlot, RequestFails
  <2>5. /\ Limited(Chain(c)[v.next]) <=> v.day # NoDay
        /\ v.day <= today
    BY <2>1, <2>2, <1>0 DEF UnitsHeld, Current
  <2> QED
    BY <2>1, <2>3, <2>4, <2>5, QuietStep
<1>3. CASE ReserveUnlimited(c)
  <2> DEFINE v == [at |-> AfterReserve(Current(c)), next |-> call[c].next, day |-> NoDay]
  <2>1. /\ call' = [call EXCEPT ![c] = v]
        /\ UNCHANGED <<today, ledger, spent>>
        /\ call[c].at \notin InFlight
    BY <1>3 DEF ReserveUnlimited, InFlight
  <2>2. \A n \in Names, d \in Days : c \in Holding(n, d)' <=> c \in Holding(n, d)
    BY <2>1, <1>0, OthersHold DEF Holding, Holds, NoDay, Days
  <2>3. /\ Limited(Chain(c)[v.next]) <=> v.day # NoDay
        /\ v.day <= today
    BY <1>3, <1>0 DEF ReserveUnlimited, Current, TypeOK, NoDay, Days
  <2> QED
    BY <2>1, <2>2, <2>3, QuietStep
<1> QED
  BY <1>1, <1>2, <1>3

\* UnitsHeld survives a step of one caller that leaves its own part in order.
LEMMA UnitsStep ==
  ASSUME TypeOK, UnitsHeld, NEW c \in Callers, NEW v,
         call' = [call EXCEPT ![c] = v], UNCHANGED today,
         v.at \in InFlight => /\ Limited(Chain(c)[v.next]) <=> v.day # NoDay
                              /\ v.day <= today
  PROVE  UnitsHeld'
BY DEF UnitsHeld, TypeOK, Current, Chain

\* The accounts of the next state, entry by entry.
LEMMA AccountsPrimed ==
  ASSUME \A n \in Names : \A d : d = ledger'[n].day =>
             IF d = NoDay THEN ledger'[n].count = 0
             ELSE ledger'[n].count = spent'[n][d] + Cardinality(Holding(n, d)')
  PROVE  LedgerAccounts'
BY DEF LedgerAccounts, Holding, Current, Chain

\* A reservation: one more unit counted, one more caller holding it.
LEMMA ReserveStep ==
  ASSUME IInv, TypeOK', NEW c \in Callers, Reserve(c)
  PROVE  IInv'
<1>0. TypeOK /\ NothingAhead /\ UnitsHeld /\ LedgerAccounts /\ CapHolds
  BY DEF IInv
<1>a. Current(c) \in Provider /\ call[c].next \in DOMAIN Chain(c)
  BY <1>0, CurrentType DEF Reserve
<1>b. PICK p \in Provider : p = Current(c)
  BY <1>a
<1>c. PICK n0 \in Names : n0 = p.name
  BY DEF Provider
<1>d. PICK t \in Days : t = today /\ t \in Nat \ {0} /\ t # NoDay
  BY <1>0 DEF TypeOK, Days, NoDay
<1>e. PICK count0 : count0 = EntryToday(n0).count
  OBVIOUS
<1>f. PICK v : v = [at |-> AfterReserve(p), next |-> call[c].next, day |-> t]
  OBVIOUS
<1>1. Chain(c)[call[c].next] = p /\ p.limit \in Int
  BY <1>b DEF Current, Provider
<1>2. /\ call' = [call EXCEPT ![c] = v]
      /\ UNCHANGED <<today, spent>>
      /\ call[c].at \notin InFlight
      /\ v.at \in InFlight /\ v.next = call[c].next /\ v.day = t
  BY <1>b, <1>d, <1>f DEF Reserve, AfterReserve, InFlight
<1>g. /\ TypeOK /\ call' = [call EXCEPT ![c] = v]
      /\ \A n, d : Holds(c, v, n, d) <=> n = n0 /\ d = t
  BY <1>0, <1>1, <1>2, <1>c DEF Holds
<1>3. \A n \in Names, d \in Days :
          /\ c \notin Holding(n, d)
          /\ (n # n0 \/ d # t) => Holding(n, d)' = Holding(n, d)
          /\ Holding(n0, t)' = Holding(n0, t) \cup {c}
  <2> SUFFICES ASSUME NEW n \in Names, NEW d \in Days
               PROVE  /\ c \notin Holding(n, d)
                      /\ (n # n0 \/ d # t) => Holding(n, d)' = Holding(n, d)
                      /\ Holding(n0, t)' = Holding(n0, t) \cup {c}
    OBVIOUS
  <2>1. c \notin Holding(n, d)
    BY <1>2 DEF Holding
  <2>2. Holding(n0, t)' = Holding(n0, t) \cup {c}
    <3>1. Holds(c, v, n0, t)
      BY <1>g
    <3>2. TypeOK /\ call' = [call EXCEPT ![c] = v]
      BY <1>g
    <3> QED
      BY ONLY <3>1, <3>2, Joins
  <2>3. ASSUME n # n0 \/ d # t PROVE Holding(n, d)' = Holding(n, d)
    <3>1. ~Holds(c, v, n, d)
      BY <1>g, <2>3
    <3>2. Holding(n, d)' = Holding(n, d) \ {c}
      BY <1>g, <3>1, Leaves
    <3> QED
      BY <2>1, <3>2
  <2> QED
    BY <2>1, <2>2, <2>3
<1>4. /\ count0 \in Nat
      /\ count0 = spent[n0][t] + Cardinality(Holding(n0, t))
      /\ spent[n0][t] \in Nat /\ Cardinality(Holding(n0, t)) \in Nat
  <2>1. spent[n0][t] \in Nat /\ Cardinality(Holding(n0, t)) \in Nat
    BY <1>0, <1>1, <1>d, HoldersFinite DEF TypeOK
  <2>2. CASE ledger[n0].day = t
    BY <1>0, <1>1, <1>d, <2>1, <1>e, <2>2 DEF EntryToday, LedgerAccounts, TypeOK
  <2>3. CASE ledger[n0].day # t
    <3>1. ledger[n0].day < t
      <4>1. ledger[n0].day <= t /\ ledger[n0].day \in Days \cup {NoDay}
        BY <1>0, <1>d DEF NothingAhead, TypeOK
      <4> QED
        BY <1>d, <4>1, <2>3 DEF Days, NoDay
    <3>2. spent[n0][t] = 0 /\ Holding(n0, t) = {}
      BY <1>0, <1>1, <1>d, <3>1 DEF NothingAhead
    <3>3. count0 = 0
      BY <1>d, <1>e, <2>3 DEF EntryToday
    <3> QED
      BY <3>2, <3>3, FS_EmptySet
  <2> QED
    BY <2>1, <2>2, <2>3
<1>5. ledger' = [ledger EXCEPT ![n0] = [day |-> t, count |-> count0 + 1]]
  BY <1>b, <1>c, <1>d, <1>e DEF Reserve
<1>6. Cardinality(Holding(n0, t)') = Cardinality(Holding(n0, t)) + 1
  BY <1>0, <1>1, <1>d, <1>3, HoldersFinite, OneMoreHolder
<1>7. UnitsHeld'
  <2>1. Limited(Chain(c)[v.next]) /\ v.day # NoDay /\ v.day <= today
    BY <1>1, <1>2, <1>b, <1>d DEF Reserve
  <2> QED
    BY <1>0, <1>2, <2>1, UnitsStep
<1>8. NothingAhead'
  <2> SUFFICES ASSUME NEW n \in Names
               PROVE  /\ ledger'[n].day <= t
                      /\ \A d \in Days : d > ledger'[n].day =>
                             spent[n][d] = 0 /\ Holding(n, d)' = {}
    BY <1>2, <1>d DEF NothingAhead
  <2>1. CASE n = n0
    <3>1. ledger'[n].day = t
      BY <1>0, <1>d, <1>5, <2>1 DEF TypeOK
    <3>2. ASSUME NEW d \in Days, d > t
          PROVE  spent[n][d] = 0 /\ Holding(n, d)' = {}
      <4>1. ledger[n].day <= t /\ ledger[n].day \in Days \cup {NoDay}
        BY <1>0, <1>d DEF NothingAhead, TypeOK
      <4>2. d > ledger[n].day /\ d # t
        BY <1>d, <3>2, <4>1 DEF Days, NoDay
      <4> QED
        BY <1>0, <1>3, <4>2 DEF NothingAhead
    <3> QED
      BY <1>d, <3>1, <3>2
  <2>2. CASE n # n0
    <3>1. ledger'[n] = ledger[n]
      BY <1>5, <2>2 DEF TypeOK
    <3> QED
      BY <1>0, <1>3, <1>d, <2>2, <3>1 DEF NothingAhead
  <2> QED
    BY <2>1, <2>2
<1>9. LedgerAccounts'
  <2> SUFFICES ASSUME NEW n \in Names, NEW d, d = ledger'[n].day
               PROVE  IF d = NoDay THEN ledger'[n].count = 0
                      ELSE ledger'[n].count = spent[n][d] + Cardinality(Holding(n, d)')
    BY <1>2, AccountsPrimed
  <2>1. CASE n = n0
    <3>1. ledger'[n] = [day |-> t, count |-> count0 + 1] /\ d = t
      BY <1>0, <1>d, <1>5, <2>1 DEF TypeOK
    <3> QED
      BY <1>0, <1>d, <1>4, <1>6, <2>1, <3>1
  <2>2. CASE n # n0
    <3>1. ledger'[n] = ledger[n] /\ d \in Days \cup {NoDay}
      BY <1>0, <1>d, <1>5, <2>2 DEF TypeOK
    <3>2. d # NoDay => Holding(n, d)' = Holding(n, d)
      BY <1>3, <2>2, <3>1
    <3>3. d = ledger[n].day
      BY <3>1
    <3> QED
      BY <1>0, <3>1, <3>2, <3>3 DEF LedgerAccounts
  <2> QED
    BY <2>1, <2>2
<1>10. CapHolds'
  <2> SUFFICES ASSUME NEW n \in Names, NEW d \in Days
               PROVE  WithinLimit(n, spent[n][d] + Cardinality(Holding(n, d)'))
    BY <1>2 DEF CapHolds, WithinLimit, Chain
  <2>1. CASE n = n0 /\ d = t
    <3>1. count0 + 1 <= p.limit
      BY <1>1, <1>4, <1>b, <1>c, <1>e DEF Reserve, HasBudget
    <3>2. WithinLimit(n0, count0 + 1)
      BY <1>1, <1>a, <1>c, <3>1 DEF WithinLimit
    <3>3. count0 + 1 = spent[n][d] + Cardinality(Holding(n, d)')
      BY <1>4, <1>6, <2>1
    <3> QED
      BY <2>1, <3>2, <3>3
  <2>2. CASE n # n0 \/ d # t
    BY <1>0, <1>3, <2>2 DEF CapHolds
  <2> QED
    BY <2>1, <2>2
<1> QED
  BY <1>7, <1>8, <1>9, <1>10 DEF IInv

\* An answer: the unit held becomes a unit paid for, the sum stays.
LEMMA AnswerStep ==
  ASSUME IInv, TypeOK', NEW c \in Callers, Answer(c)
  PROVE  IInv'
<1>0. TypeOK /\ NothingAhead /\ UnitsHeld /\ LedgerAccounts /\ CapHolds
  BY DEF IInv
<1>a. call[c].at \in InFlight /\ Current(c) \in Provider
  BY <1>0, CurrentType DEF Answer, TypeOK, InFlight
<1>b. PICK n0 \in Names : n0 = Current(c).name
  BY <1>a DEF Provider
<1>c. PICK t \in Days \cup {NoDay} : t = call[c].day
  BY <1>0 DEF TypeOK
<1>1. /\ call' = [call EXCEPT ![c] = Idle] /\ Idle.at \notin InFlight
      /\ UNCHANGED <<today, ledger>>
  BY DEF Answer, Idle, InFlight
<1>2. \A n \in Names, d \in Days :
          /\ Holding(n, d)' = Holding(n, d) \ {c}
          /\ c \in Holding(n, d) <=> n = n0 /\ d = t
  <2> SUFFICES ASSUME NEW n \in Names, NEW d \in Days
               PROVE  /\ Holding(n, d)' = Holding(n, d) \ {c}
                      /\ c \in Holding(n, d) <=> n = n0 /\ d = t
    OBVIOUS
  <2>1. Holding(n, d)' = Holding(n, d) \ {c}
    BY <1>0, <1>1, Leaves DEF Holds
  <2> QED
    BY <2>1, <1>a, <1>b, <1>c DEF Holding
<1>3. \A n \in Names, d \in Days :
          spent'[n][d] = IF n = n0 /\ d = t THEN spent[n][d] + 1 ELSE spent[n][d]
  <2>1. CASE t = NoDay
    BY <2>1, <1>c DEF Answer, Days, NoDay
  <2>2. CASE t # NoDay
    BY <2>2, <1>0, <1>b, <1>c DEF Answer, TypeOK
  <2> QED
    BY <2>1, <2>2
<1>4. \A n \in Names, d \in Days :
          spent'[n][d] + Cardinality(Holding(n, d)') = spent[n][d] + Cardinality(Holding(n, d))
  <2> SUFFICES ASSUME NEW n \in Names, NEW d \in Days
               PROVE  spent'[n][d] + Cardinality(Holding(n, d)')
                          = spent[n][d] + Cardinality(Holding(n, d))
    OBVIOUS
  <2>1. CASE n = n0 /\ d = t
    <3>1. c \in Holding(n, d) /\ Holding(n, d)' = Holding(n, d) \ {c}
      BY <1>2, <2>1
    <3>2. Cardinality(Holding(n, d)') = Cardinality(Holding(n, d)) - 1
      BY <3>1, HoldersFinite, OneHolderLess
    <3>3. spent[n][d] \in Nat /\ Cardinality(Holding(n, d)) \in Nat
      BY <1>0, HoldersFinite DEF TypeOK
    <3> QED
      BY <1>3, <2>1, <3>2, <3>3
  <2>2. CASE ~(n = n0 /\ d = t)
    <3>1. Holding(n, d)' = Holding(n, d)
      BY <1>2, <2>2
    <3> QED
      BY <1>3, <2>2, <3>1
  <2> QED
    BY <2>1, <2>2
<1>5. UnitsHeld'
  BY <1>0, <1>1, UnitsStep
<1>6. NothingAhead'
  <2> SUFFICES ASSUME NEW n \in Names, NEW d \in Days, d > ledger[n].day
               PROVE  spent'[n][d] = 0 /\ Holding(n, d)' = {}
    BY <1>0, <1>1 DEF NothingAhead
  <2>1. spent[n][d] = 0 /\ Holding(n, d) = {}
    BY <1>0 DEF NothingAhead
  <2> QED
    BY <1>2, <1>3, <2>1
<1>7. LedgerAccounts'
  <2> SUFFICES ASSUME NEW n \in Names, NEW d, d = ledger'[n].day
               PROVE  IF d = NoDay THEN ledger'[n].count = 0
                      ELSE ledger'[n].count = spent'[n][d] + Cardinality(Holding(n, d)')
    BY AccountsPrimed
  <2>1. ledger'[n] = ledger[n] /\ d = ledger[n].day /\ d \in Days \cup {NoDay}
    BY <1>0, <1>1 DEF TypeOK
  <2> QED
    BY <1>0, <1>4, <2>1 DEF LedgerAccounts
<1>8. CapHolds'
  BY <1>0, <1>4 DEF CapHolds, WithinLimit, Chain
<1> QED
  BY <1>5, <1>6, <1>7, <1>8 DEF IInv

\* A release: the unit leaves the count of its own day, or a count that is gone.
LEMMA ReleaseStep ==
  ASSUME IInv, TypeOK', NEW c \in Callers, Release(c)
  PROVE  IInv'
<1>0. TypeOK /\ NothingAhead /\ UnitsHeld /\ LedgerAccounts /\ CapHolds
  BY DEF IInv
<1>a. call[c].at \in InFlight /\ Current(c) \in Provider
  BY <1>0, CurrentType DEF Release, TypeOK, InFlight
<1>b. PICK n0 \in Names : n0 = Current(c).name
  BY <1>a DEF Provider
<1>c. PICK t \in Days \cup {NoDay} : t = call[c].day
  BY <1>0 DEF TypeOK
<1>d. PICK v : v = [at |-> "provider", next |-> call[c].next + 1, day |-> NoDay]
  OBVIOUS
<1>1. /\ call' = [call EXCEPT ![c] = v] /\ v.at \notin InFlight
      /\ UNCHANGED <<today, spent>>
  BY <1>d DEF Release, InFlight
<1>2. \A n \in Names, d \in Days :
          /\ Holding(n, d)' = Holding(n, d) \ {c}
          /\ c \in Holding(n, d) <=> n = n0 /\ d = t
  <2> SUFFICES ASSUME NEW n \in Names, NEW d \in Days
               PROVE  /\ Holding(n, d)' = Holding(n, d) \ {c}
                      /\ c \in Holding(n, d) <=> n = n0 /\ d = t
    OBVIOUS
  <2>1. Holding(n, d)' = Holding(n, d) \ {c}
    BY <1>0, <1>1, Leaves DEF Holds
  <2> QED
    BY <2>1, <1>a, <1>b, <1>c DEF Holding
<1>3. Limited(Current(c)) <=> t # NoDay
  BY <1>0, <1>a, <1>c DEF UnitsHeld
<1>4. ledger' = IF t # NoDay THEN [ledger EXCEPT ![n0] = Returned(n0, t)] ELSE ledger
  BY <1>b, <1>c, <1>3 DEF Release
<1>5. \A n \in Names : ledger'[n].day = ledger[n].day
  BY <1>0, <1>4 DEF Returned, TypeOK
<1>6. UnitsHeld'
  BY <1>0, <1>1, UnitsStep
<1>7. NothingAhead'
  BY <1>0, <1>1, <1>2, <1>5 DEF NothingAhead
<1>8. LedgerAccounts'
  <2> SUFFICES ASSUME NEW n \in Names, NEW d, d = ledger'[n].day
               PROVE  IF d = NoDay THEN ledger'[n].count = 0
                      ELSE ledger'[n].count = spent[n][d] + Cardinality(Holding(n, d)')
    BY <1>1, AccountsPrimed
  <2>1. /\ d = ledger[n].day /\ d \in Days \cup {NoDay} /\ ledger[n].count \in Nat
        /\ d # NoDay => ledger[n].count = spent[n][d] + Cardinality(Holding(n, d))
        /\ d = NoDay => ledger[n].count = 0
    BY <1>0, <1>5 DEF TypeOK, LedgerAccounts
  <2>2. CASE n = n0 /\ d = t /\ d # NoDay
    <3>1. c \in Holding(n, d) /\ Holding(n, d)' = Holding(n, d) \ {c}
      BY <1>2, <2>1, <2>2
    <3>2. /\ Cardinality(Holding(n, d)') = Cardinality(Holding(n, d)) - 1
          /\ Cardinality(Holding(n, d)) >= 1
      BY <3>1, HoldersFinite, OneHolderLess
    <3>3. spent[n][d] \in Nat /\ Cardinality(Holding(n, d)) \in Nat
      BY <1>0, <2>1, <2>2, HoldersFinite DEF TypeOK
    <3>4. ledger[n].count > 0
      BY <2>1, <2>2, <3>2, <3>3
    <3>5. ledger'[n].count = ledger[n].count - 1
      BY <1>0, <1>4, <2>1, <2>2, <3>4 DEF Returned, TypeOK
    <3> QED
      BY <2>1, <2>2, <3>2, <3>3, <3>5
  <2>3. CASE ~(n = n0 /\ d = t /\ d # NoDay)
    <3>1. ledger'[n] = ledger[n]
      BY <1>0, <1>4, <2>1, <2>3 DEF Returned, TypeOK
    <3>2. ASSUME d # NoDay PROVE Holding(n, d)' = Holding(n, d)
      <4>1. d \in Days
        BY <2>1, <3>2
      <4>2. Holding(n, d)' = Holding(n, d) \ {c} /\ c \notin Holding(n, d)
        BY <1>2, <2>3, <3>2, <4>1
      <4> QED
        BY ONLY <4>2
    <3> QED
      BY <2>1, <3>1, <3>2
  <2> QED
    BY <2>2, <2>3
<1>9. CapHolds'
  <2> SUFFICES ASSUME NEW n \in Names, NEW d \in Days
               PROVE  WithinLimit(n, spent[n][d] + Cardinality(Holding(n, d)'))
    BY <1>1 DEF CapHolds, WithinLimit, Chain
  <2>1. /\ spent[n][d] \in Nat /\ Cardinality(Holding(n, d)) \in Nat
        /\ IsFiniteSet(Holding(n, d))
        /\ WithinLimit(n, spent[n][d] + Cardinality(Holding(n, d)))
    BY <1>0, HoldersFinite DEF TypeOK, CapHolds
  <2>2. /\ Cardinality(Holding(n, d)') \in Nat
        /\ Cardinality(Holding(n, d)') <= Cardinality(Holding(n, d))
    BY <1>2, <2>1, FS_Subset, FS_CardinalityType
  <2> QED
    BY <2>1, <2>2, LessFits
<1> QED
  BY <1>6, <1>7, <1>8, <1>9 DEF IInv

\* Midnight touches nothing the books speak of: no entry is ahead of the clock.
LEMMA MidnightStep ==
  ASSUME IInv, TypeOK', Midnight
  PROVE  IInv'
<1>0. TypeOK /\ NothingAhead /\ UnitsHeld /\ LedgerAccounts /\ CapHolds
  BY DEF IInv
<1>1. today' = today + 1 /\ today \in Int /\ UNCHANGED <<ledger, call, spent>>
  BY <1>0 DEF Midnight, TypeOK, Days
<1>2. \A n \in Names : ledger[n].day \in Int
  BY <1>0 DEF TypeOK, Days, NoDay
<1>3. \A c \in Callers : call[c].day \in Int
  BY <1>0 DEF TypeOK, Days, NoDay
<1>4. NothingAhead'
  BY <1>0, <1>1, <1>2 DEF NothingAhead, Holding, Current, Chain
<1>5. UnitsHeld'
  BY <1>0, <1>1, <1>3 DEF UnitsHeld, Current, Chain
<1>6. LedgerAccounts' /\ CapHolds'
  BY <1>0, <1>1 DEF LedgerAccounts, CapHolds, WithinLimit, Holding, Current, Chain
<1> QED
  BY <1>4, <1>5, <1>6 DEF IInv

\* A restart leaves nothing counted and nobody holding.
LEMMA RestartStep ==
  ASSUME IInv, TypeOK', Restart
  PROVE  IInv'
<1>1. TypeOK /\ today' = today
  BY DEF IInv, Restart
<1>2. \A n, d : Holding(n, d)' = {}
  BY DEF Restart, Holding, Idle, InFlight
<1>3. Cardinality({}) = 0
  BY FS_EmptySet
<1>4. NothingAhead' /\ UnitsHeld'
  BY <1>1, <1>2 DEF Restart, NothingAhead, UnitsHeld, Idle, InFlight, TypeOK, NoDay, Days
<1>5. LedgerAccounts'
  BY DEF Restart, LedgerAccounts
<1>6. CapHolds'
  BY <1>2, <1>3 DEF Restart, CapHolds, WithinLimit
<1> QED
  BY <1>4, <1>5, <1>6 DEF IInv

\* Every step keeps the books.
LEMMA InvStep == IInv /\ [Next]_vars => IInv'
<1> SUFFICES ASSUME IInv, [Next]_vars PROVE IInv'
  OBVIOUS
<1>1. TypeOK'
  BY TypeStep DEF IInv
<1>2. ASSUME NEW c \in Callers, Step(c) PROVE IInv'
  BY <1>1, <1>2, QuietSteps, ReserveStep, AnswerStep, ReleaseStep DEF Step
<1>3. CASE Midnight
  BY <1>1, <1>3, MidnightStep
<1>4. CASE Restart
  BY <1>1, <1>4, RestartStep
<1>5. CASE UNCHANGED vars
  <2>0. IInv /\ UNCHANGED <<today, ledger, call, spent>>
    BY <1>5 DEF vars
  <2>1. NothingAhead'
    BY <2>0 DEF IInv, NothingAhead, Holding, Current, Chain
  <2>2. UnitsHeld'
    BY <2>0 DEF IInv, UnitsHeld, Current, Chain
  <2>3. LedgerAccounts'
    BY <2>0 DEF IInv, LedgerAccounts, Holding, Current, Chain
  <2>4. CapHolds'
    BY <2>0 DEF IInv, CapHolds, WithinLimit, Holding, Current, Chain
  <2> QED
    BY <1>1, <2>1, <2>2, <2>3, <2>4 DEF IInv
<1> QED
  BY <1>2, <1>3, <1>4, <1>5 DEF Next

\* A refusal is justified by the books of the moment.
LEMMA RefusalStep ==
  ASSUME IInv, NEW c \in Callers, Refused(c), NEW n, n = Current(c).name
  PROVE  spent[n][today] + Cardinality(Holding(n, today)) >= Current(c).limit
<1>1. TypeOK /\ LedgerAccounts
  BY DEF IInv
<1>2. Current(c) \in Provider /\ n \in Names /\ Current(c).limit \in Int
  BY <1>1, CurrentType DEF Refused, Provider
<1>3. ~(EntryToday(n).count < Current(c).limit) /\ Current(c).limit > 0
  BY DEF Refused, HasBudget, Limited
<1>4. ledger[n].day = today
  BY <1>2, <1>3 DEF EntryToday
<1>5. ledger[n].count = spent[n][today] + Cardinality(Holding(n, today))
  <2>1. today \in Nat \ {0}
    BY <1>1 DEF TypeOK, Days
  <2>2. ledger[n].day # NoDay
    BY <1>4, <2>1 DEF NoDay
  <2>3. IF ledger[n].day = NoDay
          THEN ledger[n].count = 0
          ELSE ledger[n].count = spent[n][ledger[n].day]
                                 + Cardinality(Holding(n, ledger[n].day))
    BY <1>1, <1>2 DEF LedgerAccounts
  <2> QED
    BY ONLY <1>4, <2>2, <2>3
<1>6. ledger[n].count \in Nat /\ EntryToday(n).count = ledger[n].count
  BY <1>1, <1>2, <1>4 DEF TypeOK, EntryToday
<1> QED
  BY <1>2, <1>3, <1>5, <1>6

-----------------------------------------------------------------------------
(* The theorems.                                                           *)

\* In every execution the types hold, for all callers, chains and days.
THEOREM LedgerTypes == Spec => []TypeOK
<1>1. TypeOK /\ [Next]_vars => TypeOK'
  BY TypeStep
<1> QED
  BY TypeInit, <1>1, PTL DEF Spec

\* The inductive invariant holds in every execution.
LEMMA BooksKept == Spec => []IInv
BY InvInit, InvStep, PTL DEF Spec

\* The ledger counts exactly the answers paid for and the calls at work
\* (reserve and release of limits.go, called from Client.call).
THEOREM BooksBalance == Spec => []LedgerAccounts
<1>1. IInv => LedgerAccounts
  BY DEF IInv
<1> QED
  BY BooksKept, <1>1, PTL

\* No day's limit is overdrawn, whatever is released across midnight.
THEOREM LimitsHold == Spec => []CapHolds
<1>1. IInv => CapHolds
  BY DEF IInv
<1> QED
  BY BooksKept, <1>1, PTL

\* A provider is passed over only when its limit is paid for or at work today.
THEOREM RefusalsAreJust == Spec => RefusalIsJust
<1>1. IInv /\ [Next]_vars =>
          [\A c \in Callers :
               Refused(c) =>
                   LET n == Current(c).name
                   IN  spent[n][today] + Cardinality(Holding(n, today)) >= Current(c).limit]_vars
  BY RefusalStep
<1> QED
  BY BooksKept, <1>1, PTL DEF Spec, RefusalIsJust
=============================================================================

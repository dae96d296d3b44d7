-------------------------- MODULE SummaryQueueProofs --------------------------
(***************************************************************************)
(* Theorems about SummaryQueue for every table, timeout and number of      *)
(* faults: the types, the lease and backoff invariants, that the queue     *)
(* keeps its contract, and that an outage of the model costs no draw.      *)
(***************************************************************************)
EXTENDS SummaryQueue, FiniteSetTheorems, TLAPS

\* backoff never leaves the retry curve: a delay is a duration, at most
\* maxBackoff, however long the outage (TestBackoffStaysCappedForALongOutage).
LEMMA BackoffIsCapped ==
  ASSUME NEW a \in Nat
  PROVE  Backoff(a) \in Nat /\ Backoff(a) <= MaxBackoff
<1>1. BaseBackoff \in Nat /\ MaxBackoff \in Nat
  BY QueueAssumption
<1>2. \A n \in 1 .. 16 : Doubling[n] \in Nat
  BY DEF Doubling
<1>3. \A n \in 1 .. 16 : BaseBackoff * Doubling[n] \in Nat
  BY <1>1, <1>2
<1>4. QED
  BY <1>1, <1>3 DEF Backoff, Lesser

-----------------------------------------------------------------------------
(* The inductive invariant *)

\* Deadlines nest: a call returns within its job's context, the job's context
\* within the tick's, and the closing write within WriteTimeout after both.
DeadlinesNest ==
  /\ worker.phase \in InTick => worker.start <= now /\ now <= worker.deadline
  /\ worker.phase \in {"sweep", "claim"} => worker.deadline = worker.start + DrainBudget
  /\ worker.phase \in Holding => worker.jobDeadline <= worker.start + DrainBudget
  /\ worker.phase \in Running => worker.deadline <= worker.jobDeadline
  /\ worker.phase \in {"finish", "retry"} => worker.deadline <= worker.jobDeadline + WriteTimeout

\* The lease outlives the whole turn.
LeaseOutlivesTurn ==
  \A s \in Slots : worker.phase \in Holding /\ Mine(s)
                   => jobs[s].runAfter > worker.jobDeadline + WriteTimeout

\* After a sweep that worked, neither a row nor the job at work had expired
\* when the drain began.
NothingExpiredAtStart ==
  worker.phase \in {"claim"} \union Holding /\ worker.swept = TRUE =>
    /\ \A s \in Slots : jobs[s] # NoJob => worker.start < jobs[s].expiresAt
    /\ worker.phase \in Holding => worker.start < worker.expiresAt

\* Payloads are numbered as they are enqueued; a row with the payload at work
\* is the very attempt at work.
PayloadsInOrder ==
  /\ \A s \in Slots : jobs[s] # NoJob => jobs[s].payload <= submitted[s]
  /\ \A s \in Slots, n \in Payloads : n > submitted[s] => ran[s][n] = 0
  /\ worker.phase \in Holding =>
       /\ worker.payload <= submitted[worker.slot]
       /\ jobs[worker.slot] # NoJob /\ jobs[worker.slot].payload = worker.payload
            => Mine(worker.slot)

Finishing(s, n) == worker.phase = "finish" /\ worker.slot = s /\ worker.payload = n

\* What is still to be run has run only as often as something failed.
PendingRanOnlyOnFaults ==
  /\ \A s \in Slots, n \in Payloads :
       jobs[s] # NoJob /\ jobs[s].payload = n /\ ~Finishing(s, n) => ran[s][n] <= faults
  /\ worker.phase \in Running => ran[worker.slot][worker.payload] <= faults
-----------------------------------------------------------------------------
(* Facts about the constants and the helpers *)

\* Every timeout, bound and time to live of the code is a duration.
LEMMA Durations ==
  /\ DrainBudget \in Nat /\ Lease \in Nat /\ ChatTimeout \in Nat
  /\ AnnounceTimeout \in Nat /\ WriteTimeout \in Nat
  /\ MaxFaults \in Nat /\ MaxTime \in Nat /\ MaxSubmits \in Nat \ {0}
  /\ \A s \in Slots : TTL[Kind(s)] \in Nat \ {0}
BY QueueAssumption DEF Slots, Kind

\* What Enqueue writes is a row of the table.
LEMMA FreshRowType ==
  ASSUME TypeOK, NEW s \in Slots, NEW n \in Payloads
  PROVE  FreshRow(s, n) \in Row
BY Durations DEF TypeOK, FreshRow, Row

\* A claim writes attempts and run_after and keeps the rest of the row.
LEMMA LeasedType ==
  ASSUME TypeOK, NEW row \in Row
  PROVE  /\ Leased(row) \in Row
         /\ Leased(row).attempts \in Nat \ {0}
         /\ Leased(row).attempts = row.attempts + 1
         /\ Leased(row).runAfter = now + Lease
         /\ Leased(row).payload = row.payload
         /\ Leased(row).expiresAt = row.expiresAt
<1>1. row.attempts + 1 \in Nat \ {0} /\ now + Lease \in Nat
  BY Durations DEF TypeOK, Row
<1>2. Leased(row) \in Row
  BY <1>1 DEF Leased, Row
<1>3. QED
  BY <1>1, <1>2 DEF Leased, Row

\* The worker's record while a job is in its hands.
LEMMA HoldingType ==
  ASSUME TypeOK, worker.phase \in Holding
  PROVE  worker \in HoldingStates
BY DEF TypeOK, WorkerStates, Holding, Running

\* The loop of the drain goes on or ends in a state of the worker.
LEMMA NextTurnType ==
  ASSUME TypeOK, worker.phase \in {"sweep", "finish"}, NEW swept \in BOOLEAN
  PROVE  NextTurn(worker, swept) \in WorkerStates
<1>1. worker.start \in Nat
  BY DEF TypeOK, WorkerStates, HoldingStates, Holding, Running
<1>2. QED
  BY <1>1, Durations DEF NextTurn, Idle, WorkerStates

\* A claimed job puts the worker in a state that holds it.
LEMMA HolderType ==
  ASSUME TypeOK, worker.phase = "claim", NEW s \in Slots, NEW row \in Row,
         row.attempts # 0
  PROVE  Holder(s, row) \in WorkerStates
<1>1. worker.start \in Nat /\ worker.swept \in BOOLEAN
  BY DEF TypeOK, WorkerStates, HoldingStates, Holding, Running
<1>2. now \in Nat
  BY DEF TypeOK
<1>3. FirstPhase(Kind(s)) \in Holding
  BY DEF FirstPhase, Holding, Running
<1>4. \A a, b \in Nat : Lesser(a, b) \in Nat
  BY DEF Lesser
<1>5. Lesser(now + ChatTimeout, worker.start + DrainBudget) \in Nat
  <2>1. now + ChatTimeout \in Nat /\ worker.start + DrainBudget \in Nat
    BY <1>1, <1>2, Durations
  <2>2. QED
    BY <1>4, <2>1
<1>6. Holder(s, row).deadline \in Nat
  BY <1>2, <1>4, <1>5, Durations DEF Holder
<1>7. QED
  BY <1>1, <1>3, <1>5, <1>6 DEF Holder, WorkerStates, HoldingStates, Row

\* The closing write (finishJob, retryJob) is a state of the worker.
LEMMA ClosingType ==
  ASSUME TypeOK, worker.phase \in Running, NEW phase \in Holding
  PROVE  Closing(phase) \in WorkerStates
<1>1. worker \in HoldingStates /\ now + WriteTimeout \in Nat
  BY HoldingType, Durations DEF TypeOK, Holding
<1>2. Closing(phase) \in HoldingStates
  BY <1>1 DEF Closing, HoldingStates
<1>3. QED
  BY <1>2 DEF WorkerStates

-----------------------------------------------------------------------------
(* Types *)

\* The table a process finds when it starts is well typed.
LEMMA InitTypeOK == Init => TypeOK
<1> SUFFICES ASSUME Init PROVE TypeOK
  OBVIOUS
<1>1. 1 \in Payloads /\ 0 \in 0 .. MaxSubmits /\ 1 \in 0 .. MaxSubmits
  BY Durations DEF Payloads
<1>2. \A s \in Slots : FreshRow(s, 1) \in Row
  BY <1>1, Durations DEF Init, FreshRow, Row
<1>3. jobs \in [Slots -> Row \union {NoJob}]
  BY <1>2 DEF Init
<1>4. submitted \in [Slots -> 0 .. MaxSubmits]
  BY <1>1 DEF Init
<1>5. worker \in WorkerStates
  BY DEF Init, Idle, WorkerStates
<1>6. configured \in BOOLEAN
  BY QueueAssumption DEF Init
<1>7. now \in 0 .. MaxTime
  BY Durations DEF Init
<1>8. QED
  BY <1>3, <1>4, <1>5, <1>6, <1>7 DEF Init, TypeOK

\* No statement, call, failure or restart leaves the types.
LEMMA StepTypeOK == TypeOK /\ [Next]_vars => TypeOK'
<1> SUFFICES ASSUME TypeOK, [Next]_vars PROVE TypeOK'
  OBVIOUS
<1> USE DEF history
<1>a. \A S : Without(S) \in [Slots -> Row \union {NoJob}]
  BY DEF TypeOK, Without
<1>b. \A s \in Slots : jobs[s] # NoJob => jobs[s] \in Row /\ <<s, jobs[s].payload>> \in Slots \X Payloads
  BY DEF TypeOK, Row
<1>c. Idle \in WorkerStates /\ Down \in WorkerStates
  BY DEF Idle, Down, WorkerStates
<1>d. Fault => faults' \in Nat
  BY DEF Fault, TypeOK
<1>e. worker.phase \in Holding => /\ worker.slot \in Slots
                                  /\ worker.payload \in Payloads
                                  /\ <<worker.slot, worker.payload>> \in Slots \X Payloads
  BY HoldingType DEF HoldingStates
<1>f. worker.phase \in Running /\ CountRun => ran' \in [Slots -> [Payloads -> Nat]]
  <2> SUFFICES ASSUME worker.phase \in Running, CountRun
               PROVE  ran' \in [Slots -> [Payloads -> Nat]]
    OBVIOUS
  <2>1. worker.slot \in Slots /\ worker.payload \in Payloads
    BY <1>e DEF Holding
  <2>2. ran[worker.slot][worker.payload] + 1 \in Nat
    BY <2>1 DEF TypeOK
  <2>3. QED
    BY <2>1, <2>2 DEF TypeOK, CountRun
<1>1. ASSUME NEW s \in Slots, Enqueue(s) PROVE TypeOK'
  <2>1. submitted[s] + 1 \in Payloads /\ submitted[s] + 1 \in 0 .. MaxSubmits
    BY <1>1, Durations DEF Enqueue, TypeOK, Payloads
  <2>2. FreshRow(s, submitted[s] + 1) \in Row
    BY <2>1, FreshRowType
  <2>3. QED
    BY <1>1, <2>1, <2>2 DEF Enqueue, TypeOK
<1>2. CASE Fire
  <2>1. worker' \in WorkerStates
    BY <1>2, Durations DEF Fire, TypeOK, WorkerStates
  <2>2. QED
    BY <1>2, <2>1 DEF Fire, TypeOK
<1>g. \A swept \in BOOLEAN : worker.phase = "sweep" /\ AfterSweep(swept) => worker' \in WorkerStates
  BY NextTurnType, <1>c DEF AfterSweep
<1>h. ExpireOverdue => /\ jobs' \in [Slots -> Row \union {NoJob}]
                       /\ expired' \subseteq Slots \X Payloads
  BY <1>a, <1>b DEF ExpireOverdue, Overdue, TypeOK
<1>3. CASE Sweep
  BY <1>3, <1>g, <1>h DEF Sweep, TypeOK
<1>4. CASE SweepFails
  BY <1>4, <1>d, <1>g, <1>h DEF SweepFails, TypeOK
<1>i. \A s \in Slots : OldestDue(s) => /\ Leased(jobs[s]) \in Row
                                       /\ [jobs EXCEPT ![s] = Leased(@)] \in [Slots -> Row \union {NoJob}]
  BY <1>b, LeasedType DEF OldestDue, Due, TypeOK
<1>5. ASSUME NEW s \in Slots, Claim(s) PROVE TypeOK'
  <2>1. jobs[s] \in Row /\ Leased(jobs[s]).attempts # 0
    BY <1>5, <1>b, LeasedType DEF Claim, OldestDue, Due
  <2>2. worker' \in WorkerStates
    BY <1>5, <1>i, <2>1, HolderType DEF Claim
  <2>3. refused' \subseteq Slots \X Payloads
    BY <1>5, <1>b DEF Claim, OldestDue, Due, TypeOK
  <2>4. QED
    BY <1>5, <1>i, <2>2, <2>3 DEF Claim, TypeOK
<1>6. CASE NothingDue
  BY <1>6, <1>c DEF NothingDue, TypeOK
<1>7. CASE ClaimFails
  BY <1>7, <1>c, <1>d, <1>i DEF ClaimFails, TypeOK
<1>j. worker.phase = "model" => [worker EXCEPT !.phase = "send", !.deadline = worker.jobDeadline] \in WorkerStates
  BY HoldingType DEF Holding, Running, HoldingStates, WorkerStates
<1>k. worker.phase \in Running => Closing("finish") \in WorkerStates /\ Closing("retry") \in WorkerStates
  BY ClosingType DEF Holding
<1>8. CASE Compose
  BY <1>8, <1>j DEF Compose, TypeOK
<1>9. CASE ModelFails
  BY <1>9, <1>j, <1>k DEF ModelFails, TypeOK, Running
<1>10. CASE Send
  BY <1>10, <1>f, <1>k DEF Send, TypeOK, Running
<1>11. CASE SendRefused
  BY <1>11, <1>e, <1>k DEF SendRefused, TypeOK, Running, Holding
<1>12. CASE SendFails
  BY <1>12, <1>k DEF SendFails, TypeOK, Running
<1>13. CASE SendAnswerLost
  BY <1>13, <1>d, <1>f, <1>k DEF SendAnswerLost, TypeOK, Running
<1>14. CASE Fold
  BY <1>14, <1>f, <1>k DEF Fold, TypeOK, Running
<1>15. CASE FoldFails
  BY <1>15, <1>k DEF FoldFails, TypeOK, Running
<1>l. worker.phase = "finish" => NextTurn(worker, worker.swept) \in WorkerStates
  BY HoldingType, NextTurnType DEF Holding, HoldingStates
<1>16. CASE Finish
  BY <1>16, <1>a, <1>l DEF Finish, TypeOK
<1>17. CASE FinishFails
  BY <1>17, <1>d, <1>l DEF FinishFails, TypeOK
<1>18. CASE Retry
  <2>1. \A s \in Slots : Mine(s) => [jobs[s] EXCEPT !.runAfter = now + Backoff(worker.attempts)] \in Row
    <3>1. worker.attempts \in Nat
      BY <1>18, HoldingType DEF Retry, Holding, HoldingStates
    <3>2. now + Backoff(worker.attempts) \in Nat
      BY <3>1, BackoffIsCapped DEF TypeOK
    <3>3. QED
      BY <1>b, <3>2 DEF Mine, Row
  <2>2. QED
    BY <1>18, <1>c, <2>1 DEF Retry, TypeOK
<1>19. CASE RetryFails
  BY <1>19, <1>c, <1>d DEF RetryFails, TypeOK
<1>20. CASE Crash
  BY <1>20, <1>c, <1>d DEF Crash, TypeOK
<1>21. CASE Restart
  BY <1>21, <1>c, QueueAssumption DEF Restart, TypeOK
<1>22. CASE Advance
  <2>1. now' \in 0 .. MaxTime
    BY <1>22, Durations DEF Advance, Lesser, TypeOK
  <2>2. QED
    BY <1>22, <2>1 DEF Advance, TypeOK
<1>23. CASE UNCHANGED vars
  BY <1>23 DEF vars, TypeOK
<1>24. QED
  BY <1>1, <1>2, <1>3, <1>4, <1>5, <1>6, <1>7, <1>8, <1>9, <1>10, <1>11, <1>12, <1>13,
     <1>14, <1>15, <1>16, <1>17, <1>18, <1>19, <1>20, <1>21, <1>22, <1>23
     DEF Next, Work

\* Every reachable state of the table, the worker and the history is well typed.
THEOREM TypeCorrect == Spec => []TypeOK
<1>1. QED
  BY InitTypeOK, StepTypeOK, PTL DEF Spec

-----------------------------------------------------------------------------
(* Time: deadlines nest, and the lease outlives them *)

\* What the steps of the worker leave in its record.
LEMMA Phases ==
  /\ Idle.phase = "idle" /\ Down.phase = "down"
  /\ Running \subseteq Holding /\ Holding \subseteq InTick
  /\ {"idle", "down"} \intersect InTick = {}
  /\ {"sweep", "claim"} \intersect Holding = {}
  /\ {"finish", "retry"} \subseteq Holding
  /\ {"finish", "retry"} \intersect Running = {}
BY DEF Idle, Down, Running, Holding, InTick

\* The closing write changes the phase and the deadline, and nothing of the job.
LEMMA ClosingFields ==
  ASSUME TypeOK, worker.phase \in Running, NEW phase \in {"finish", "retry"}
  PROVE  LET w == Closing(phase)
         IN  /\ w.phase = phase /\ w.deadline = now + WriteTimeout
             /\ w.start = worker.start /\ w.swept = worker.swept
             /\ w.slot = worker.slot /\ w.payload = worker.payload
             /\ w.attempts = worker.attempts /\ w.expiresAt = worker.expiresAt
             /\ w.jobDeadline = worker.jobDeadline
<1>1. worker \in HoldingStates
  BY HoldingType, Phases
<1>2. QED
  BY <1>1 DEF Closing, HoldingStates

Sending == [worker EXCEPT !.phase = "send", !.deadline = worker.jobDeadline]

\* Between the model's answer and the send only the phase and the deadline change.
LEMMA SendingFields ==
  ASSUME TypeOK, worker.phase \in Running
  PROVE  /\ Sending.phase = "send" /\ Sending.deadline = worker.jobDeadline
         /\ Sending.start = worker.start /\ Sending.swept = worker.swept
         /\ Sending.slot = worker.slot /\ Sending.payload = worker.payload
         /\ Sending.attempts = worker.attempts /\ Sending.expiresAt = worker.expiresAt
         /\ Sending.jobDeadline = worker.jobDeadline
<1>1. worker \in HoldingStates
  BY HoldingType, Phases
<1>2. QED
  BY <1>1 DEF Sending, HoldingStates

\* The loop asks for another job only with a chat's timeout left in the budget.
LEMMA NextTurnFields ==
  ASSUME NEW swept \in BOOLEAN
  PROVE  LET w == NextTurn(worker, swept)
         IN  \/ w.phase = "idle"
             \/ /\ w.phase = "claim" /\ w.start = worker.start /\ w.swept = swept
                /\ w.deadline = worker.start + DrainBudget
                /\ now + ChatTimeout <= worker.start + DrainBudget
BY DEF NextTurn, Idle

\* Every step keeps the contexts nested: call in job, job in tick.
LEMMA DeadlinesStep ==
  TypeOK /\ DeadlinesNest /\ [Next]_vars => DeadlinesNest'
<1> SUFFICES ASSUME TypeOK, DeadlinesNest, [Next]_vars PROVE DeadlinesNest'
  OBVIOUS
<1>a. now \in Nat /\ (worker.phase \in InTick => worker.start \in Nat /\ worker.deadline \in Nat)
  BY DEF TypeOK, WorkerStates, HoldingStates, InTick, Holding, Running
<1>b. worker.phase \in Holding => /\ worker.jobDeadline \in Nat /\ worker.swept \in BOOLEAN
                                  /\ worker.slot \in Slots
  BY HoldingType DEF HoldingStates
<1>c. ASSUME worker'.phase \in {"idle", "down"} PROVE DeadlinesNest'
  BY <1>c, Phases DEF DeadlinesNest
<1>d. ASSUME worker.phase \in {"sweep", "finish"}, UNCHANGED now, NEW swept \in BOOLEAN,
             worker' = NextTurn(worker, swept)
      PROVE  DeadlinesNest'
  <2>1. worker.phase \in InTick
    BY <1>d DEF InTick, Holding
  <2>2. CASE worker'.phase = "claim"
    BY <1>a, <1>d, <2>1, <2>2, NextTurnFields, Phases, Durations DEF DeadlinesNest
  <2>3. QED
    BY <1>c, <1>d, <2>2, NextTurnFields
<1>e. ASSUME worker.phase \in Running, UNCHANGED now, NEW phase \in {"finish", "retry"},
             worker' = Closing(phase)
      PROVE  DeadlinesNest'
  <2>1. worker.phase \in Holding /\ worker.phase \in InTick
    BY <1>e, Phases
  <2>2. QED
    BY <1>a, <1>b, <1>e, <2>1, ClosingFields, Phases, Durations DEF DeadlinesNest
<1>f. ASSUME worker.phase = "model", UNCHANGED now, worker' = Sending
      PROVE  DeadlinesNest'
  <2>1. worker.phase \in Running /\ worker.phase \in Holding /\ worker.phase \in InTick
    BY <1>f, Phases DEF Running
  <2>2. worker'.phase \in Running /\ worker'.phase \in Holding /\ worker'.phase \in InTick
    BY <1>f, <2>1, SendingFields, Phases DEF Running
  <2>3. QED
    BY <1>a, <1>b, <1>f, <2>1, <2>2, SendingFields, Phases DEF DeadlinesNest
<1>1. ASSUME NEW s \in Slots, Enqueue(s) PROVE DeadlinesNest'
  BY <1>1 DEF Enqueue, DeadlinesNest
<1>2. CASE Fire
  <2>1. CASE worker' = worker
    BY <1>2, <2>1 DEF Fire, DeadlinesNest
  <2>2. CASE worker' = [phase |-> "sweep", start |-> now, deadline |-> now + DrainBudget]
    BY <1>2, <1>a, <2>2, Phases, Durations DEF Fire, DeadlinesNest
  <2>3. QED
    BY <1>2, <2>1, <2>2 DEF Fire
<1>3. CASE Sweep \/ SweepFails
  BY <1>3, <1>c, <1>d, Phases DEF Sweep, SweepFails, AfterSweep
<1>4. ASSUME NEW s \in Slots, Claim(s) PROVE DeadlinesNest'
  <2> DEFINE jobDeadline == Lesser(now + ChatTimeout, worker.start + DrainBudget)
  <2>1. worker.phase = "claim" /\ worker.phase \in InTick
    BY <1>4 DEF Claim, InTick
  <2>2. worker.deadline = worker.start + DrainBudget /\ worker.start <= now /\ now <= worker.deadline
    BY <2>1 DEF DeadlinesNest
  <2>3. /\ worker'.phase = FirstPhase(Kind(s)) /\ worker'.phase \in Holding \ {"retry"}
        /\ worker'.start = worker.start /\ worker'.jobDeadline = jobDeadline
    BY <1>4 DEF Claim, Holder, FirstPhase, Holding, Running
  <2>4. now <= jobDeadline /\ jobDeadline <= worker.start + DrainBudget /\ jobDeadline \in Nat
    BY <1>a, <2>1, <2>2, Durations DEF Lesser
  <2>5. worker'.deadline = CASE worker'.phase = "model" -> Lesser(now + AnnounceTimeout, jobDeadline)
                             [] worker'.phase = "fold"  -> jobDeadline
                             [] OTHER                   -> now + WriteTimeout
    BY <1>4 DEF Claim, Holder
  <2>6. CASE worker'.phase \in Running
    <3>1. worker'.phase \in {"model", "fold"}
      BY <2>3, <2>6 DEF FirstPhase, Running
    <3>2. now <= worker'.deadline /\ worker'.deadline <= jobDeadline
      BY <1>a, <2>4, <2>5, <3>1, Durations DEF Lesser
    <3>3. QED
      BY <1>4, <2>2, <2>3, <2>4, <2>6, <3>2, Phases DEF DeadlinesNest, Claim
  <2>7. CASE worker'.phase = "finish"
    <3>1. worker'.deadline = now + WriteTimeout
      BY <2>5, <2>7
    <3>2. now' = now
      BY <1>4 DEF Claim
    <3>3. QED
      BY <1>a, <2>2, <2>3, <2>4, <2>7, <3>1, <3>2, Phases, Durations DEF DeadlinesNest
  <2>8. QED
    BY <2>3, <2>6, <2>7 DEF Holding
<1>5. CASE NothingDue \/ ClaimFails \/ Retry \/ RetryFails \/ Crash \/ Restart
  BY <1>5, <1>c, Phases DEF NothingDue, ClaimFails, Retry, RetryFails, Crash, Restart
<1>6. CASE Compose \/ ModelFails
  BY <1>6, <1>e, <1>f DEF Compose, ModelFails, Running, Sending
<1>7. CASE Send \/ SendRefused \/ SendFails \/ SendAnswerLost \/ Fold \/ FoldFails
  BY <1>7, <1>e DEF Send, SendRefused, SendFails, SendAnswerLost, Fold, FoldFails, Running
<1>8. CASE Finish \/ FinishFails
  BY <1>8, <1>b, <1>d, Phases DEF Finish, FinishFails
<1>9. CASE Advance
  <2>1. worker' = worker /\ now' \in Nat /\ now <= now' /\ now' <= now + 1
    BY <1>9, <1>a, Durations DEF Advance, Lesser, TypeOK
  <2>2. QED
    BY <1>9, <1>a, <2>1 DEF Advance, DeadlinesNest
<1>10. CASE UNCHANGED vars
  BY <1>10 DEF vars, DeadlinesNest
<1>11. QED
  BY <1>1, <1>2, <1>3, <1>4, <1>5, <1>6, <1>7, <1>8, <1>9, <1>10 DEF Next, Work

\* How a step may treat the worker's copy of a job: take it with a fresh lease,
\* keep it, or drop it.
LEMMA HeldCopy ==
  ASSUME TypeOK, Next
  PROVE  \/ worker'.phase \notin Holding
         \/ \E s \in Slots : Claim(s)
         \/ /\ worker.phase \in Holding
            /\ worker'.slot = worker.slot /\ worker'.attempts = worker.attempts
            /\ worker'.payload = worker.payload /\ worker'.jobDeadline = worker.jobDeadline
            /\ worker'.start = worker.start /\ worker'.swept = worker.swept
            /\ worker'.expiresAt = worker.expiresAt
            /\ UNCHANGED jobs \/ \E s \in Slots : Enqueue(s)
<1> USE DEF history
<1>1. ASSUME NEW s \in Slots, Enqueue(s) PROVE UNCHANGED worker
  BY <1>1 DEF Enqueue
<1>2. Fire => UNCHANGED jobs /\ (worker'.phase \in Holding => UNCHANGED worker)
  BY Phases DEF Fire
<1>3. Sweep \/ SweepFails \/ NothingDue \/ ClaimFails \/ Retry \/ RetryFails \/ Crash \/ Restart
      \/ Finish \/ FinishFails
        => worker'.phase \notin Holding
  <2>1. worker.phase = "finish" => worker.swept \in BOOLEAN
    BY HoldingType, Phases DEF HoldingStates
  <2>2. \A swept \in BOOLEAN : NextTurn(worker, swept).phase \in {"idle", "claim"}
    BY NextTurnFields
  <2>3. QED
    BY <2>1, <2>2, Phases DEF Sweep, SweepFails, NothingDue, ClaimFails, Retry, RetryFails, Crash,
                              Restart, Finish, FinishFails, AfterSweep
<1>4. Compose \/ ModelFails
        => worker.phase \in Running /\ UNCHANGED jobs
           /\ (worker' = Sending \/ worker' = Closing("retry"))
  BY DEF Compose, ModelFails, Sending, Running
<1>5. Send \/ SendRefused \/ SendFails \/ SendAnswerLost \/ Fold \/ FoldFails
        => worker.phase \in Running /\ UNCHANGED jobs
           /\ (worker' = Closing("finish") \/ worker' = Closing("retry"))
  BY DEF Send, SendRefused, SendFails, SendAnswerLost, Fold, FoldFails, Running
<1>6. Advance => UNCHANGED <<worker, jobs>>
  BY DEF Advance
<1>7. ASSUME worker.phase \in Running, UNCHANGED jobs,
             worker' = Sending \/ worker' = Closing("finish") \/ worker' = Closing("retry")
      PROVE  /\ worker.phase \in Holding
             /\ worker'.slot = worker.slot /\ worker'.attempts = worker.attempts
             /\ worker'.payload = worker.payload /\ worker'.jobDeadline = worker.jobDeadline
             /\ worker'.start = worker.start /\ worker'.swept = worker.swept
             /\ worker'.expiresAt = worker.expiresAt
  BY <1>7, SendingFields, ClosingFields, Phases
<1>8. QED
  BY <1>1, <1>2, <1>3, <1>4, <1>5, <1>6, <1>7 DEF Next, Work

\* A claim copies the leased row.
LEMMA ClaimFields ==
  ASSUME TypeOK, NEW s \in Slots, Claim(s)
  PROVE  /\ jobs[s] \in Row /\ worker.phase = "claim" /\ jobs[s].runAfter <= now
         /\ jobs' = [jobs EXCEPT ![s] = Leased(jobs[s])]
         /\ jobs'[s] = Leased(jobs[s]) /\ jobs'[s] \in Row
         /\ worker'.phase = FirstPhase(Kind(s))
         /\ worker'.slot = s /\ worker'.payload = jobs[s].payload
         /\ worker'.attempts = jobs[s].attempts + 1 /\ worker'.expiresAt = jobs[s].expiresAt
         /\ worker'.start = worker.start /\ worker'.swept = worker.swept
         /\ worker'.jobDeadline = Lesser(now + ChatTimeout, worker.start + DrainBudget)
<1>1. jobs[s] \in Row
  BY DEF Claim, OldestDue, Due, TypeOK
<1>2. QED
  BY <1>1, LeasedType DEF Claim, Holder, TypeOK, OldestDue, Due

\* Every step keeps the lease longer than what is left of the turn.
LEMMA LeaseStep ==
  TypeOK /\ LeaseOutlivesTurn /\ [Next]_vars => LeaseOutlivesTurn'
<1> SUFFICES ASSUME TypeOK, LeaseOutlivesTurn, [Next]_vars PROVE LeaseOutlivesTurn'
  OBVIOUS
<1>1. CASE UNCHANGED vars
  BY <1>1 DEF vars, LeaseOutlivesTurn, Mine
<1>2. CASE worker'.phase \notin Holding
  BY <1>2 DEF LeaseOutlivesTurn
<1>3. ASSUME NEW s \in Slots, Claim(s) PROVE LeaseOutlivesTurn'
  <2>1. now + Lease > worker'.jobDeadline + WriteTimeout
    <3>1. worker.start \in Nat /\ now \in Nat
      BY <1>3, ClaimFields DEF TypeOK, WorkerStates, HoldingStates, Holding, Running
    <3>2. worker'.jobDeadline \in Nat /\ worker'.jobDeadline <= now + ChatTimeout
      BY <1>3, <3>1, ClaimFields, Durations DEF Lesser
    <3>3. QED
      BY <3>1, <3>2, LeaseAssumption, Durations
  <2>2. jobs'[s].runAfter = now + Lease /\ worker'.slot = s
    BY <1>3, ClaimFields, LeasedType
  <2>3. QED
    BY <2>1, <2>2 DEF LeaseOutlivesTurn, Mine
<1>4. ASSUME NEW s \in Slots, Enqueue(s), worker.phase \in Holding PROVE LeaseOutlivesTurn'
  <2>1. UNCHANGED worker /\ jobs'[s].attempts = 0 /\ worker.attempts # 0
    BY <1>4, HoldingType DEF Enqueue, FreshRow, TypeOK, HoldingStates
  <2>2. \A o \in Slots : o # s => jobs'[o] = jobs[o]
    BY <1>4 DEF Enqueue, TypeOK
  <2>3. QED
    BY <1>4, <2>1, <2>2 DEF LeaseOutlivesTurn, Mine
<1>5. CASE /\ UNCHANGED jobs /\ worker.phase \in Holding
           /\ worker'.slot = worker.slot /\ worker'.attempts = worker.attempts
           /\ worker'.jobDeadline = worker.jobDeadline
  BY <1>5 DEF LeaseOutlivesTurn, Mine
<1>6. QED
  BY <1>1, <1>2, <1>3, <1>4, <1>5, HeldCopy

\* With nested deadlines and the longer lease, the job at work is not due.
LEMMA LeaseFollows ==
  TypeOK /\ DeadlinesNest /\ LeaseOutlivesTurn => LeaseHolds
<1> SUFFICES ASSUME TypeOK, DeadlinesNest, LeaseOutlivesTurn,
                    NEW s \in Slots, worker.phase \in Holding, Mine(s)
             PROVE  jobs[s].runAfter > now
  BY DEF LeaseHolds
<1>1. worker.jobDeadline \in Nat /\ worker.deadline \in Nat /\ now \in Nat
  BY HoldingType DEF HoldingStates, TypeOK
<1>2. jobs[s].runAfter \in Nat
  BY DEF Mine, TypeOK, Row
<1>3. worker.deadline <= worker.jobDeadline + WriteTimeout
  BY <1>1, Durations DEF DeadlinesNest, Holding
<1>4. now <= worker.deadline
  BY Phases DEF DeadlinesNest
<1>5. QED
  BY <1>1, <1>2, <1>3, <1>4, Durations DEF LeaseOutlivesTurn

\* For every lease longer than a turn on the chain and its closing write, the
\* attempt at work is never due: no second claim can take it while it runs.
THEOREM LeaseIsExclusive == Spec => []LeaseHolds
<1>1. Init => DeadlinesNest /\ LeaseOutlivesTurn
  BY Phases DEF Init, DeadlinesNest, LeaseOutlivesTurn
<1>2. Spec => [](TypeOK /\ DeadlinesNest /\ LeaseOutlivesTurn)
  BY <1>1, InitTypeOK, StepTypeOK, DeadlinesStep, LeaseStep, PTL DEF Spec
<1>3. QED
  BY <1>2, LeaseFollows, PTL

-----------------------------------------------------------------------------
(* Rows: what each step does to the table *)

\* Retry moves one field of the row it was handed.
LEMMA RetriedRow ==
  ASSUME TypeOK, NEW row \in Row, NEW t \in Nat
  PROVE  LET r == [row EXCEPT !.runAfter = t]
         IN  /\ r.payload = row.payload /\ r.attempts = row.attempts
             /\ r.expiresAt = row.expiresAt
BY DEF Row

\* Other than by a new submission, a row changes by a claim, by the holder or by being removed.
LEMMA RowChange ==
  ASSUME TypeOK, Next
  PROVE  \/ \E s \in Slots : Enqueue(s)
         \/ \E s \in Slots : /\ OldestDue(s)
                             /\ jobs' = [jobs EXCEPT ![s] = Leased(jobs[s])]
         \/ \A s \in Slots : \/ jobs'[s] = jobs[s]
                             \/ /\ worker.phase = "retry" /\ Mine(s)
                                /\ jobs'[s].payload = jobs[s].payload
                                /\ jobs'[s].attempts = jobs[s].attempts
                                /\ jobs'[s].expiresAt = jobs[s].expiresAt
         \/ \A s \in Slots : jobs'[s] \in {jobs[s], NoJob}
<1> USE DEF history
<1>1. ExpireOverdue => \A s \in Slots : jobs'[s] \in {jobs[s], NoJob}
  BY DEF ExpireOverdue, Without
<1>2. Sweep \/ SweepFails \/ Finish => \A s \in Slots : jobs'[s] \in {jobs[s], NoJob}
  BY <1>1 DEF Sweep, SweepFails, Finish, Without
<1>3. ASSUME NEW s \in Slots, Claim(s)
      PROVE  OldestDue(s) /\ jobs' = [jobs EXCEPT ![s] = Leased(jobs[s])]
  BY <1>3 DEF Claim
<1>4. ClaimFails => \/ UNCHANGED jobs
                    \/ \E s \in Slots : OldestDue(s) /\ jobs' = [jobs EXCEPT ![s] = Leased(jobs[s])]
  BY DEF ClaimFails
<1>5. ASSUME Retry, NEW s \in Slots, Mine(s)
      PROVE  /\ jobs'[s].payload = jobs[s].payload
             /\ jobs'[s].attempts = jobs[s].attempts
             /\ jobs'[s].expiresAt = jobs[s].expiresAt
  <2>1. worker.attempts \in Nat
    BY <1>5, HoldingType DEF Retry, Holding, HoldingStates
  <2>2. now + Backoff(worker.attempts) \in Nat
    BY <2>1, BackoffIsCapped, Durations DEF TypeOK
  <2>3. jobs[s] \in Row
    BY <1>5 DEF Mine, TypeOK
  <2>4. jobs'[s] = [jobs[s] EXCEPT !.runAfter = now + Backoff(worker.attempts)]
    BY <1>5 DEF Retry
  <2>5. QED
    BY <2>2, <2>3, <2>4, RetriedRow
<1>r. Retry => worker.phase = "retry" /\ \A s \in Slots : ~Mine(s) => jobs'[s] = jobs[s]
  BY DEF Retry
<1>6. Fire \/ NothingDue \/ Compose \/ ModelFails \/ Send \/ SendRefused \/ SendFails
      \/ SendAnswerLost \/ Fold \/ FoldFails \/ FinishFails \/ RetryFails \/ Crash \/ Restart
      \/ Advance => UNCHANGED jobs
  BY DEF Fire, NothingDue, Compose, ModelFails, Send, SendRefused, SendFails, SendAnswerLost,
         Fold, FoldFails, FinishFails, RetryFails, Crash, Restart, Advance
<1>7. QED
  BY <1>2, <1>3, <1>4, <1>5, <1>r, <1>6 DEF Next, Work

-----------------------------------------------------------------------------
(* The fresh backoff *)

\* Every step keeps a job that was replaced mid-run due at once.
LEMMA FreshStep ==
  TypeOK /\ FreshJobStaysDue /\ [Next]_vars => FreshJobStaysDue'
<1> SUFFICES ASSUME TypeOK, FreshJobStaysDue, Next PROVE FreshJobStaysDue'
  BY DEF vars, FreshJobStaysDue, Kind
<1> USE DEF Kind
<1>1. ASSUME NEW s \in Slots, Enqueue(s) PROVE FreshJobStaysDue'
  <2>1. jobs'[s].runAfter + TTL[Kind(s)] = jobs'[s].expiresAt
    BY <1>1 DEF Enqueue, FreshRow, TypeOK
  <2>2. \A o \in Slots : o # s => jobs'[o] = jobs[o]
    BY <1>1 DEF Enqueue, TypeOK
  <2>3. QED
    BY <2>1, <2>2 DEF FreshJobStaysDue
<1>2. ASSUME NEW s \in Slots, OldestDue(s), jobs' = [jobs EXCEPT ![s] = Leased(jobs[s])]
      PROVE  FreshJobStaysDue'
  <2>1. jobs'[s].attempts # 0
    BY <1>2, LeasedType DEF TypeOK, OldestDue, Due
  <2>2. \A o \in Slots : o # s => jobs'[o] = jobs[o]
    BY <1>2 DEF TypeOK
  <2>3. QED
    BY <2>1, <2>2 DEF FreshJobStaysDue
<1>3. ASSUME \A s \in Slots : \/ jobs'[s] = jobs[s]
                              \/ /\ worker.phase = "retry" /\ Mine(s)
                                 /\ jobs'[s].attempts = jobs[s].attempts
      PROVE  FreshJobStaysDue'
  <2>1. worker.phase = "retry" => worker.attempts # 0
    BY HoldingType DEF Holding, HoldingStates
  <2>2. QED
    BY <1>3, <2>1 DEF FreshJobStaysDue, Mine
<1>4. ASSUME \A s \in Slots : jobs'[s] \in {jobs[s], NoJob} PROVE FreshJobStaysDue'
  BY <1>4 DEF FreshJobStaysDue
<1>5. QED
  BY <1>1, <1>2, <1>3, <1>4, RowChange

\* A replaced job keeps "the fresh backoff Enqueue gave it", whatever is
\* retried, leased or finished around it.
THEOREM FreshBackoffKept == Spec => []FreshJobStaysDue
<1>1. Init => FreshJobStaysDue
  <2> SUFFICES ASSUME Init, NEW s \in Slots, jobs[s] # NoJob
               PROVE  jobs[s].runAfter + TTL[Kind(s)] = jobs[s].expiresAt
    BY DEF FreshJobStaysDue
  <2>1. jobs[s] = FreshRow(s, 1)
    BY DEF Init
  <2>2. QED
    BY <2>1 DEF FreshRow
<1>2. QED
  BY <1>1, InitTypeOK, StepTypeOK, FreshStep, PTL DEF Spec

-----------------------------------------------------------------------------
(* Nothing is worked on long past its expiry *)

\* Every step keeps what the sweep established: nothing at work had expired at the start.
LEMMA ExpiryStep ==
  TypeOK /\ DeadlinesNest /\ NothingExpiredAtStart /\ [Next]_vars => NothingExpiredAtStart'
<1> SUFFICES ASSUME TypeOK, DeadlinesNest, NothingExpiredAtStart, [Next]_vars
             PROVE  NothingExpiredAtStart'
  OBVIOUS
<1> USE DEF history
<1> DEFINE RowsAlive(start, rows) ==
             \A s \in Slots : rows[s] # NoJob => start < rows[s].expiresAt
<1>a. now \in Nat /\ (worker.phase \in InTick => worker.start \in Nat /\ worker.start <= now)
  BY DEF TypeOK, WorkerStates, HoldingStates, InTick, Holding, Running, DeadlinesNest
<1>b. CASE UNCHANGED vars
  BY <1>b DEF vars, NothingExpiredAtStart
<1>c. ASSUME NEW start \in Nat, start <= now, RowsAlive(start, jobs), Next
      PROVE  RowsAlive(start, jobs')
  <2>1. ASSUME NEW s \in Slots, Enqueue(s) PROVE RowsAlive(start, jobs')
    <3>1. start < jobs'[s].expiresAt
      <4>1. jobs'[s].expiresAt = now + TTL[Kind(s)]
        BY <2>1 DEF Enqueue, FreshRow, TypeOK
      <4>2. TTL[Kind(s)] \in Nat \ {0}
        BY Durations
      <4>3. QED
        BY <1>a, <1>c, <4>1, <4>2
    <3>2. \A o \in Slots : o # s => jobs'[o] = jobs[o]
      BY <2>1 DEF Enqueue, TypeOK
    <3>3. QED
      BY <1>c, <3>1, <3>2
  <2>2. ASSUME NEW s \in Slots, OldestDue(s), jobs' = [jobs EXCEPT ![s] = Leased(jobs[s])]
        PROVE  RowsAlive(start, jobs')
    <3>1. jobs[s] # NoJob /\ jobs'[s].expiresAt = jobs[s].expiresAt
      BY <2>2, LeasedType DEF TypeOK, OldestDue, Due
    <3>2. \A o \in Slots : o # s => jobs'[o] = jobs[o]
      BY <2>2 DEF TypeOK
    <3>3. QED
      BY <1>c, <3>1, <3>2
  <2>3. ASSUME \A s \in Slots : \/ jobs'[s] = jobs[s]
                                \/ Mine(s) /\ jobs'[s].expiresAt = jobs[s].expiresAt
        PROVE  RowsAlive(start, jobs')
    BY <1>c, <2>3 DEF Mine
  <2>4. ASSUME \A s \in Slots : jobs'[s] \in {jobs[s], NoJob} PROVE RowsAlive(start, jobs')
    BY <1>c, <2>4
  <2>5. QED
    BY <1>c, <2>1, <2>2, <2>3, <2>4, RowChange
<1>1. CASE worker'.phase \notin {"claim"} \union Holding
  BY <1>1 DEF NothingExpiredAtStart
<1>2. ASSUME NEW s \in Slots, Claim(s), Next PROVE NothingExpiredAtStart'
  <2>1. CASE worker.swept = TRUE
    <3>1. RowsAlive(worker.start, jobs) /\ worker.start \in Nat /\ worker.start <= now
      BY <1>2, <1>a, <2>1, ClaimFields DEF NothingExpiredAtStart, InTick
    <3>2. RowsAlive(worker.start, jobs')
      BY <1>2, <1>c, <3>1
    <3>3. worker.start < worker'.expiresAt
      BY <1>2, <3>1, ClaimFields DEF Claim, OldestDue, Due
    <3>4. QED
      BY <1>2, <3>2, <3>3, ClaimFields DEF NothingExpiredAtStart
  <2>2. QED
    BY <1>2, <2>1, ClaimFields DEF NothingExpiredAtStart
<1>3. ASSUME Next, worker.phase \in {"claim"} \union Holding,
             worker'.start = worker.start, worker'.swept = worker.swept,
             worker'.phase \in Holding =>
               worker.phase \in Holding /\ worker'.expiresAt = worker.expiresAt
      PROVE  NothingExpiredAtStart'
  <2>1. worker.phase \in InTick
    BY <1>3, Phases DEF InTick
  <2>2. CASE worker.swept = TRUE
    <3>1. RowsAlive(worker.start, jobs')
      BY <1>3, <1>a, <1>c, <2>1, <2>2 DEF NothingExpiredAtStart
    <3>2. QED
      BY <1>3, <2>2, <3>1 DEF NothingExpiredAtStart
  <2>3. QED
    BY <1>3, <2>2 DEF NothingExpiredAtStart
<1>4. CASE Sweep
  <2>1. worker' = Idle \/ worker' = NextTurn(worker, TRUE)
    BY <1>4 DEF Sweep, AfterSweep
  <2>2. \A s \in Slots : jobs'[s] # NoJob => now < jobs'[s].expiresAt
    BY <1>4, <1>a DEF Sweep, ExpireOverdue, Without, Overdue, TypeOK, Row
  <2>3. CASE worker'.phase = "claim"
    <3>1. worker'.start = worker.start /\ worker.start \in Nat /\ worker.start <= now
      BY <1>4, <1>a, <2>1, <2>3, NextTurnFields, Phases DEF Sweep, InTick
    <3>2. jobs' \in [Slots -> Row \union {NoJob}]
      BY <1>4 DEF Sweep, ExpireOverdue, Without, TypeOK
    <3>3. \A s \in Slots : jobs'[s] # NoJob => worker.start < jobs'[s].expiresAt
      BY <1>a, <2>2, <3>1, <3>2 DEF Row
    <3>4. QED
      BY <2>3, <3>1, <3>3, Phases DEF NothingExpiredAtStart
  <2>4. QED
    BY <1>1, <2>1, <2>3, NextTurnFields, Phases
<1>5. CASE SweepFails
  BY <1>5, NextTurnFields, Phases DEF SweepFails, AfterSweep, NothingExpiredAtStart
<1>6. CASE Finish \/ FinishFails
  <2>1. worker.phase = "finish" /\ worker.swept \in BOOLEAN /\ worker' = NextTurn(worker, worker.swept)
    BY <1>6, HoldingType, Phases DEF Finish, FinishFails, HoldingStates
  <2>2. CASE worker'.phase = "idle"
    BY <1>1, <2>2, Phases
  <2>3. CASE worker'.phase = "claim"
    <3>1. worker'.start = worker.start /\ worker'.swept = worker.swept
      BY <2>1, <2>3, NextTurnFields
    <3>2. Next
      BY <1>6 DEF Next, Work
    <3>3. QED
      BY <1>3, <2>1, <2>3, <3>1, <3>2, Phases
  <2>4. QED
    BY <2>1, <2>2, <2>3, NextTurnFields
<1>7. ASSUME Next, worker'.phase = "claim", worker.phase = "claim", UNCHANGED worker
      PROVE  NothingExpiredAtStart'
  BY <1>3, <1>7, Phases
<1>8. ASSUME Next, worker'.phase = "claim"
      PROVE  \/ Sweep \/ SweepFails \/ Finish \/ FinishFails
             \/ UNCHANGED worker
  <2>1. \A s \in Slots : Claim(s) => worker'.phase # "claim"
    BY ClaimFields DEF FirstPhase
  <2>2. Compose \/ ModelFails => worker' = Sending \/ worker' = Closing("retry")
    BY DEF Compose, ModelFails, Sending
  <2>3. Send \/ SendRefused \/ SendFails \/ SendAnswerLost \/ Fold \/ FoldFails
          => worker' = Closing("finish") \/ worker' = Closing("retry")
    BY DEF Send, SendRefused, SendFails, SendAnswerLost, Fold, FoldFails
  <2>4. Compose \/ ModelFails \/ Send \/ SendRefused \/ SendFails \/ SendAnswerLost \/ Fold
          \/ FoldFails => worker.phase \in Running
    BY DEF Compose, ModelFails, Send, SendRefused, SendFails, SendAnswerLost, Fold, FoldFails, Running
  <2>5. ~(Compose \/ ModelFails \/ Send \/ SendRefused \/ SendFails \/ SendAnswerLost \/ Fold
          \/ FoldFails)
    BY <1>8, <2>2, <2>3, <2>4, SendingFields, ClosingFields
  <2>6. NothingDue \/ ClaimFails \/ Retry \/ RetryFails \/ Crash \/ Restart => worker'.phase # "claim"
    BY Phases DEF NothingDue, ClaimFails, Retry, RetryFails, Crash, Restart
  <2>7. Fire => UNCHANGED worker
    BY <1>8 DEF Fire
  <2>8. Advance \/ (\E s \in Slots : Enqueue(s)) => UNCHANGED worker
    BY DEF Advance, Enqueue
  <2>9. QED
    BY <1>8, <2>1, <2>5, <2>6, <2>7, <2>8 DEF Next, Work
<1>9. ASSUME Next, worker'.phase \in Holding PROVE NothingExpiredAtStart'
  BY <1>2, <1>3, <1>9, HeldCopy
<1>10. QED
  BY <1>b, <1>1, <1>4, <1>5, <1>6, <1>7, <1>8, <1>9

\* A job not expired when its drain began is not worked on long past its expiry.
LEMMA ExpiryFollows ==
  TypeOK /\ DeadlinesNest /\ NothingExpiredAtStart => NoWorkLongPastExpiry
<1> SUFFICES ASSUME TypeOK, DeadlinesNest, NothingExpiredAtStart,
                    worker.phase \in Running, worker.swept = TRUE
             PROVE  now < worker.expiresAt + DrainBudget
  BY HoldingType, Phases DEF NoWorkLongPastExpiry, HoldingStates
<1>1. /\ worker.start \in Nat /\ worker.deadline \in Nat /\ worker.jobDeadline \in Nat
      /\ worker.expiresAt \in Nat /\ now \in Nat
  BY HoldingType, Phases DEF HoldingStates, TypeOK
<1>2. /\ now <= worker.deadline /\ worker.deadline <= worker.jobDeadline
      /\ worker.jobDeadline <= worker.start + DrainBudget
  BY Phases DEF DeadlinesNest
<1>3. worker.start < worker.expiresAt
  BY Phases DEF NothingExpiredAtStart
<1>4. QED
  BY <1>1, <1>2, <1>3, Durations

\* For every budget, timeout and TTL: although Claim ignores expires_at, a job
\* is never worked on later than one drain budget past its expiry, unless the
\* sweep of its drain failed.
THEOREM ExpiryIsRespected == Spec => []NoWorkLongPastExpiry
<1>1. Init => DeadlinesNest /\ NothingExpiredAtStart
  BY Phases DEF Init, DeadlinesNest, NothingExpiredAtStart, Idle
<1>2. Spec => [](TypeOK /\ DeadlinesNest /\ NothingExpiredAtStart)
  BY <1>1, InitTypeOK, StepTypeOK, DeadlinesStep, ExpiryStep, PTL DEF Spec
<1>3. QED
  BY <1>2, ExpiryFollows, PTL

-----------------------------------------------------------------------------
(* Duplicates *)

\* Every step keeps payloads in submission order, and the copy at work tied to its row.
LEMMA OrderStep ==
  TypeOK /\ PayloadsInOrder /\ [Next]_vars => PayloadsInOrder'
<1> SUFFICES ASSUME TypeOK, PayloadsInOrder, [Next]_vars PROVE PayloadsInOrder'
  OBVIOUS
<1> USE DEF history
<1> DEFINE RowsInOrder == \A s \in Slots : jobs[s] # NoJob => jobs[s].payload <= submitted[s]
           RunsInOrder == \A s \in Slots, n \in Payloads : n > submitted[s] => ran[s][n] = 0
           CopyInOrder == worker.phase \in Holding =>
                            /\ worker.payload <= submitted[worker.slot]
                            /\ jobs[worker.slot] # NoJob
                               /\ jobs[worker.slot].payload = worker.payload
                                 => Mine(worker.slot)
<1>a. worker.phase \in Holding => /\ worker.slot \in Slots /\ worker.payload \in Payloads
                                  /\ worker.attempts # 0
  BY HoldingType DEF HoldingStates
<1>b. \A s \in Slots : submitted[s] \in Nat
  BY DEF TypeOK
<1>1. CASE UNCHANGED vars
  BY <1>1 DEF vars, PayloadsInOrder, Mine
<1>2. ASSUME NEW s \in Slots, Enqueue(s) PROVE PayloadsInOrder'
  <2>1. /\ jobs'[s].payload = submitted[s] + 1 /\ jobs'[s].attempts = 0
        /\ submitted'[s] = submitted[s] + 1 /\ UNCHANGED <<worker, ran>>
    BY <1>2 DEF Enqueue, FreshRow, TypeOK
  <2>2. \A o \in Slots : o # s => jobs'[o] = jobs[o] /\ submitted'[o] = submitted[o]
    BY <1>2 DEF Enqueue, TypeOK
  <2>3. RowsInOrder'
    BY <1>b, <2>1, <2>2 DEF PayloadsInOrder
  <2>4. RunsInOrder'
    BY <1>b, <2>1, <2>2 DEF PayloadsInOrder, Payloads
  <2>5. CopyInOrder'
    BY <1>a, <1>b, <2>1, <2>2 DEF PayloadsInOrder, Mine, Payloads
  <2>6. QED
    BY <2>3, <2>4, <2>5 DEF PayloadsInOrder
<1>3. ASSUME Next, \A s \in Slots : ~Enqueue(s) PROVE UNCHANGED submitted
  BY <1>3 DEF Next, Work, Fire, Sweep, SweepFails, NothingDue, ClaimFails, Claim, Compose, ModelFails,
     Send, SendRefused, SendFails, SendAnswerLost, Fold, FoldFails, Finish, FinishFails, Retry,
     RetryFails, Crash, Restart, Advance
<1>4. ASSUME Next, \A s \in Slots : ~Enqueue(s) PROVE RowsInOrder'
  <2>1. ASSUME NEW s \in Slots, OldestDue(s), jobs' = [jobs EXCEPT ![s] = Leased(jobs[s])]
        PROVE  RowsInOrder'
    <3>1. jobs[s] # NoJob /\ jobs'[s].payload = jobs[s].payload
      BY <2>1, LeasedType DEF TypeOK, OldestDue, Due
    <3>2. \A o \in Slots : o # s => jobs'[o] = jobs[o]
      BY <2>1 DEF TypeOK
    <3>3. QED
      BY <1>3, <1>4, <3>1, <3>2 DEF PayloadsInOrder
  <2>2. ASSUME \A s \in Slots : \/ jobs'[s] = jobs[s]
                                \/ Mine(s) /\ jobs'[s].payload = jobs[s].payload
        PROVE  RowsInOrder'
    BY <1>3, <1>4, <2>2 DEF PayloadsInOrder, Mine
  <2>3. ASSUME \A s \in Slots : jobs'[s] \in {jobs[s], NoJob} PROVE RowsInOrder'
    BY <1>3, <1>4, <2>3 DEF PayloadsInOrder
  <2>4. QED
    BY <1>4, <2>1, <2>2, <2>3, RowChange
<1>5. ASSUME Next, \A s \in Slots : ~Enqueue(s) PROVE RunsInOrder'
  <2>1. CASE Send \/ SendAnswerLost \/ Fold
    <3>1. worker.phase \in Holding /\ CountRun
      BY <2>1, Phases DEF Send, SendAnswerLost, Fold, Running
    <3>2. \A s \in Slots, n \in Payloads :
            ran'[s][n] = ran[s][n] \/ (s = worker.slot /\ n = worker.payload)
      BY <1>a, <3>1 DEF CountRun, TypeOK
    <3>3. worker.payload <= submitted[worker.slot] /\ worker.payload \in Nat
      BY <1>a, <3>1 DEF PayloadsInOrder, Payloads
    <3>4. QED
      BY <1>3, <1>5, <1>a, <1>b, <3>1, <3>2, <3>3 DEF PayloadsInOrder, Payloads
  <2>2. CASE ~(Send \/ SendAnswerLost \/ Fold)
    <3>1. UNCHANGED ran
      BY <1>5, <2>2 DEF Next, Work, Fire, Sweep, SweepFails, NothingDue, ClaimFails, Claim, Compose,
         ModelFails, SendRefused, SendFails, FoldFails, Finish, FinishFails, Retry, RetryFails,
         Crash, Restart, Advance
    <3>2. QED
      BY <1>3, <1>5, <3>1 DEF PayloadsInOrder
  <2>3. QED
    BY <2>1, <2>2
<1>6. ASSUME Next, \A s \in Slots : ~Enqueue(s) PROVE CopyInOrder'
  <2>1. CASE worker'.phase \notin Holding
    BY <2>1
  <2>2. ASSUME NEW s \in Slots, Claim(s) PROVE CopyInOrder'
    <3>1. /\ worker'.slot = s /\ worker'.payload = jobs[s].payload
          /\ jobs'[s].attempts = worker'.attempts
          /\ jobs[s] # NoJob
      <4>1. jobs'[s] = Leased(jobs[s]) /\ jobs[s] \in Row
        BY <2>2, ClaimFields
      <4>2. jobs'[s].attempts = jobs[s].attempts + 1
        BY <4>1, LeasedType
      <4>3. QED
        BY <2>2, <4>2, ClaimFields DEF Claim, OldestDue, Due
    <3>2. QED
      BY <1>3, <1>6, <3>1 DEF PayloadsInOrder, Mine
  <2>3. CASE /\ worker.phase \in Holding /\ UNCHANGED jobs
             /\ worker'.slot = worker.slot /\ worker'.attempts = worker.attempts
             /\ worker'.payload = worker.payload
    BY <1>3, <1>6, <2>3 DEF PayloadsInOrder, Mine
  <2>4. QED
    BY <1>6, <2>1, <2>2, <2>3, HeldCopy
<1>7. QED
  BY <1>1, <1>2, <1>3, <1>4, <1>5, <1>6 DEF PayloadsInOrder

\* Every step keeps the runs of a payload within one plus the faults so far.
LEMMA DuplicatesStep ==
  TypeOK /\ PayloadsInOrder /\ PendingRanOnlyOnFaults /\ DuplicatesNeedFaults /\ [Next]_vars
    => PendingRanOnlyOnFaults' /\ DuplicatesNeedFaults'
<1> SUFFICES ASSUME TypeOK, PayloadsInOrder, PendingRanOnlyOnFaults, DuplicatesNeedFaults,
                    [Next]_vars
             PROVE  PendingRanOnlyOnFaults' /\ DuplicatesNeedFaults'
  OBVIOUS
<1> USE DEF history
<1> DEFINE Rested(s, n) == jobs[s] # NoJob /\ jobs[s].payload = n /\ ~Finishing(s, n)
           RowsRested == \A s \in Slots, n \in Payloads : Rested(s, n) => ran[s][n] <= faults
           CopyRested == worker.phase \in Running => ran[worker.slot][worker.payload] <= faults
<1>a. worker.phase \in Holding => worker.slot \in Slots /\ worker.payload \in Payloads
  BY HoldingType DEF HoldingStates
<1>b. faults \in Nat /\ \A s \in Slots, n \in Payloads : ran[s][n] \in Nat
  BY DEF TypeOK
<1>c. Fault => faults' = faults + 1
  BY DEF Fault
<1>1. CASE UNCHANGED vars
  BY <1>1 DEF vars, PendingRanOnlyOnFaults, DuplicatesNeedFaults, Finishing
<1>2. ASSUME UNCHANGED ran, faults' = faults + 1, worker'.phase \notin Running
      PROVE  PendingRanOnlyOnFaults' /\ DuplicatesNeedFaults'
  BY <1>2, <1>b DEF PendingRanOnlyOnFaults, DuplicatesNeedFaults
<1>3. ASSUME UNCHANGED <<ran, faults>>, worker.phase # "finish", worker'.phase \notin Running,
             \A s \in Slots : \/ jobs'[s] = NoJob
                              \/ jobs[s] # NoJob /\ jobs'[s].payload = jobs[s].payload
      PROVE  PendingRanOnlyOnFaults' /\ DuplicatesNeedFaults'
  BY <1>3 DEF PendingRanOnlyOnFaults, DuplicatesNeedFaults, Finishing
<1>4. ASSUME UNCHANGED <<ran, faults, jobs>>, worker.phase \in Running,
             worker'.slot = worker.slot, worker'.payload = worker.payload
      PROVE  PendingRanOnlyOnFaults' /\ DuplicatesNeedFaults'
  BY <1>4, Phases DEF PendingRanOnlyOnFaults, DuplicatesNeedFaults, Finishing
<1>5. ASSUME NEW s \in Slots, Enqueue(s) PROVE PendingRanOnlyOnFaults' /\ DuplicatesNeedFaults'
  <2>1. /\ UNCHANGED <<worker, ran, faults>> /\ jobs'[s].payload = submitted[s] + 1
        /\ \A o \in Slots : o # s => jobs'[o] = jobs[o]
    BY <1>5 DEF Enqueue, FreshRow, TypeOK
  <2>2. \A n \in Payloads : n = submitted[s] + 1 => ran[s][n] <= faults
    BY <1>b DEF PayloadsInOrder, TypeOK, Payloads
  <2>3. RowsRested'
    BY <2>1, <2>2 DEF PendingRanOnlyOnFaults, Finishing
  <2>4. QED
    BY <2>1, <2>3 DEF PendingRanOnlyOnFaults, DuplicatesNeedFaults
<1>6. ASSUME NEW s \in Slots, Claim(s) PROVE PendingRanOnlyOnFaults' /\ DuplicatesNeedFaults'
  <2>1. /\ UNCHANGED <<ran, faults>> /\ worker.phase = "claim" /\ jobs[s] # NoJob
        /\ worker'.slot = s /\ worker'.payload = jobs[s].payload /\ jobs[s].payload \in Payloads
    BY <1>6, ClaimFields DEF Claim, OldestDue, Due, Row
  <2>2. jobs'[s].payload = jobs[s].payload /\ \A o \in Slots : o # s => jobs'[o] = jobs[o]
    BY <1>6, ClaimFields, LeasedType DEF TypeOK
  <2>3. \A o \in Slots, n \in Payloads : ~Finishing(o, n)
    BY <2>1 DEF Finishing
  <2>4. ran[s][jobs[s].payload] <= faults
    BY <2>1, <2>3 DEF PendingRanOnlyOnFaults
  <2>5. RowsRested'
    BY <2>1, <2>2, <2>3 DEF PendingRanOnlyOnFaults
  <2>6. QED
    BY <2>1, <2>4, <2>5 DEF PendingRanOnlyOnFaults, DuplicatesNeedFaults
<1>7. CASE Send \/ Fold \/ SendAnswerLost
  <2>1. /\ worker.phase \in Running /\ UNCHANGED jobs /\ CountRun
        /\ worker.slot \in Slots /\ worker.payload \in Payloads
    BY <1>7, <1>a, Phases DEF Send, Fold, SendAnswerLost, Running
  <2>2. /\ ran[worker.slot][worker.payload] <= faults
        /\ ran'[worker.slot][worker.payload] = ran[worker.slot][worker.payload] + 1
        /\ \A s \in Slots, n \in Payloads :
             (s # worker.slot \/ n # worker.payload) => ran'[s][n] = ran[s][n]
    BY <2>1 DEF PendingRanOnlyOnFaults, CountRun, TypeOK
  <2>3. worker'.phase \notin Running /\ \A s \in Slots, n \in Payloads : ~Finishing(s, n)
    BY <1>7, <2>1, ClosingFields, Phases DEF Send, Fold, SendAnswerLost, Finishing
  <2>4. CASE UNCHANGED faults /\ worker' = Closing("finish")
    <3>1. worker'.phase = "finish" /\ worker'.slot = worker.slot /\ worker'.payload = worker.payload
      BY <2>1, <2>4, ClosingFields
    <3>2. DuplicatesNeedFaults'
      BY <1>b, <2>1, <2>2, <2>4 DEF DuplicatesNeedFaults
    <3>3. ASSUME NEW s \in Slots, NEW n \in Payloads, Rested(s, n)'
          PROVE  ran'[s][n] <= faults'
      <4>1. s # worker.slot \/ n # worker.payload
        BY <3>1, <3>3 DEF Finishing
      <4>2. ran[s][n] <= faults /\ ran'[s][n] = ran[s][n]
        BY <2>1, <2>2, <2>3, <3>3, <4>1 DEF PendingRanOnlyOnFaults
      <4>3. QED
        BY <2>4, <4>2
    <3>4. QED
      BY <2>3, <3>2, <3>3 DEF PendingRanOnlyOnFaults
  <2>5. CASE faults' = faults + 1
    <3>1. \A s \in Slots, n \in Payloads : ran'[s][n] <= faults'
      BY <1>b, <2>1, <2>2, <2>5 DEF DuplicatesNeedFaults
    <3>2. QED
      BY <1>b, <2>3, <2>5, <3>1, StepTypeOK DEF PendingRanOnlyOnFaults, DuplicatesNeedFaults, TypeOK
  <2>6. QED
    BY <1>7, <1>c, <2>4, <2>5 DEF Send, Fold, SendAnswerLost
<1>8. CASE Finish
  <2>1. /\ worker.phase \in Holding /\ UNCHANGED <<ran, faults>>
        /\ jobs' = Without({s \in Slots : Mine(s)}) /\ worker'.phase \in {"idle", "claim"}
    BY <1>8, NextTurnFields, HoldingType, Phases DEF Finish, HoldingStates
  <2>2. \A s \in Slots : jobs'[s] # NoJob => jobs'[s] = jobs[s] /\ ~Mine(s)
    BY <2>1 DEF Without
  <2>3. \A s \in Slots, n \in Payloads :
          jobs'[s] # NoJob /\ jobs'[s].payload = n => Rested(s, n)
    BY <2>1, <2>2 DEF Finishing, PayloadsInOrder
  <2>4. QED
    BY <2>1, <2>3, Phases DEF PendingRanOnlyOnFaults, DuplicatesNeedFaults, Running
<1>9. CASE SweepFails \/ ClaimFails \/ FinishFails \/ RetryFails \/ Crash
  <2>1. \A swept \in BOOLEAN : NextTurn(worker, swept).phase \notin Running
    BY NextTurnFields DEF Running
  <2>2. worker.phase = "finish" => worker.swept \in BOOLEAN
    BY HoldingType, Phases DEF HoldingStates
  <2>3. worker'.phase \notin Running
    BY <1>9, <2>1, <2>2, Phases DEF SweepFails, AfterSweep, ClaimFails, FinishFails, RetryFails, Crash,
       InTick
  <2>4. QED
    BY <1>2, <1>9, <1>c, <2>3 DEF SweepFails, ClaimFails, FinishFails, RetryFails, Crash
<1>10. CASE Sweep
  <2>1. worker'.phase \notin Running
    BY <1>10, NextTurnFields, Phases DEF Sweep, AfterSweep, InTick, Running
  <2>2. \A s \in Slots : \/ jobs'[s] = NoJob
                         \/ jobs[s] # NoJob /\ jobs'[s].payload = jobs[s].payload
    BY <1>10 DEF Sweep, ExpireOverdue, Without
  <2>3. QED
    BY <1>3, <1>10, <2>1, <2>2 DEF Sweep
<1>11. CASE NothingDue \/ Restart
  BY <1>3, <1>11, Phases DEF NothingDue, Restart, Running
<1>12. CASE Retry
  <2>1. \A s \in Slots : \/ jobs'[s] = NoJob
                         \/ jobs[s] # NoJob /\ jobs'[s].payload = jobs[s].payload
    <3>1. worker.attempts \in Nat
      BY <1>12, HoldingType DEF Retry, Holding, HoldingStates
    <3>2. now + Backoff(worker.attempts) \in Nat
      BY <3>1, BackoffIsCapped, Durations DEF TypeOK
    <3>3. ASSUME NEW s \in Slots, Mine(s)
          PROVE  jobs[s] # NoJob /\ jobs'[s].payload = jobs[s].payload
      <4>1. jobs[s] \in Row /\ jobs'[s] = [jobs[s] EXCEPT !.runAfter = now + Backoff(worker.attempts)]
        BY <1>12, <3>3 DEF Retry, Mine, TypeOK
      <4>2. QED
        BY <3>2, <3>3, <4>1, RetriedRow DEF Mine
    <3>4. QED
      BY <1>12, <3>3 DEF Retry
  <2>2. QED
    BY <1>3, <1>12, <2>1, Phases DEF Retry, Running
<1>13. CASE Fire
  <2>1. CASE UNCHANGED worker
    BY <1>13, <2>1 DEF Fire, PendingRanOnlyOnFaults, DuplicatesNeedFaults, Finishing
  <2>2. CASE worker.phase = "idle" /\ worker'.phase = "sweep"
    BY <1>3, <1>13, <2>2 DEF Fire, Running
  <2>3. QED
    BY <1>13, <2>1, <2>2 DEF Fire
<1>14. CASE Compose \/ ModelFails \/ SendRefused \/ SendFails \/ FoldFails
  <2>1. /\ worker.phase \in Running /\ UNCHANGED <<ran, faults, jobs>>
        /\ worker' = Sending \/ worker' = Closing("finish") \/ worker' = Closing("retry")
    BY <1>14 DEF Compose, ModelFails, SendRefused, SendFails, FoldFails, Running, Sending
  <2>2. QED
    BY <1>4, <2>1, SendingFields, ClosingFields
<1>15. CASE Advance
  BY <1>15 DEF Advance, PendingRanOnlyOnFaults, DuplicatesNeedFaults, Finishing
<1>16. QED
  BY <1>1, <1>5, <1>6, <1>7, <1>8, <1>9, <1>10, <1>11, <1>12, <1>13, <1>14, <1>15 DEF Next, Work

\* For every number of faults: a payload reaches its chat once, and once more
\* at most for each crash, failed write of the queue or lost answer.
THEOREM DuplicatesAreFaults == Spec => []DuplicatesNeedFaults
<1>1. Init => TypeOK /\ PayloadsInOrder /\ PendingRanOnlyOnFaults /\ DuplicatesNeedFaults
  <2> SUFFICES ASSUME Init PROVE PayloadsInOrder /\ PendingRanOnlyOnFaults /\ DuplicatesNeedFaults
    BY InitTypeOK
  <2>1. worker.phase \notin Holding /\ worker.phase \notin Running
    BY Phases DEF Init
  <2>2. \A s \in Slots, n \in Payloads : ran[s][n] = 0
    BY DEF Init
  <2>3. \A s \in Slots : jobs[s] # NoJob => jobs[s].payload = 1 /\ submitted[s] = 1
    BY DEF Init, FreshRow
  <2>4. QED
    BY <2>1, <2>2, <2>3 DEF Init, PayloadsInOrder, PendingRanOnlyOnFaults, DuplicatesNeedFaults
<1>2. QED
  BY <1>1, StepTypeOK, OrderStep, DuplicatesStep, PTL DEF Spec

-----------------------------------------------------------------------------
(* The contract *)

\* A row stands for the newest unit of its slot, the copy at work for a unit
\* after which none ran, and a job is finished once it ran or was refused.
UnitsInOrder ==
  /\ \A s \in Slots : jobs[s] # NoJob => jobs[s].payload = submitted[s]
  /\ worker.phase \in Holding =>
       /\ \A n \in Payloads : n > worker.payload => ran[worker.slot][n] = 0
       /\ Mine(worker.slot) => jobs[worker.slot].payload = worker.payload
  /\ worker.phase = "finish" => \/ ran[worker.slot][worker.payload] > 0
                                \/ <<worker.slot, worker.payload>> \in refused

\* Every step keeps the units in order.
LEMMA UnitsStep ==
  TypeOK /\ PayloadsInOrder /\ UnitsInOrder /\ [Next]_vars => UnitsInOrder'
<1> SUFFICES ASSUME TypeOK, PayloadsInOrder, UnitsInOrder, [Next]_vars PROVE UnitsInOrder'
  OBVIOUS
<1> USE DEF history
<1> DEFINE RowsAreNewest == \A s \in Slots : jobs[s] # NoJob => jobs[s].payload = submitted[s]
           NothingNewerRan == worker.phase \in Holding =>
             \A n \in Payloads : n > worker.payload => ran[worker.slot][n] = 0
           MineIsHeld == worker.phase \in Holding /\ Mine(worker.slot)
                           => jobs[worker.slot].payload = worker.payload
           FinishedIsDone == worker.phase = "finish" =>
             \/ ran[worker.slot][worker.payload] > 0
             \/ <<worker.slot, worker.payload>> \in refused
<1>a. worker.phase \in Holding => /\ worker.slot \in Slots /\ worker.payload \in Payloads
                                  /\ worker.attempts \in Nat \ {0}
  BY HoldingType DEF HoldingStates
<1>b. \A s \in Slots : submitted[s] \in Nat
  BY DEF TypeOK
<1>c. RowsAreNewest /\ NothingNewerRan /\ MineIsHeld /\ FinishedIsDone
  BY DEF UnitsInOrder
<1>1. CASE UNCHANGED vars
  BY <1>1 DEF vars, UnitsInOrder, Mine
<1>2. ASSUME NEW s \in Slots, Enqueue(s) PROVE UnitsInOrder'
  <2>1. /\ jobs'[s].payload = submitted'[s] /\ jobs'[s].attempts = 0
        /\ UNCHANGED <<worker, ran, refused>>
    BY <1>2 DEF Enqueue, FreshRow, TypeOK
  <2>2. \A o \in Slots : o # s => jobs'[o] = jobs[o] /\ submitted'[o] = submitted[o]
    BY <1>2 DEF Enqueue, TypeOK
  <2>3. RowsAreNewest' /\ NothingNewerRan' /\ FinishedIsDone'
    BY <1>c, <2>1, <2>2
  <2>4. MineIsHeld'
    BY <1>a, <1>c, <2>1, <2>2 DEF Mine
  <2>5. QED
    BY <2>3, <2>4 DEF UnitsInOrder
<1>3. ASSUME Next, \A s \in Slots : ~Enqueue(s) PROVE UNCHANGED submitted
  BY <1>3 DEF Next, Work, Fire, Sweep, SweepFails, NothingDue, ClaimFails, Claim, Compose, ModelFails,
     Send, SendRefused, SendFails, SendAnswerLost, Fold, FoldFails, Finish, FinishFails, Retry,
     RetryFails, Crash, Restart, Advance
<1>4. ASSUME Next, \A s \in Slots : ~Enqueue(s) PROVE RowsAreNewest'
  <2>1. ASSUME NEW s \in Slots, OldestDue(s), jobs' = [jobs EXCEPT ![s] = Leased(jobs[s])]
        PROVE  RowsAreNewest'
    <3>1. jobs[s] # NoJob /\ jobs'[s].payload = jobs[s].payload
      BY <2>1, LeasedType DEF TypeOK, OldestDue, Due
    <3>2. \A o \in Slots : o # s => jobs'[o] = jobs[o]
      BY <2>1 DEF TypeOK
    <3>3. QED
      BY <1>3, <1>4, <1>c, <3>1, <3>2
  <2>2. ASSUME \A s \in Slots : \/ jobs'[s] = jobs[s]
                                \/ Mine(s) /\ jobs'[s].payload = jobs[s].payload
        PROVE  RowsAreNewest'
    BY <1>3, <1>4, <1>c, <2>2 DEF Mine
  <2>3. ASSUME \A s \in Slots : jobs'[s] \in {jobs[s], NoJob} PROVE RowsAreNewest'
    BY <1>3, <1>4, <1>c, <2>3
  <2>4. QED
    BY <1>4, <2>1, <2>2, <2>3, RowChange
<1>5. ASSUME NEW s \in Slots, Claim(s) PROVE NothingNewerRan' /\ MineIsHeld' /\ FinishedIsDone'
  <2>1. /\ jobs[s] \in Row /\ jobs[s] # NoJob /\ jobs'[s] = Leased(jobs[s])
        /\ worker'.slot = s /\ worker'.payload = jobs[s].payload
        /\ worker'.phase = FirstPhase(Kind(s)) /\ UNCHANGED ran
        /\ refused' = IF Kind(s) \in KnownKinds THEN refused
                      ELSE refused \union {<<s, jobs[s].payload>>}
    BY <1>5, ClaimFields DEF Claim, OldestDue, Due
  <2>2. NothingNewerRan'
    BY <1>c, <2>1 DEF PayloadsInOrder
  <2>3. MineIsHeld'
    BY <2>1, LeasedType
  <2>4. FinishedIsDone'
    BY <2>1 DEF FirstPhase, KnownKinds
  <2>5. QED
    BY <2>2, <2>3, <2>4
<1>6. ASSUME worker'.phase \notin Holding PROVE NothingNewerRan' /\ MineIsHeld' /\ FinishedIsDone'
  BY <1>6, Phases
<1>7. ASSUME worker.phase \in Holding, UNCHANGED jobs,
             worker'.slot = worker.slot, worker'.attempts = worker.attempts,
             worker'.payload = worker.payload
      PROVE  MineIsHeld'
  BY <1>7, <1>c DEF Mine
<1>8. ASSUME Send \/ SendAnswerLost \/ Fold
      PROVE  NothingNewerRan' /\ MineIsHeld' /\ FinishedIsDone'
  <2>1. worker.phase \in Running /\ worker.phase \in Holding /\ CountRun /\ UNCHANGED jobs
        /\ (worker' = Closing("finish") \/ worker' = Closing("retry"))
    BY <1>8, Phases DEF Send, SendAnswerLost, Fold, Running
  <2>2. /\ worker'.slot = worker.slot /\ worker'.payload = worker.payload
        /\ worker'.attempts = worker.attempts
    BY <2>1, ClosingFields
  <2>3. /\ ran'[worker.slot][worker.payload] = ran[worker.slot][worker.payload] + 1
        /\ \A n \in Payloads : n # worker.payload => ran'[worker.slot][n] = ran[worker.slot][n]
        /\ ran[worker.slot][worker.payload] \in Nat
    BY <1>a, <2>1 DEF CountRun, TypeOK
  <2>4. NothingNewerRan' /\ FinishedIsDone'
    BY <1>a, <1>c, <2>1, <2>2, <2>3 DEF Payloads
  <2>5. QED
    BY <1>7, <2>1, <2>2, <2>4
<1>9. ASSUME Compose \/ ModelFails \/ SendFails \/ FoldFails \/ SendRefused
      PROVE  NothingNewerRan' /\ MineIsHeld' /\ FinishedIsDone'
  <2>1. /\ worker.phase \in Running /\ worker.phase \in Holding /\ UNCHANGED <<jobs, ran>>
        /\ refused \subseteq refused'
        /\ \/ worker' = Sending \/ worker' = Closing("retry")
           \/ worker' = Closing("finish") /\ <<worker.slot, worker.payload>> \in refused'
    BY <1>9, Phases DEF Compose, ModelFails, SendFails, FoldFails, SendRefused, Running, Sending
  <2>2. /\ worker'.slot = worker.slot /\ worker'.payload = worker.payload
        /\ worker'.attempts = worker.attempts
        /\ worker'.phase = "finish" => <<worker.slot, worker.payload>> \in refused'
    BY <2>1, ClosingFields, SendingFields
  <2>3. QED
    BY <1>7, <1>c, <2>1, <2>2
<1>10. ASSUME Fire \/ Advance PROVE NothingNewerRan' /\ MineIsHeld' /\ FinishedIsDone'
  <2>1. UNCHANGED <<jobs, ran, refused>> /\ (worker'.phase \in Holding => UNCHANGED worker)
    BY <1>10, Phases DEF Fire, Advance
  <2>2. QED
    BY <1>c, <2>1, Phases DEF Mine
<1>11. ASSUME Sweep \/ SweepFails \/ NothingDue \/ ClaimFails \/ Retry \/ RetryFails \/ Crash
              \/ Restart \/ Finish \/ FinishFails
       PROVE  worker'.phase \notin Holding
  <2>1. worker.phase = "finish" => worker.swept \in BOOLEAN
    BY HoldingType, Phases DEF HoldingStates
  <2>2. \A swept \in BOOLEAN : NextTurn(worker, swept).phase \in {"idle", "claim"}
    BY NextTurnFields
  <2>3. QED
    BY <1>11, <2>1, <2>2, Phases DEF Sweep, SweepFails, NothingDue, ClaimFails, Retry, RetryFails,
       Crash, Restart, Finish, FinishFails, AfterSweep
<1>12. ASSUME Next, \A s \in Slots : ~Enqueue(s)
       PROVE  NothingNewerRan' /\ MineIsHeld' /\ FinishedIsDone'
  BY <1>12, <1>5, <1>6, <1>8, <1>9, <1>10, <1>11 DEF Next, Work
<1> HIDE DEF RowsAreNewest, NothingNewerRan, MineIsHeld, FinishedIsDone
<1>13. ASSUME RowsAreNewest', NothingNewerRan', MineIsHeld', FinishedIsDone' PROVE UnitsInOrder'
  BY <1>13 DEF UnitsInOrder, RowsAreNewest, NothingNewerRan, MineIsHeld, FinishedIsDone
<1>14. QED
  BY <1>1, <1>2, <1>4, <1>12, <1>13

\* What the contract's steps do, told in the queue's terms.
LEMMA ContractSteps ==
  /\ \A s : Contract!Submit(s) <=>
       /\ submitted' = [submitted EXCEPT ![s] = @ + 1]
       /\ PendingUnits' = [PendingUnits EXCEPT ![s] = submitted[s] + 1]
       /\ UNCHANGED <<UnitsCarriedOut, refused, expired>>
  /\ \A s, n : Contract!CarryOut(s, n) <=>
       /\ n \in 1 .. submitted[s]
       /\ \A m \in (n + 1) .. submitted[s] : <<s, m>> \notin UnitsCarriedOut
       /\ UnitsCarriedOut' = UnitsCarriedOut \union {<<s, n>>}
       /\ UNCHANGED <<PendingUnits, submitted, refused, expired>>
  /\ \A s, n : Contract!Refuse(s, n) <=>
       /\ n \in 1 .. submitted[s]
       /\ refused' = refused \union {<<s, n>>}
       /\ UNCHANGED <<PendingUnits, submitted, UnitsCarriedOut, expired>>
  /\ \A s : Contract!Settle(s) <=>
       /\ PendingUnits[s] # 0
       /\ <<s, PendingUnits[s]>> \in UnitsCarriedOut \union refused
       /\ PendingUnits' = [PendingUnits EXCEPT ![s] = 0]
       /\ UNCHANGED <<submitted, UnitsCarriedOut, refused, expired>>
  /\ \A S : Contract!Expire(S) <=>
       /\ \A s \in S : PendingUnits[s] # 0
       /\ expired' = expired \union {<<s, PendingUnits[s]>> : s \in S}
       /\ PendingUnits' = [s \in Slots |-> IF s \in S THEN 0 ELSE PendingUnits[s]]
       /\ UNCHANGED <<submitted, UnitsCarriedOut, refused>>
  /\ (UNCHANGED Contract!contractVars) <=>
       UNCHANGED <<PendingUnits, submitted, UnitsCarriedOut, refused, expired>>
BY DEF Contract!Submit, Contract!CarryOut, Contract!Refuse, Contract!Settle, Contract!Expire,
       Contract!contractVars

\* Units that run or are done with were submitted, and a pending one is numbered.
LEMMA UnitTypes ==
  ASSUME TypeOK, PayloadsInOrder, NEW s \in Slots
  PROVE  /\ PendingUnits \in [Slots -> Nat]
         /\ PendingUnits[s] = IF jobs[s] = NoJob THEN 0 ELSE jobs[s].payload
         /\ jobs[s] # NoJob => PendingUnits[s] \in 1 .. submitted[s]
         /\ \A n \in Payloads : <<s, n>> \in UnitsCarriedOut <=> ran[s][n] > 0
<1>1. \A o \in Slots : jobs[o] # NoJob => jobs[o] \in Row /\ jobs[o].payload \in Payloads
  BY DEF TypeOK, Row
<1>2. \A o \in Slots : submitted[o] \in Nat
  BY DEF TypeOK
<1>3. PendingUnits \in [Slots -> Nat]
  BY <1>1 DEF PendingUnits, Payloads
<1>4. PendingUnits[s] = IF jobs[s] = NoJob THEN 0 ELSE jobs[s].payload
  BY DEF PendingUnits
<1>5. jobs[s] # NoJob => PendingUnits[s] \in 1 .. submitted[s]
  BY <1>1, <1>2, <1>4 DEF PayloadsInOrder, Payloads
<1>6. \A n \in Payloads : <<s, n>> \in UnitsCarriedOut <=> ran[s][n] > 0
  BY DEF UnitsCarriedOut
<1>7. QED
  BY <1>3, <1>4, <1>5, <1>6

\* Rows that stay for the same unit leave what is pending as it is.
LEMMA SamePending ==
  ASSUME \A s \in Slots : \/ jobs'[s] = jobs[s]
                          \/ /\ jobs[s] # NoJob /\ jobs'[s] # NoJob
                             /\ jobs'[s].payload = jobs[s].payload
  PROVE  UNCHANGED PendingUnits
BY DEF PendingUnits

\* What was left behind for the process is what the contract begins with.
LEMMA InitSimulates == Init => Contract!Init
<1> SUFFICES ASSUME Init PROVE Contract!Init
  OBVIOUS
<1>1. \A s \in Slots : jobs[s] # NoJob => jobs[s].payload = 1
  BY DEF Init, FreshRow
<1>2. PendingUnits = [s \in Slots |-> IF jobs[s] = NoJob THEN 0 ELSE 1]
  BY <1>1 DEF PendingUnits
<1>3. submitted = PendingUnits /\ PendingUnits \in [Slots -> {0, 1}]
  BY <1>2 DEF Init
<1>4. UnitsCarriedOut = {}
  BY DEF Init, UnitsCarriedOut
<1>5. refused = {} /\ expired = {}
  BY DEF Init
<1>6. QED
  BY <1>3, <1>4, <1>5 DEF Contract!Init

\* Every step of the queue is a step of its contract, or none: a claim, a retry,
\* a crash and a restart are hidden by the lease and the table.
LEMMA StepSimulates ==
  TypeOK /\ PayloadsInOrder /\ UnitsInOrder /\ [Next]_vars
    => [Contract!Next]_(Contract!contractVars)
<1> SUFFICES ASSUME TypeOK, PayloadsInOrder, UnitsInOrder, [Next]_vars
             PROVE  Contract!Next \/ UNCHANGED Contract!contractVars
  OBVIOUS
<1> USE DEF history
<1>a. worker.phase \in Holding => /\ worker.slot \in Slots /\ worker.payload \in Payloads
                                  /\ worker.payload \in 1 .. submitted[worker.slot]
  <2>1. \A s \in Slots : submitted[s] \in Nat
    BY DEF TypeOK
  <2>2. QED
    BY <2>1, HoldingType DEF HoldingStates, PayloadsInOrder, Payloads
<1>b. /\ \A s \in Slots : Contract!Submit(s) => Contract!Next
      /\ \A s \in Slots : Contract!Settle(s) => Contract!Next
      /\ \A S \in SUBSET Slots : Contract!Expire(S) => Contract!Next
  BY DEF Contract!Next
<1>c. \A s \in Slots : \A n \in 1 .. submitted[s] :
        Contract!CarryOut(s, n) \/ Contract!Refuse(s, n) => Contract!Next
  BY DEF Contract!Next
<1>d. ASSUME UNCHANGED ran PROVE UNCHANGED UnitsCarriedOut
  BY <1>d DEF UnitsCarriedOut
<1>e. ASSUME UNCHANGED jobs PROVE UNCHANGED PendingUnits
  BY <1>e, SamePending
<1>1. CASE \/ UNCHANGED vars \/ Fire \/ NothingDue \/ Compose \/ ModelFails \/ SendFails
           \/ FoldFails \/ FinishFails \/ RetryFails \/ Crash \/ Restart \/ Advance
  <2>1. UNCHANGED <<jobs, ran, submitted, refused, expired>>
    BY <1>1 DEF vars, Fire, NothingDue, Compose, ModelFails, SendFails, FoldFails, FinishFails,
                RetryFails, Crash, Restart, Advance
  <2>2. QED
    BY <1>d, <1>e, <2>1, ContractSteps
<1>2. ASSUME NEW s \in Slots, Enqueue(s) PROVE Contract!Next
  <2>1. /\ submitted' = [submitted EXCEPT ![s] = @ + 1]
        /\ jobs' = [jobs EXCEPT ![s] = FreshRow(s, submitted[s] + 1)]
        /\ UNCHANGED <<ran, refused, expired>> /\ submitted[s] + 1 \in Payloads
    BY <1>2, Durations DEF Enqueue, Payloads, TypeOK
  <2>2. FreshRow(s, submitted[s] + 1) # NoJob
    BY <2>1, FreshRowType, NoJobAssumption
  <2>3. /\ jobs'[s] # NoJob /\ jobs'[s].payload = submitted[s] + 1
        /\ \A o \in Slots : o # s => jobs'[o] = jobs[o]
    BY <2>1, <2>2 DEF FreshRow, TypeOK
  <2>4. PendingUnits' = [PendingUnits EXCEPT ![s] = submitted[s] + 1]
    BY <2>3 DEF PendingUnits
  <2>5. Contract!Submit(s)
    BY <1>d, <2>1, <2>4, ContractSteps
  <2>6. QED
    BY <1>b, <2>5
<1>3. CASE Sweep \/ SweepFails
  <2>1. UNCHANGED <<ran, submitted, refused>>
    BY <1>3 DEF Sweep, SweepFails
  <2>2. CASE UNCHANGED <<jobs, expired>>
    BY <1>d, <1>e, <2>1, <2>2, ContractSteps
  <2>3. CASE ExpireOverdue
    <3>1. \A s \in Overdue : s \in Slots /\ jobs[s] # NoJob
      BY DEF Overdue
    <3>2. \A s \in Overdue : PendingUnits[s] # 0 /\ PendingUnits[s] = jobs[s].payload
      BY <3>1, UnitTypes
    <3>3. PendingUnits' = [s \in Slots |-> IF s \in Overdue THEN 0 ELSE PendingUnits[s]]
      BY <2>3 DEF ExpireOverdue, Without, PendingUnits
    <3>4. expired' = expired \union {<<s, PendingUnits[s]>> : s \in Overdue}
      BY <2>3, <3>2 DEF ExpireOverdue
    <3>5. Contract!Expire(Overdue)
      BY <1>d, <2>1, <3>2, <3>3, <3>4, ContractSteps
    <3>6. QED
      BY <1>b, <3>1, <3>5
  <2>4. QED
    BY <1>3, <2>2, <2>3 DEF Sweep, SweepFails
<1>4. ASSUME NEW s \in Slots, OldestDue(s), jobs' = [jobs EXCEPT ![s] = Leased(jobs[s])]
      PROVE  UNCHANGED PendingUnits
  <2>1. jobs[s] # NoJob /\ jobs[s] \in Row
    BY <1>4 DEF OldestDue, Due, TypeOK
  <2>2. Leased(jobs[s]) # NoJob /\ Leased(jobs[s]).payload = jobs[s].payload
    BY <2>1, LeasedType, NoJobAssumption
  <2>3. jobs'[s] = Leased(jobs[s]) /\ \A o \in Slots : o # s => jobs'[o] = jobs[o]
    BY <1>4 DEF TypeOK
  <2>4. QED
    BY <2>1, <2>2, <2>3, SamePending
<1>5. ASSUME NEW s \in Slots, Claim(s) PROVE Contract!Next \/ UNCHANGED Contract!contractVars
  <2>1. /\ UNCHANGED <<ran, submitted, expired>> /\ UNCHANGED PendingUnits
        /\ jobs[s] # NoJob
        /\ refused' = IF Kind(s) \in KnownKinds THEN refused
                      ELSE refused \union {<<s, jobs[s].payload>>}
    BY <1>4, <1>5 DEF Claim, OldestDue, Due
  <2>2. CASE Kind(s) \in KnownKinds
    BY <1>d, <2>1, <2>2, ContractSteps
  <2>3. CASE Kind(s) \notin KnownKinds
    <3>1. jobs[s].payload \in 1 .. submitted[s]
      BY <2>1, UnitTypes
    <3>2. Contract!Refuse(s, jobs[s].payload)
      BY <1>d, <2>1, <2>3, <3>1, ContractSteps
    <3>3. QED
      BY <1>c, <3>1, <3>2
  <2>4. QED
    BY <2>2, <2>3
<1>6. CASE ClaimFails
  <2>1. UNCHANGED <<ran, submitted, refused, expired>>
    BY <1>6 DEF ClaimFails
  <2>2. UNCHANGED PendingUnits
    BY <1>4, <1>6, <1>e DEF ClaimFails
  <2>3. QED
    BY <1>d, <2>1, <2>2, ContractSteps
<1>7. CASE Send \/ SendAnswerLost \/ Fold
  <2> DEFINE s == worker.slot
             n == worker.payload
  <2>1. worker.phase \in Holding /\ CountRun /\ UNCHANGED <<jobs, submitted, refused, expired>>
    BY <1>7, Phases DEF Send, SendAnswerLost, Fold, Running
  <2>2. s \in Slots /\ n \in Payloads /\ n \in 1 .. submitted[s]
    BY <1>a, <2>1
  <2>3. /\ ran'[s][n] = ran[s][n] + 1 /\ ran[s][n] \in Nat
        /\ \A o \in Slots, i \in Payloads : o # s \/ i # n => ran'[o][i] = ran[o][i]
    BY <2>1, <2>2 DEF CountRun, TypeOK
  <2>4. UnitsCarriedOut' = UnitsCarriedOut \union {<<s, n>>}
    <3>1. \A o \in Slots, i \in Payloads : ran'[o][i] > 0 <=> ran[o][i] > 0 \/ <<o, i>> = <<s, n>>
      BY <2>3
    <3>2. QED
      BY <2>2, <3>1 DEF UnitsCarriedOut
  <2>5. ASSUME NEW m \in (n + 1) .. submitted[s] PROVE <<s, m>> \notin UnitsCarriedOut
    <3>1. submitted[s] \in 0 .. MaxSubmits /\ MaxSubmits \in Nat
      BY <2>2, Durations DEF TypeOK
    <3>2. m \in Payloads /\ m > n
      BY <2>2, <3>1 DEF Payloads
    <3>3. ran[s][m] = 0
      BY <2>1, <3>2 DEF UnitsInOrder
    <3>4. QED
      BY <2>2, <3>2, <3>3, UnitTypes
  <2>6. Contract!CarryOut(s, n)
    BY <1>e, <2>1, <2>2, <2>4, <2>5, ContractSteps
  <2>7. QED
    BY <1>c, <2>2, <2>6
<1>8. CASE SendRefused
  <2>1. /\ worker.phase \in Holding /\ UNCHANGED <<jobs, ran, submitted, expired>>
        /\ refused' = refused \union {<<worker.slot, worker.payload>>}
    BY <1>8, Phases DEF SendRefused, Running
  <2>2. Contract!Refuse(worker.slot, worker.payload)
    BY <1>a, <1>d, <1>e, <2>1, ContractSteps
  <2>3. QED
    BY <1>a, <1>c, <2>1, <2>2
<1>9. CASE Finish
  <2> DEFINE s == worker.slot
  <2>1. /\ worker.phase = "finish" /\ worker.phase \in Holding
        /\ jobs' = Without({o \in Slots : Mine(o)})
        /\ UNCHANGED <<ran, submitted, refused, expired>>
    BY <1>9, Phases DEF Finish
  <2>2. CASE ~Mine(s)
    <3>1. {o \in Slots : Mine(o)} = {}
      BY <2>2 DEF Mine
    <3>2. UNCHANGED PendingUnits
      BY <2>1, <3>1, SamePending DEF Without
    <3>3. QED
      BY <1>d, <2>1, <3>2, ContractSteps
  <2>3. CASE Mine(s)
    <3>1. s \in Slots /\ worker.payload \in Payloads
      BY <1>a, <2>1
    <3>2. jobs[s] # NoJob /\ jobs[s].payload = worker.payload
      BY <2>1, <2>3 DEF UnitsInOrder, Mine
    <3>3. PendingUnits[s] = worker.payload /\ PendingUnits[s] # 0
      BY <3>1, <3>2, UnitTypes
    <3>4. ran[s][worker.payload] > 0 \/ <<s, worker.payload>> \in refused
      BY <2>1 DEF UnitsInOrder
    <3>5. <<s, PendingUnits[s]>> \in UnitsCarriedOut \union refused
      BY <3>1, <3>3, <3>4, UnitTypes
    <3>6. jobs' = Without({s})
      BY <2>1, <2>3, <3>1 DEF Mine
    <3>7. PendingUnits' = [PendingUnits EXCEPT ![s] = 0]
      BY <3>1, <3>6 DEF PendingUnits, Without
    <3>8. Contract!Settle(s)
      BY <1>d, <2>1, <3>3, <3>5, <3>7, ContractSteps
    <3>9. QED
      BY <1>b, <3>1, <3>8
  <2>4. QED
    BY <2>2, <2>3
<1>10. CASE Retry
  <2>1. worker.phase = "retry" /\ UNCHANGED <<ran, submitted, refused, expired>>
    BY <1>10 DEF Retry
  <2>2. worker.attempts \in Nat
    BY <2>1, HoldingType, Phases DEF HoldingStates
  <2>3. now + Backoff(worker.attempts) \in Nat
    BY <2>2, BackoffIsCapped, Durations DEF TypeOK
  <2>4. ASSUME NEW s \in Slots
        PROVE  \/ jobs'[s] = jobs[s]
               \/ /\ jobs[s] # NoJob /\ jobs'[s] # NoJob
                  /\ jobs'[s].payload = jobs[s].payload
    <3>1. CASE ~Mine(s)
      BY <1>10, <3>1 DEF Retry
    <3>2. CASE Mine(s)
      <4>1. jobs[s] # NoJob /\ jobs[s] \in Row
        BY <3>2 DEF Mine, TypeOK
      <4>2. jobs'[s] = [jobs[s] EXCEPT !.runAfter = now + Backoff(worker.attempts)]
        BY <1>10, <3>2 DEF Retry
      <4>3. jobs'[s] \in Row
        BY <2>3, <4>1, <4>2 DEF Row
      <4>4. QED
        BY <2>3, <4>1, <4>2, <4>3, RetriedRow, NoJobAssumption
    <3>3. QED
      BY <3>1, <3>2
  <2>5. QED
    BY <1>d, <2>1, <2>4, SamePending, ContractSteps
<1>11. QED
  BY <1>1, <1>2, <1>3, <1>5, <1>6, <1>7, <1>8, <1>9, <1>10 DEF Next, Work

\* The queue implements its contract for every table, timeout and fault: a unit
\* leaves it only when it ran, was refused, expired or was superseded, and none
\* runs after a newer one of its slot did (scheduler/queue.go).
THEOREM QueueKeepsContract == Spec => KeepsContract
<1> DEFINE IInv == TypeOK /\ PayloadsInOrder /\ UnitsInOrder
<1>1. Init => IInv
  <2> SUFFICES ASSUME Init PROVE PayloadsInOrder /\ UnitsInOrder
    BY InitTypeOK
  <2>1. worker.phase \notin Holding /\ worker.phase # "finish"
    BY Phases DEF Init
  <2>2. \A s \in Slots, n \in Payloads : ran[s][n] = 0
    BY DEF Init
  <2>3. \A s \in Slots : jobs[s] # NoJob => jobs[s].payload = 1 /\ submitted[s] = 1
    BY DEF Init, FreshRow
  <2>4. QED
    BY <2>1, <2>2, <2>3 DEF PayloadsInOrder, UnitsInOrder
<1>2. IInv /\ [Next]_vars => IInv'
  BY StepTypeOK, OrderStep, UnitsStep
<1>3. IInv /\ [Next]_vars => [Contract!Next]_(Contract!contractVars)
  BY StepSimulates
<1> HIDE DEF IInv
<1>4. QED
  BY <1>1, <1>2, <1>3, InitSimulates, PTL DEF Spec, KeepsContract, Contract!Spec
-----------------------------------------------------------------------------
(* An outage of the model: everybody gets a turn before the day is over *)

\* One turn on the chain: at most the chat's timeout, and the instant cron
\* needs to start the next drain.
Turn == ChatTimeout + 1

\* The day is longer than the wait for the model, one full backoff and a turn
\* of every job the table can hold.
RoomForAll ==
  /\ IsFiniteSet(Slots)
  /\ ChatTimeout <= DrainBudget
  /\ \A s \in Slots : Kind(s) = "winner" =>
       CeremonyBudget + MaxBackoff + Turn * Cardinality(Slots) < TTL[Kind(s)]

\* Once cron fired, the next drain is an instant away.
Pause == IF fired THEN 1 ELSE 0

\* The instant by which the worker takes the next job.
FreeAt == IF worker.phase \in Running THEN worker.jobDeadline + 1
          ELSE IF worker.phase \in {"finish", "retry"} THEN now + 1
          ELSE IF worker.phase = "idle" THEN now + Pause ELSE now

\* The jobs the table may hand out before s.
Ahead(s) == {o \in Slots \ {s} : jobs[o] # NoJob /\ jobs[o].runAfter <= jobs[s].runAfter}

\* A due job is served after the turns of those ahead of it: as many turns as
\* there are jobs after it became due, at the latest.
TurnsCome ==
  configured => \A s \in Slots : Due(s) =>
    FreeAt + Turn * Cardinality(Ahead(s)) <= jobs[s].runAfter + Turn * Cardinality(Slots)

\* While only the model fails the process lives, a drain sweeps the instant it
\* starts, a job has its own timeout at most, and a row needs a chain.
OnlyTheModelFailed ==
  /\ faults = 0 /\ worker.phase # "down"
  /\ worker.phase = "sweep" => worker.start = now
  /\ worker.phase \in Running => worker.jobDeadline <= now + ChatTimeout
  /\ worker.phase = "fold" => Kind(worker.slot) = "memory"
  /\ \A s \in Slots : jobs[s] # NoJob /\ Kind(s) = "winner" => configured

Held(s) == worker.phase \in Holding /\ Mine(s)

\* The copy the worker holds expires with its row.
CopyOfRow == \A s \in Slots : Held(s) => worker.expiresAt = jobs[s].expiresAt

\* The last instant an announcement may be put off to: the end of the wait for
\* the model and one full backoff.
LastTry(s, expiresAt) == expiresAt - TTL[Kind(s)] + CeremonyBudget + MaxBackoff

\* An announcement nobody works on is due by its last try, and one on its way
\* back to the table will be.
WaitsInTime(s) == jobs[s].runAfter <= LastTry(s, jobs[s].expiresAt)

BackInTime == now + MaxBackoff <= LastTry(worker.slot, worker.expiresAt)

TriedInTime ==
  /\ \A s \in Slots : Kind(s) = "winner" /\ jobs[s] # NoJob /\ ~Held(s) => WaitsInTime(s)
  /\ worker.phase = "retry" /\ Kind(worker.slot) = "winner" => BackInTime

\* No announcement was dropped by a sweep.
NoneExpired == \A s \in Slots, n \in Payloads : Kind(s) = "winner" => <<s, n>> \notin expired

\* Without failures other than the model's, a step is one of these.
LEMMA OutageSteps ==
  ASSUME OnlyModelFails, MaxFaults = 0, OnlyTheModelFailed, Next
  PROVE  /\ \/ \E s \in Slots : Enqueue(s) \/ Claim(s)
            \/ Fire \/ Sweep \/ NothingDue \/ Compose \/ ModelFails \/ Send
            \/ Fold \/ FoldFails \/ Finish \/ Retry \/ Advance
         /\ UNCHANGED configured
         /\ faults' = 0
<1> USE DEF history
<1>1. ~Fault
  BY DEF Fault, OnlyTheModelFailed
<1>2. ~SweepFails /\ ~ClaimFails /\ ~SendRefused /\ ~SendFails /\ ~SendAnswerLost
      /\ ~FinishFails /\ ~RetryFails /\ ~Crash /\ ~Restart
  BY <1>1 DEF SweepFails, ClaimFails, SendRefused, SendFails, SendAnswerLost, FinishFails,
              RetryFails, Crash, Restart, OnlyTheModelFailed
<1>3. ASSUME NEW s \in Slots, Enqueue(s) \/ Claim(s) PROVE UNCHANGED <<configured, faults>>
  BY <1>3 DEF Enqueue, Claim
<1>4. Fire \/ Sweep \/ NothingDue \/ Compose \/ ModelFails \/ Send \/ Fold \/ FoldFails
      \/ Finish \/ Retry \/ Advance => UNCHANGED <<configured, faults>>
  BY DEF Fire, Sweep, NothingDue, Compose, ModelFails, Send, Fold, FoldFails, Finish, Retry,
         Advance
<1>5. QED
  BY <1>2, <1>3, <1>4 DEF Next, Work, OnlyTheModelFailed

\* Of N jobs at most N - 1 are ahead of one.
LEMMA AheadSize ==
  ASSUME RoomForAll, NEW s \in Slots, NEW A, A \subseteq Slots \ {s}
  PROVE  /\ IsFiniteSet(A) /\ Cardinality(A) \in Nat /\ Cardinality(Slots) \in Nat
         /\ Cardinality(A) + 1 <= Cardinality(Slots)
<1>1. IsFiniteSet(Slots \ {s}) /\ Cardinality(Slots \ {s}) = Cardinality(Slots) - 1
  BY FS_RemoveElement DEF RoomForAll
<1>2. Cardinality(Slots) \in Nat
  BY FS_CardinalityType DEF RoomForAll
<1>3. IsFiniteSet(A) /\ Cardinality(A) <= Cardinality(Slots \ {s})
  BY <1>1, FS_Subset
<1>4. Cardinality(A) \in Nat
  BY <1>3, FS_CardinalityType
<1>5. QED
  BY <1>1, <1>2, <1>3, <1>4

\* More jobs take more turns.
LEMMA TurnsAddUp ==
  /\ Turn \in Nat
  /\ \A a \in Nat : Turn * a \in Nat /\ Turn * (a + 1) = Turn * a + Turn
  /\ \A a, b \in Nat : a <= b => Turn * a <= Turn * b
<1>1. Turn \in Nat
  BY Durations DEF Turn
<1>2. \A t, a \in Nat : t * a \in Nat /\ t * (a + 1) = t * a + t
  OBVIOUS
<1>3. ASSUME NEW t \in Nat, NEW a \in Nat, NEW b \in Nat, a <= b PROVE t * a <= t * b
  <2>1. PICK d \in Nat : b = a + d
    <3>1. b - a \in Nat /\ b = a + (b - a)
      BY <1>3
    <3>2. QED
      BY <3>1
  <2>2. t * b = t * a + t * d /\ t * d \in Nat /\ t * a \in Nat
    BY <2>1
  <2>3. QED
    BY <2>2
<1>4. QED
  BY <1>1, <1>2, <1>3

\* A pause is there or not.
LEMMA PauseValues ==
  /\ Pause \in 0 .. 1 /\ Pause' \in 0 .. 1
  /\ fired => Pause = 1
  /\ ~fired => Pause = 0
  /\ ~fired' => Pause' = 0
  /\ UNCHANGED fired => Pause' = Pause
<1>1. 0 \in 0 .. 1 /\ 1 \in 0 .. 1
  OBVIOUS
<1>2. Pause = 0 \/ Pause = 1
  BY Zenon DEF Pause
<1>3. Pause' = 0 \/ Pause' = 1
  BY Zenon DEF Pause
<1>4. (fired => Pause = 1) /\ (~fired => Pause = 0)
  BY Zenon DEF Pause
<1>5. ~fired' => Pause' = 0
  BY Zenon DEF Pause
<1>6. ASSUME UNCHANGED fired PROVE Pause' = Pause
  BY <1>6 DEF Pause
<1>7. QED
  BY <1>1, <1>2, <1>3, <1>4, <1>5, <1>6

\* Adding a pause or an instant to the clock.
LEMMA Instants ==
  \A t \in Nat : /\ t + 1 \in Nat
                /\ \A p \in 0 .. 1 : t + p \in Nat /\ t + p <= t + 1 /\ (p = 0 => t + p = t)
OBVIOUS

\* The worker's phases, one by one.
LEMMA EveryPhase ==
  ASSUME TypeOK
  PROVE  /\ worker.phase \in Running \union {"finish", "retry", "sweep", "claim", "down", "idle"}
         /\ worker.phase \in Running => worker.jobDeadline \in Nat
         /\ fired \in BOOLEAN
BY DEF TypeOK, WorkerStates, HoldingStates, Holding, Running

\* The helpers of this section are numbers, and the worker is free within a turn.
LEMMA OutageTypes ==
  ASSUME TypeOK
  PROVE  /\ now \in Nat /\ FreeAt \in Nat
         /\ \A s \in Slots : jobs[s] # NoJob => /\ jobs[s] \in Row /\ jobs[s].runAfter \in Nat
                                                /\ jobs[s].expiresAt \in Nat
         /\ OnlyTheModelFailed => FreeAt <= now + Turn
<1>1. now \in Nat /\ ChatTimeout \in Nat
  BY Durations DEF TypeOK
<1>2. \A s \in Slots : jobs[s] # NoJob => /\ jobs[s] \in Row /\ jobs[s].runAfter \in Nat
                                         /\ jobs[s].expiresAt \in Nat
  BY DEF TypeOK, Row
<1>3. worker.phase \in Running => worker.jobDeadline \in Nat
  BY EveryPhase
<1>4. QED
  BY <1>1, <1>2, <1>3, PauseValues DEF FreeAt, OnlyTheModelFailed, Turn

\* The same after a step.
LEMMA OutageTypesThen ==
  ASSUME TypeOK'
  PROVE  /\ now' \in Nat /\ FreeAt' \in Nat
         /\ \A s \in Slots : jobs'[s] # NoJob => jobs'[s].runAfter \in Nat
         /\ OnlyTheModelFailed' => FreeAt' <= now' + Turn
<1>1. now' \in Nat /\ ChatTimeout \in Nat
  BY Durations DEF TypeOK
<1>2. \A s \in Slots : jobs'[s] # NoJob => jobs'[s].runAfter \in Nat
  BY DEF TypeOK, Row
<1>3. worker'.phase \in Running => worker'.jobDeadline \in Nat
  BY DEF TypeOK, WorkerStates, HoldingStates, Holding, Running
<1>4. FreeAt' \in Nat
  <2>1. FreeAt' \in {worker'.jobDeadline + 1, now' + 1, now' + Pause', now'}
        /\ (worker'.phase \notin Running => FreeAt' \in {now' + 1, now' + Pause', now'})
    BY DEF FreeAt
  <2>2. now' + 1 \in Nat /\ now' + Pause' \in Nat
    BY <1>1, PauseValues, Instants, Zenon
  <2>3. worker'.phase \in Running => worker'.jobDeadline + 1 \in Nat
    BY <1>3, Instants, Zenon
  <2>4. QED
    BY <1>1, <2>1, <2>2, <2>3
<1>5. OnlyTheModelFailed' => FreeAt' <= now' + Turn
  BY <1>1, <1>3, PauseValues DEF FreeAt, OnlyTheModelFailed, Turn
<1>6. QED
  BY <1>1, <1>2, <1>4, <1>5

\* A step other than a claim gives no row a turn before a due one: rows stay,
\* go, or come back due now or later.
LEMMA RowsWaitBehind ==
  ASSUME TypeOK, Next, \A s \in Slots : ~Claim(s), OnlyModelFails, MaxFaults = 0,
         OnlyTheModelFailed
  PROVE  \A s \in Slots : jobs'[s] # NoJob => jobs'[s] = jobs[s] \/ jobs'[s].runAfter >= now
<1> USE DEF history
<1>1. ASSUME NEW s \in Slots, Enqueue(s)
      PROVE  \A o \in Slots : jobs'[o] = jobs[o] \/ jobs'[o].runAfter >= now
  <2>1. jobs'[s].runAfter = now /\ now \in Nat
    BY <1>1 DEF Enqueue, FreshRow, TypeOK
  <2>2. QED
    BY <1>1, <2>1 DEF Enqueue, TypeOK
<1>2. Sweep \/ Finish => \A s \in Slots : jobs'[s] # NoJob => jobs'[s] = jobs[s]
  BY DEF Sweep, Finish, ExpireOverdue, Without
<1>3. Fire \/ NothingDue \/ Compose \/ ModelFails \/ Send \/ Fold \/ FoldFails \/ Advance
        => UNCHANGED jobs
  BY DEF Fire, NothingDue, Compose, ModelFails, Send, Fold, FoldFails, Advance
<1>4. ASSUME Retry, NEW s \in Slots PROVE jobs'[s] = jobs[s] \/ jobs'[s].runAfter >= now
  <2>1. worker.attempts \in Nat
    BY <1>4, HoldingType, Phases DEF Retry, HoldingStates
  <2>2. now \in Nat /\ Backoff(worker.attempts) \in Nat
    BY <2>1, BackoffIsCapped DEF TypeOK
  <2>3. CASE Mine(s)
    <3>1. jobs'[s] = [jobs[s] EXCEPT !.runAfter = now + Backoff(worker.attempts)]
          /\ jobs[s] \in Row
      BY <1>4, <2>3 DEF Retry, Mine, TypeOK
    <3>2. jobs'[s].runAfter = now + Backoff(worker.attempts)
      BY <3>1 DEF Row
    <3>3. QED
      BY <2>2, <3>2
  <2>4. QED
    BY <1>4, <2>3 DEF Retry
<1>5. QED
  BY <1>1, <1>2, <1>3, <1>4, OutageSteps

\* A claim takes the job at the head, for no longer than a turn.
LEMMA ClaimTakesATurn ==
  ASSUME TypeOK, OnlyTheModelFailed, NEW o \in Slots, Claim(o)
  PROVE  /\ FreeAt = now /\ FreeAt' <= now + Turn /\ FreeAt' \in Nat
         /\ jobs'[o].runAfter > now
         /\ worker'.phase \in Running => worker'.jobDeadline <= now + ChatTimeout
         /\ worker'.phase \in {"model", "fold", "finish"}
         /\ worker'.phase = "fold" => Kind(worker'.slot) = "memory"
         /\ UNCHANGED now
<1>1. now \in Nat /\ ChatTimeout \in Nat /\ DrainBudget \in Nat
  BY OutageTypes, Durations
<1>2. worker.phase = "claim" /\ UNCHANGED now
  BY DEF Claim
<1>3. worker.start \in Nat
  BY <1>2 DEF TypeOK, WorkerStates, HoldingStates, Holding, Running
<1>4. worker'.jobDeadline \in Nat /\ worker'.jobDeadline <= now + ChatTimeout
  BY <1>1, <1>3, ClaimFields DEF Lesser
<1>5. worker'.phase = FirstPhase(Kind(o)) /\ worker'.slot = o
  BY ClaimFields
<1>6. worker'.phase \in {"model", "fold", "finish"}
      /\ (worker'.phase = "fold" => Kind(worker'.slot) = "memory")
  BY <1>5 DEF FirstPhase
<1>7. jobs'[o].runAfter = now + Lease /\ Lease \in Nat /\ Lease > 0
  BY ClaimFields, LeasedType, LeaseAssumption, Durations
<1>8. QED
  BY <1>1, <1>2, <1>4, <1>6, <1>7 DEF FreeAt, Running, Turn

\* Every step keeps the outage an outage of the model alone.
LEMMA OutageStep ==
  ASSUME OnlyModelFails, MaxFaults = 0, RoomForAll
  PROVE  TypeOK /\ OnlyTheModelFailed /\ [Next]_vars => OnlyTheModelFailed'
<1> SUFFICES ASSUME TypeOK, OnlyTheModelFailed, [Next]_vars PROVE OnlyTheModelFailed'
  OBVIOUS
<1> USE DEF history
<1>a. CASE UNCHANGED vars
  BY <1>a DEF vars, OnlyTheModelFailed
<1>b. CASE Next
  <2>0. now \in Nat /\ ChatTimeout \in Nat
    BY OutageTypes, Durations
  <2>1. faults' = 0 /\ UNCHANGED configured
    BY <1>b, OutageSteps
  <2>2. \A s \in Slots : jobs'[s] # NoJob /\ Kind(s) = "winner" => configured'
    <3>1. \A s \in Slots : Enqueue(s) => configured'
      BY DEF Enqueue
    <3>2. ASSUME NEW o \in Slots, OldestDue(o), jobs' = [jobs EXCEPT ![o] = Leased(jobs[o])]
          PROVE  \A s \in Slots : jobs'[s] # NoJob => jobs[s] # NoJob
      BY <3>2 DEF OldestDue, Due, TypeOK
    <3>3. QED
      BY <1>b, <2>1, <3>1, <3>2, RowChange DEF OnlyTheModelFailed, Mine
  <2> DEFINE Parts == /\ worker'.phase # "down"
                      /\ worker'.phase = "sweep" => worker'.start = now'
                      /\ worker'.phase \in Running => worker'.jobDeadline <= now' + ChatTimeout
                      /\ worker'.phase = "fold" => Kind(worker'.slot) = "memory"
  <2>3. ASSUME NEW s \in Slots, Claim(s) PROVE Parts
    BY <2>3, ClaimTakesATurn DEF Running
  <2>4. ASSUME NEW s \in Slots, Enqueue(s) PROVE Parts
    BY <2>4 DEF Enqueue, OnlyTheModelFailed
  <2>5. ASSUME Fire PROVE Parts
    BY <2>5 DEF Fire, OnlyTheModelFailed, Running
  <2>6. ASSUME Sweep \/ Finish \/ NothingDue \/ Retry PROVE Parts
    <3>1. worker'.phase \in {"idle", "claim"}
      BY <2>6, NextTurnFields, Phases, HoldingType
         DEF Sweep, AfterSweep, Finish, NothingDue, Retry, HoldingStates
    <3>2. QED
      BY <3>1, Phases DEF Running
  <2>7. ASSUME Compose \/ ModelFails \/ Send \/ Fold \/ FoldFails PROVE Parts
    <3>1. /\ worker.phase \in Running /\ UNCHANGED now
          /\ worker' \in {Sending, Closing("finish"), Closing("retry")}
      BY <2>7 DEF Compose, ModelFails, Send, Fold, FoldFails, Running, Sending
    <3>2. worker'.phase \in {"send", "finish", "retry"} /\ worker'.jobDeadline = worker.jobDeadline
      BY <3>1, SendingFields, ClosingFields
    <3>3. QED
      BY <3>1, <3>2 DEF OnlyTheModelFailed, Running
  <2>8. ASSUME Advance PROVE Parts
    <3>1. UNCHANGED worker /\ now' \in Nat /\ now <= now'
      BY <2>8, <2>0, Durations DEF Advance, Lesser, TypeOK
    <3>2. worker.phase # "sweep"
      BY <2>8 DEF Advance, InTick, Running
    <3>3. worker.phase \in Running => worker.jobDeadline \in Nat
      BY HoldingType, Phases DEF HoldingStates
    <3>4. QED
      BY <2>0, <3>1, <3>2, <3>3 DEF OnlyTheModelFailed
  <2>9. Parts
    BY <1>b, <2>3, <2>4, <2>5, <2>6, <2>7, <2>8, OutageSteps
  <2>10. QED
    BY <2>1, <2>2, <2>9 DEF OnlyTheModelFailed
<1>c. QED
  BY <1>a, <1>b

\* Where no row passes a due one and the worker is free no later, every due
\* job's turn still comes.
LEMMA TurnsStillCome ==
  ASSUME RoomForAll, TypeOK, TypeOK', OnlyTheModelFailed', TurnsCome, configured,
         FreeAt' <= FreeAt, now <= now',
         \A s \in Slots : /\ jobs'[s] # NoJob => jobs'[s] = jobs[s] \/ jobs'[s].runAfter >= now'
                          /\ jobs'[s] # NoJob /\ jobs'[s].runAfter < now'
                               => jobs[s].runAfter <= now
  PROVE  TurnsCome'
<1> SUFFICES ASSUME NEW s \in Slots, Due(s)'
             PROVE  FreeAt' + Turn * Cardinality(Ahead(s)')
                      <= jobs'[s].runAfter + Turn * Cardinality(Slots)
  BY DEF TurnsCome, Turn
<1>1. FreeAt \in Nat /\ FreeAt' \in Nat /\ now \in Nat /\ now' \in Nat
  BY OutageTypes, OutageTypesThen
<1>2. jobs'[s] # NoJob /\ jobs'[s].runAfter <= now' /\ jobs'[s].runAfter \in Nat
  BY OutageTypesThen DEF Due
<1> DEFINE then == Cardinality(Ahead(s)')
           most == Cardinality(Slots)
<1>3. IsFiniteSet(Ahead(s)') /\ then \in Nat /\ most \in Nat /\ then + 1 <= most
  BY AheadSize DEF Ahead
<1>4. /\ Turn \in Nat /\ Turn * then \in Nat /\ Turn * most \in Nat
      /\ Turn * then + Turn <= Turn * most
  <2>1. then + 1 \in Nat
    BY <1>3
  <2>2. Turn * (then + 1) = Turn * then + Turn /\ Turn * (then + 1) <= Turn * most
    BY <1>3, <2>1, TurnsAddUp
  <2>3. QED
    BY <1>3, <2>2, TurnsAddUp
<1>5. CASE jobs'[s].runAfter = now'
  <2>1. FreeAt' <= now' + Turn
    BY OutageTypesThen
  <2>2. QED
    BY <1>1, <1>4, <1>5, <2>1
<1>6. CASE jobs'[s].runAfter < now'
  <2>1. jobs'[s] = jobs[s] /\ jobs[s].runAfter <= now
    BY <1>1, <1>2, <1>6
  <2>2. FreeAt + Turn * Cardinality(Ahead(s)) <= jobs[s].runAfter + Turn * most
    BY <1>2, <2>1 DEF TurnsCome, Due
  <2>3. Ahead(s)' \subseteq Ahead(s)
    <3> SUFFICES ASSUME NEW o \in Slots, o # s, jobs'[o] # NoJob,
                        jobs'[o].runAfter <= jobs'[s].runAfter
                 PROVE  o \in Ahead(s)
      BY DEF Ahead
    <3>1. jobs'[o].runAfter \in Nat
      BY OutageTypesThen
    <3>2. jobs'[o] = jobs[o]
      BY <1>1, <1>2, <1>6, <3>1
    <3>3. QED
      BY <2>1, <3>2 DEF Ahead
  <2>4. /\ IsFiniteSet(Ahead(s)) /\ Cardinality(Ahead(s)) \in Nat
    BY AheadSize DEF Ahead
  <2>5. then <= Cardinality(Ahead(s))
    BY <2>3, <2>4, FS_Subset
  <2>6. /\ Turn * then <= Turn * Cardinality(Ahead(s))
        /\ Turn * Cardinality(Ahead(s)) \in Nat
    BY <1>3, <2>4, <2>5, TurnsAddUp
  <2>7. QED
    BY <1>1, <1>2, <1>4, <2>1, <2>2, <2>6
<1>7. QED
  BY <1>1, <1>2, <1>5, <1>6

\* A claim takes the head out of the wait of everyone behind it.
LEMMA TurnTaken ==
  ASSUME RoomForAll, TypeOK, TypeOK', OnlyTheModelFailed, TurnsCome, configured,
         NEW o \in Slots, Claim(o)
  PROVE  TurnsCome'
<1> SUFFICES ASSUME NEW s \in Slots, Due(s)'
             PROVE  FreeAt' + Turn * Cardinality(Ahead(s)')
                      <= jobs'[s].runAfter + Turn * Cardinality(Slots)
  BY DEF TurnsCome, Turn
<1>1. /\ FreeAt = now /\ FreeAt' <= now + Turn /\ FreeAt' \in Nat /\ now \in Nat
      /\ jobs'[o].runAfter > now /\ now' = now
  BY ClaimTakesATurn, OutageTypes
<1>2. s # o /\ jobs'[s] = jobs[s] /\ Due(s)
  <2>1. jobs'[s].runAfter <= now /\ jobs'[s] # NoJob /\ jobs'[s].runAfter \in Nat
    BY <1>1, OutageTypesThen DEF Due
  <2>2. jobs'[o] # NoJob /\ jobs'[o].runAfter \in Nat
    BY ClaimFields, OutageTypesThen, NoJobAssumption
  <2>3. s # o
    BY <1>1, <2>1, <2>2
  <2>4. QED
    BY <1>1, <2>1, <2>3, ClaimFields DEF Due, TypeOK
<1>3. o \in Ahead(s)
  BY <1>2 DEF Claim, OldestDue, Due, Ahead
<1>4. Ahead(s)' \subseteq Ahead(s) \ {o}
  <2> SUFFICES ASSUME NEW p \in Slots, p # s, jobs'[p] # NoJob,
                      jobs'[p].runAfter <= jobs'[s].runAfter
               PROVE  p \in Ahead(s) /\ p # o
    BY DEF Ahead
  <2>1. jobs'[p].runAfter \in Nat /\ jobs'[s].runAfter \in Nat /\ jobs'[s].runAfter <= now
    BY <1>2, OutageTypesThen, OutageTypes DEF Due
  <2>2. p # o
    BY <1>1, <2>1
  <2>3. jobs'[p] = jobs[p]
    BY <2>2, ClaimFields DEF TypeOK
  <2>4. QED
    BY <1>2, <2>2, <2>3 DEF Ahead
<1> DEFINE then == Cardinality(Ahead(s)')
           before == Cardinality(Ahead(s))
           most == Cardinality(Slots)
<1>5. /\ then \in Nat /\ before \in Nat /\ most \in Nat /\ then + 1 <= before
  <2>1. IsFiniteSet(Ahead(s)) /\ before \in Nat /\ most \in Nat /\ then \in Nat
    BY AheadSize DEF Ahead
  <2>2. IsFiniteSet(Ahead(s) \ {o}) /\ Cardinality(Ahead(s) \ {o}) = before - 1
    BY <1>3, <2>1, FS_RemoveElement
  <2>3. then <= before - 1
    BY <1>4, <2>2, FS_Subset
  <2>4. QED
    BY <2>1, <2>3
<1>6. /\ Turn \in Nat /\ Turn * then \in Nat /\ Turn * before \in Nat /\ Turn * most \in Nat
      /\ Turn * then + Turn <= Turn * before
  <2>1. then + 1 \in Nat
    BY <1>5
  <2>2. Turn * (then + 1) = Turn * then + Turn /\ Turn * (then + 1) <= Turn * before
    BY <1>5, <2>1, TurnsAddUp
  <2>3. QED
    BY <1>5, <2>2, TurnsAddUp
<1>7. now + Turn * before <= jobs[s].runAfter + Turn * most
  BY <1>1, <1>2 DEF TurnsCome
<1>8. jobs[s].runAfter \in Nat
  BY <1>2, OutageTypes DEF Due
<1>9. QED
  BY <1>1, <1>2, <1>6, <1>7, <1>8

\* Every step keeps the order of the queue: whoever is due waits for those
\* ahead of him and for nobody else.
LEMMA TurnsStep ==
  ASSUME OnlyModelFails, MaxFaults = 0, RoomForAll
  PROVE  /\ TypeOK /\ DeadlinesNest /\ OnlyTheModelFailed /\ TurnsCome /\ [Next]_vars
         => TurnsCome'
<1> SUFFICES ASSUME TypeOK, DeadlinesNest, OnlyTheModelFailed, TurnsCome, [Next]_vars, configured
             PROVE  TurnsCome'
  <2>1. TypeOK /\ OnlyTheModelFailed /\ [Next]_vars => configured' = configured
    BY OutageSteps DEF vars
  <2>2. QED
    BY <2>1 DEF TurnsCome
<1> USE DEF history
<1>a. TypeOK' /\ OnlyTheModelFailed'
  BY StepTypeOK, OutageStep
<1>b. now \in Nat /\ now' \in Nat /\ FreeAt \in Nat
  BY <1>a, OutageTypes, OutageTypesThen
<1>c. worker.phase \in Running => worker.jobDeadline \in Nat /\ now <= worker.jobDeadline
  <2>1. worker.phase \in Running => /\ worker.jobDeadline \in Nat /\ worker.deadline \in Nat
                                    /\ now <= worker.deadline
                                    /\ worker.deadline <= worker.jobDeadline
    BY HoldingType, Phases DEF HoldingStates, DeadlinesNest
  <2>2. QED
    BY <1>b, <2>1
<1>1. CASE UNCHANGED vars
  BY <1>1 DEF vars, TurnsCome, FreeAt, Pause, Due, Ahead
<1>2. ASSUME Next, \A s \in Slots : ~Claim(s), UNCHANGED now, FreeAt' <= FreeAt
      PROVE  TurnsCome'
  <2>1. \A s \in Slots : jobs'[s] # NoJob => jobs'[s] = jobs[s] \/ jobs'[s].runAfter >= now
    BY <1>2, RowsWaitBehind
  <2>2. \A s \in Slots : jobs'[s] # NoJob => jobs'[s].runAfter \in Nat
    BY <1>a, OutageTypesThen
  <2>3. \A s \in Slots : jobs'[s] # NoJob /\ jobs'[s].runAfter < now' => jobs[s].runAfter <= now
    BY <1>2, <1>b, <2>1, <2>2
  <2>4. QED
    BY <1>2, <1>a, <1>b, <2>1, <2>3, TurnsStillCome
<1>3. ASSUME Next, NEW s \in Slots, Claim(s) PROVE TurnsCome'
  BY <1>3, <1>a, TurnTaken
<1>d. Next /\ worker.phase # "claim" => \A s \in Slots : ~Claim(s)
  BY DEF Claim
<1>4. ASSUME Next, NEW s \in Slots, Enqueue(s), ~\E o \in Slots : Claim(o) PROVE TurnsCome'
  <2>1. UNCHANGED now /\ FreeAt' = FreeAt
    BY <1>4 DEF Enqueue, FreeAt, Pause
  <2>2. QED
    BY <1>2, <1>4, <1>b, <2>1
<1>5. CASE Next /\ Fire /\ ~\E o \in Slots : Claim(o)
  <2>1. UNCHANGED now /\ Pause = 0
    BY <1>5, PauseValues DEF Fire
  <2>2. CASE worker.phase = "idle"
    <3>1. worker'.phase = "sweep"
      BY <1>5, <2>2 DEF Fire
    <3>2. FreeAt' = now' /\ FreeAt = now
      BY <1>b, <2>1, <2>2, <3>1 DEF FreeAt, Running
    <3>3. QED
      BY <1>2, <1>5, <1>b, <2>1, <3>2
  <2>3. CASE worker.phase # "idle"
    <3>1. worker' = worker
      BY <1>5, <2>3 DEF Fire
    <3>2. FreeAt' = FreeAt
      BY <2>1, <2>3, <3>1 DEF FreeAt
    <3>3. QED
      BY <1>2, <1>5, <1>b, <2>1, <3>2
  <2>4. QED
    BY <2>2, <2>3
<1>6. CASE Next /\ Sweep
  <2>1. worker' = NextTurn(worker, TRUE) /\ worker.phase = "sweep" /\ UNCHANGED now
    BY <1>6 DEF Sweep, AfterSweep
  <2>2. worker.start = now /\ ChatTimeout <= DrainBudget /\ DrainBudget \in Nat /\ ChatTimeout \in Nat
    BY <2>1, Durations DEF OnlyTheModelFailed, RoomForAll
  <2>3. worker'.phase = "claim"
    BY <1>b, <2>1, <2>2 DEF NextTurn
  <2>4. FreeAt = now /\ FreeAt' = now
    BY <2>1, <2>3 DEF FreeAt, Running
  <2>5. QED
    BY <1>2, <1>6, <1>b, <1>d, <2>1, <2>4
<1>7. CASE NothingDue
  BY <1>7 DEF NothingDue, TurnsCome, Due
<1>8. CASE Next /\ (Compose \/ ModelFails \/ Send \/ Fold \/ FoldFails)
  <2>1. /\ worker.phase \in Running /\ UNCHANGED now
        /\ worker' = Sending \/ worker' = Closing("finish") \/ worker' = Closing("retry")
    BY <1>8 DEF Compose, ModelFails, Send, Fold, FoldFails, Running, Sending
  <2>2. worker'.phase \in {"send", "finish", "retry"} /\ worker'.jobDeadline = worker.jobDeadline
    BY <2>1, SendingFields, ClosingFields
  <2>3. FreeAt' <= FreeAt
    <3>1. FreeAt = worker.jobDeadline + 1
      BY <2>1 DEF FreeAt, Running
    <3>2. FreeAt' = worker'.jobDeadline + 1 \/ FreeAt' = now' + 1
      BY <2>2 DEF FreeAt, Running
    <3>3. QED
      BY <1>b, <1>c, <2>1, <2>2, <3>1, <3>2
  <2>4. worker.phase # "claim"
    BY <2>1 DEF Running
  <2>5. QED
    BY <1>2, <1>8, <1>d, <2>1, <2>3, <2>4
<1>9. CASE Next /\ (Finish \/ Retry)
  <2>1. worker.phase \in {"finish", "retry"} /\ UNCHANGED now
    BY <1>9 DEF Finish, Retry
  <2>2. worker'.phase \in {"idle", "claim"}
    BY <1>9, NextTurnFields, Phases, HoldingType DEF Finish, Retry, HoldingStates
  <2>3. FreeAt' <= FreeAt
    <3>1. FreeAt = now + 1
      BY <2>1 DEF FreeAt, Running
    <3>2. FreeAt' <= now' + 1
      BY <1>b, <2>2, PauseValues DEF FreeAt, Running
    <3>3. QED
      BY <1>b, <2>1, <3>1, <3>2
  <2>4. QED
    BY <1>2, <1>9, <1>d, <2>1, <2>3
<1>10. CASE Next /\ Advance
  <2>1. UNCHANGED <<worker, jobs>> /\ now <= now' /\ now' <= now + 1
    BY <1>10, <1>b, Durations DEF Advance, Lesser, TypeOK
  <2>2. worker.phase \in Running \/ worker.phase = "idle"
    BY <1>10, EveryPhase, Phases DEF Advance, InTick, OnlyTheModelFailed
  <2>3. FreeAt' <= FreeAt
    <3>1. Pause = 1 /\ Pause' = 0
      BY <1>10, PauseValues DEF Advance, OnlyTheModelFailed
    <3>2. CASE worker.phase \in Running
      BY <1>b, <2>1, <3>2 DEF FreeAt
    <3>3. CASE worker.phase = "idle"
      <4>1. FreeAt = now + 1 /\ FreeAt' = now'
        <5>1. FreeAt = now + Pause /\ FreeAt' = now' + Pause'
          BY <2>1, <3>3 DEF FreeAt, Running
        <5>2. now' + Pause' = now'
          BY <1>b, <3>1, PauseValues, Instants, Zenon
        <5>3. QED
          BY <3>1, <5>1, <5>2
      <4>2. QED
        BY <1>b, <2>1, <4>1
    <3>4. QED
      BY <2>2, <3>2, <3>3
  <2>4. \A s \in Slots : jobs'[s] # NoJob => jobs[s].runAfter \in Nat
    BY <2>1, OutageTypes
  <2>5. \A s \in Slots : jobs'[s] # NoJob /\ jobs'[s].runAfter < now' => jobs[s].runAfter <= now
    BY <1>b, <2>1, <2>4
  <2>6. QED
    BY <1>a, <2>1, <2>3, <2>5, TurnsStillCome
<1>11. QED
  BY <1>1, <1>3, <1>4, <1>5, <1>6, <1>7, <1>8, <1>9, <1>10, OutageSteps

\* Every step keeps the worker's copy expiring with its row.
LEMMA CopyStep ==
  TypeOK /\ CopyOfRow /\ [Next]_vars => CopyOfRow'
<1> SUFFICES ASSUME TypeOK, CopyOfRow, [Next]_vars PROVE CopyOfRow'
  OBVIOUS
<1>1. CASE UNCHANGED vars
  BY <1>1 DEF vars, CopyOfRow, Held, Mine
<1>2. CASE worker'.phase \notin Holding
  BY <1>2 DEF CopyOfRow, Held
<1>3. ASSUME NEW s \in Slots, Claim(s) PROVE CopyOfRow'
  <2>1. worker'.slot = s /\ worker'.expiresAt = jobs[s].expiresAt
        /\ jobs'[s].expiresAt = jobs[s].expiresAt
    BY <1>3, ClaimFields, LeasedType
  <2>2. QED
    BY <2>1 DEF CopyOfRow, Held, Mine
<1>4. ASSUME NEW s \in Slots, Enqueue(s), worker.phase \in Holding PROVE CopyOfRow'
  <2>1. UNCHANGED worker /\ jobs'[s].attempts = 0 /\ worker.attempts # 0
    BY <1>4, HoldingType DEF Enqueue, FreshRow, TypeOK, HoldingStates
  <2>2. \A o \in Slots : o # s => jobs'[o] = jobs[o]
    BY <1>4 DEF Enqueue, TypeOK
  <2>3. QED
    BY <1>4, <2>1, <2>2 DEF CopyOfRow, Held, Mine
<1>5. CASE /\ UNCHANGED jobs /\ worker.phase \in Holding
           /\ worker'.slot = worker.slot /\ worker'.attempts = worker.attempts
           /\ worker'.expiresAt = worker.expiresAt
  BY <1>5 DEF CopyOfRow, Held, Mine
<1>6. QED
  BY <1>1, <1>2, <1>3, <1>4, <1>5, HeldCopy

\* The numbers of an announcement's day.
LEMMA DayTypes ==
  ASSUME NEW s \in Slots, NEW e \in Nat
  PROVE  /\ LastTry(s, e) \in Int /\ TTL[Kind(s)] \in Nat /\ CeremonyBudget \in Nat
         /\ MaxBackoff \in Nat /\ e - TTL[Kind(s)] <= LastTry(s, e)
BY Durations, QueueAssumption DEF LastTry

\* An announcement goes back to the table only while the ceremony waits for
\* the model.
LEMMA RetryInTime ==
  ASSUME OnlyModelFails, MaxFaults = 0, RoomForAll, TypeOK, OnlyTheModelFailed, TriedInTime,
         Next, worker'.phase = "retry", Kind(worker'.slot) = "winner"
  PROVE  BackInTime'
<1> USE DEF history
<1>a. now \in Nat
  BY OutageTypes
<1>1. CASE worker.phase = "retry"
  <2>1. UNCHANGED <<worker, now>>
    <3>1. \A s \in Slots : ~Claim(s)
      BY <1>1 DEF Claim
    <3>2. ~Advance
      BY <1>1, Phases DEF Advance, InTick
    <3>3. \A s \in Slots : Enqueue(s) => UNCHANGED <<worker, now>>
      BY DEF Enqueue
    <3>4. Fire => UNCHANGED <<worker, now>>
      BY <1>1 DEF Fire
    <3>5. Retry => worker'.phase = "idle"
      BY Phases DEF Retry
    <3>6. ~Sweep /\ ~NothingDue /\ ~Compose /\ ~ModelFails /\ ~Send /\ ~Fold /\ ~FoldFails /\ ~Finish
      BY <1>1 DEF Sweep, NothingDue, Compose, ModelFails, Send, Fold, FoldFails, Finish
    <3>7. QED
      BY <3>1, <3>2, <3>3, <3>4, <3>5, <3>6, OutageSteps
  <2>2. QED
    BY <1>1, <2>1 DEF TriedInTime, BackInTime, LastTry, Kind
<1>2. CASE worker.phase # "retry"
  <2>1. worker.phase \in Running /\ worker'.slot = worker.slot /\ worker'.expiresAt = worker.expiresAt
        /\ UNCHANGED now /\ CeremonyDue
    <3>1. \A s \in Slots : ~Claim(s)
      <4> SUFFICES ASSUME NEW s \in Slots, Claim(s) PROVE FALSE
        OBVIOUS
      <4>1. QED
        BY ClaimTakesATurn
    <3>2. \A s \in Slots : ~Enqueue(s)
      BY <1>2 DEF Enqueue
    <3>3. ~Fire /\ ~Advance
      BY <1>2 DEF Fire, Advance
    <3>4. ~Sweep /\ ~NothingDue /\ ~Finish /\ ~Retry
      <4>1. Sweep \/ NothingDue \/ Finish \/ Retry => worker'.phase \in {"idle", "claim"}
        BY NextTurnFields, Phases, HoldingType
           DEF Sweep, AfterSweep, Finish, NothingDue, Retry, HoldingStates
      <4>2. QED
        BY <4>1
    <3>5. ~Compose /\ ~Send /\ ~Fold
      <4>1. Compose => worker'.phase = "send"
        BY SendingFields DEF Compose, Sending, Running
      <4>2. Send \/ Fold => worker'.phase = "finish"
        BY ClosingFields DEF Send, Fold, Running
      <4>3. QED
        BY <4>1, <4>2
    <3>6. ~FoldFails
      <4>1. FoldFails => worker'.slot = worker.slot /\ Kind(worker.slot) = "memory"
        BY ClosingFields DEF FoldFails, Running, OnlyTheModelFailed
      <4>2. QED
        BY <4>1 DEF Kind
    <3>7. ModelFails
      BY <3>1, <3>2, <3>3, <3>4, <3>5, <3>6, OutageSteps
    <3>8. worker.phase \in Running /\ UNCHANGED now
          /\ ((CeremonyDue /\ worker' = Closing("retry")) \/ worker' = Sending)
      BY <3>7 DEF ModelFails, Running, Sending
    <3>9. QED
      BY <3>8, SendingFields, ClosingFields
  <2>2. worker.slot \in Slots /\ worker.expiresAt \in Nat
    BY <2>1, HoldingType, Phases DEF HoldingStates
  <2>3. now < worker.expiresAt - TTL[Kind(worker.slot)] + CeremonyBudget
    BY <2>1 DEF CeremonyDue
  <2>4. now + MaxBackoff <= LastTry(worker.slot, worker.expiresAt)
    BY <1>a, <2>2, <2>3, DayTypes DEF LastTry
  <2>5. QED
    BY <2>1, <2>4 DEF BackInTime, LastTry, Kind
<1>3. QED
  BY <1>1, <1>2

\* What becomes of a row nobody works on.
LEMMA WaitStep ==
  ASSUME OnlyModelFails, MaxFaults = 0, RoomForAll, TypeOK, OnlyTheModelFailed, CopyOfRow,
         TriedInTime, Next,
         NEW s \in Slots, Kind(s) = "winner", jobs'[s] # NoJob, ~Held(s)'
  PROVE  WaitsInTime(s)'
<1> USE DEF history
<1>a. now \in Nat
  BY OutageTypes
<1>b. ASSUME jobs'[s] = jobs[s], ~Held(s) PROVE WaitsInTime(s)'
  BY <1>b DEF TriedInTime, WaitsInTime, LastTry, Kind
<1>1. ASSUME NEW o \in Slots, Enqueue(o) PROVE WaitsInTime(s)'
  <2>1. CASE o = s
    <3>1. jobs'[s].runAfter = now /\ jobs'[s].expiresAt = now + TTL[Kind(s)]
      BY <1>1, <2>1 DEF Enqueue, FreshRow, TypeOK
    <3>2. TTL[Kind(s)] \in Nat /\ CeremonyBudget \in Nat /\ MaxBackoff \in Nat
      BY <1>a, DayTypes
    <3>3. now <= LastTry(s, now + TTL[Kind(s)])
      BY <1>a, <3>2 DEF LastTry
    <3>4. QED
      BY <3>1, <3>3 DEF WaitsInTime, LastTry, Kind
  <2>2. CASE o # s
    <3>1. jobs'[s] = jobs[s] /\ UNCHANGED worker
      BY <1>1, <2>2 DEF Enqueue, TypeOK
    <3>2. QED
      BY <1>b, <3>1 DEF Held, Mine
  <2>3. QED
    BY <2>1, <2>2
<1>2. ASSUME NEW o \in Slots, Claim(o) PROVE WaitsInTime(s)'
  <2>1. worker.phase = "claim" /\ ~Held(s)
    BY <1>2, ClaimFields, Phases DEF Held
  <2>2. CASE o = s
    <3>1. worker'.phase = "model" /\ worker'.slot = s
          /\ worker'.attempts = jobs[s].attempts + 1 /\ jobs'[s].attempts = jobs[s].attempts + 1
      BY <1>2, <2>2, ClaimFields, LeasedType DEF FirstPhase
    <3>2. QED
      BY <3>1 DEF Held, Mine, Holding, Running
  <2>3. CASE o # s
    BY <1>2, <1>b, <2>1, <2>3, ClaimFields DEF TypeOK
  <2>4. QED
    BY <2>2, <2>3
<1>3. CASE Sweep \/ Finish
  <2>1. jobs'[s] = jobs[s]
    BY <1>3 DEF Sweep, Finish, ExpireOverdue, Without
  <2>2. ~Held(s)
    BY <1>3, Phases DEF Sweep, Finish, Without, Held
  <2>3. QED
    BY <1>b, <2>1, <2>2
<1>4. CASE Retry
  <2>1. CASE Mine(s)
    <3>1. worker.phase = "retry" /\ worker.slot = s /\ worker.attempts \in Nat
          /\ worker.expiresAt = jobs[s].expiresAt /\ jobs[s] \in Row
      BY <1>4, <2>1, HoldingType, Phases
         DEF Retry, Mine, CopyOfRow, Held, HoldingStates, TypeOK
    <3>2. Backoff(worker.attempts) \in Nat /\ Backoff(worker.attempts) <= MaxBackoff
      BY <3>1, BackoffIsCapped
    <3>3. /\ jobs'[s] = [jobs[s] EXCEPT !.runAfter = now + Backoff(worker.attempts)]
          /\ now + Backoff(worker.attempts) \in Nat
      BY <1>4, <1>a, <2>1, <3>2 DEF Retry
    <3>4. jobs'[s].runAfter = now + Backoff(worker.attempts)
          /\ jobs'[s].expiresAt = jobs[s].expiresAt
      BY <3>1, <3>3 DEF Row
    <3>5. now + MaxBackoff <= LastTry(s, jobs[s].expiresAt)
      BY <3>1 DEF TriedInTime, BackInTime
    <3>6. LastTry(s, jobs[s].expiresAt) \in Int /\ MaxBackoff \in Nat
      BY <3>1, DayTypes DEF Row
    <3>7. now + Backoff(worker.attempts) <= LastTry(s, jobs[s].expiresAt)
      BY <1>a, <3>2, <3>5, <3>6
    <3>8. QED
      BY <3>4, <3>7 DEF WaitsInTime, LastTry, Kind
  <2>2. CASE ~Mine(s)
    BY <1>4, <1>b, <2>2 DEF Retry, Held
  <2>3. QED
    BY <2>1, <2>2
<1>5. CASE Fire \/ NothingDue \/ Advance
  <2>1. UNCHANGED jobs /\ (worker.phase \in Holding => UNCHANGED worker)
    BY <1>5, Phases DEF Fire, NothingDue, Advance
  <2>2. QED
    BY <1>b, <2>1 DEF Held, Mine
<1>6. CASE Compose \/ ModelFails \/ Send \/ Fold \/ FoldFails
  <2>1. /\ worker.phase \in Running /\ UNCHANGED jobs
        /\ worker' = Sending \/ worker' = Closing("finish") \/ worker' = Closing("retry")
    BY <1>6 DEF Compose, ModelFails, Send, Fold, FoldFails, Running, Sending
  <2>2. worker'.phase \in {"send", "finish", "retry"}
        /\ worker'.slot = worker.slot /\ worker'.attempts = worker.attempts
    BY <2>1, SendingFields, ClosingFields
  <2>3. ~Held(s)
    BY <2>1, <2>2 DEF Held, Mine, Holding, Running
  <2>4. QED
    BY <1>b, <2>1, <2>3
<1>7. QED
  BY <1>1, <1>2, <1>3, <1>4, <1>5, <1>6, OutageSteps

\* Every step keeps each announcement's next try within its day.
LEMMA TriedStep ==
  ASSUME OnlyModelFails, MaxFaults = 0, RoomForAll
  PROVE  TypeOK /\ OnlyTheModelFailed /\ CopyOfRow /\ TriedInTime /\ [Next]_vars => TriedInTime'
<1> SUFFICES ASSUME TypeOK, OnlyTheModelFailed, CopyOfRow, TriedInTime, [Next]_vars
             PROVE  TriedInTime'
  OBVIOUS
<1>1. CASE UNCHANGED vars
  BY <1>1 DEF vars, TriedInTime, WaitsInTime, BackInTime, Held, Mine, LastTry, Kind
<1>2. CASE Next
  <2>1. \A s \in Slots : Kind(s) = "winner" /\ jobs'[s] # NoJob /\ ~Held(s)' => WaitsInTime(s)'
    BY <1>2, WaitStep
  <2>2. worker'.phase = "retry" /\ Kind(worker'.slot) = "winner" => BackInTime'
    BY <1>2, RetryInTime
  <2>3. QED
    BY <2>1, <2>2 DEF TriedInTime, WaitsInTime, BackInTime, LastTry, Kind
<1>3. QED
  BY <1>1, <1>2

\* A sweep finds no announcement past its day.
LEMMA NoWinnerOverdue ==
  ASSUME RoomForAll, TypeOK, OnlyTheModelFailed, TurnsCome, TriedInTime, worker.phase = "sweep",
         NEW s \in Slots, Kind(s) = "winner", jobs[s] # NoJob
  PROVE  now < jobs[s].expiresAt
<1>1. now \in Nat /\ FreeAt \in Nat /\ jobs[s].runAfter \in Nat /\ jobs[s].expiresAt \in Nat
  BY OutageTypes
<1>2. ~Held(s)
  BY Phases DEF Held
<1> DEFINE e     == jobs[s].expiresAt
           all   == Turn * Cardinality(Slots)
           wait  == Turn * Cardinality(Ahead(s))
<1>3. jobs[s].runAfter <= e - TTL[Kind(s)] + CeremonyBudget + MaxBackoff
  BY <1>2 DEF TriedInTime, WaitsInTime, LastTry
<1>4. TTL[Kind(s)] \in Nat /\ CeremonyBudget \in Nat /\ MaxBackoff \in Nat
  BY <1>1, DayTypes
<1>5. CeremonyBudget + MaxBackoff + all < TTL[Kind(s)]
  BY DEF RoomForAll
<1>6. Cardinality(Slots) \in Nat /\ Cardinality(Ahead(s)) \in Nat
  BY AheadSize DEF Ahead
<1>7. all \in Nat /\ wait \in Nat
  BY <1>6, TurnsAddUp
<1>8. CASE jobs[s].runAfter > now
  <2> HIDE DEF all, wait
  <2>1. QED
    BY <1>1, <1>3, <1>4, <1>5, <1>7, <1>8
<1>9. CASE jobs[s].runAfter <= now
  <2>1. FreeAt = now
    BY DEF FreeAt, Running
  <2>2. FreeAt + wait <= jobs[s].runAfter + all
    BY <1>9 DEF TurnsCome, Due, OnlyTheModelFailed
  <2> HIDE DEF all, wait
  <2>3. QED
    BY <1>1, <1>3, <1>4, <1>5, <1>7, <2>1, <2>2
<1>10. QED
  BY <1>1, <1>8, <1>9

\* No sweep takes an announcement out of the table.
LEMMA NoneExpiredStep ==
  ASSUME OnlyModelFails, MaxFaults = 0, RoomForAll
  PROVE  /\ TypeOK /\ OnlyTheModelFailed /\ TurnsCome /\ TriedInTime /\ NoneExpired /\ [Next]_vars
         => NoneExpired'
<1> SUFFICES ASSUME TypeOK, OnlyTheModelFailed, TurnsCome, TriedInTime, NoneExpired, [Next]_vars
             PROVE  NoneExpired'
  OBVIOUS
<1> USE DEF history
<1>1. CASE UNCHANGED expired
  BY <1>1 DEF NoneExpired, Kind
<1>2. CASE Sweep
  <2> SUFFICES ASSUME NEW s \in Slots, NEW n \in Payloads, Kind(s) = "winner"
               PROVE  <<s, n>> \notin expired'
    BY DEF NoneExpired, Kind
  <2>1. <<s, n>> \notin expired
    BY DEF NoneExpired
  <2>2. s \notin Overdue
    <3>1. jobs[s] # NoJob => now < jobs[s].expiresAt /\ now \in Nat /\ jobs[s].expiresAt \in Nat
      BY <1>2, NoWinnerOverdue, OutageTypes DEF Sweep
    <3>2. QED
      BY <3>1 DEF Overdue
  <2>3. QED
    BY <1>2, <2>1, <2>2 DEF Sweep, ExpireOverdue
<1>3. [Next]_vars => Sweep \/ UNCHANGED expired
  <2>1. UNCHANGED vars => UNCHANGED expired
    BY DEF vars
  <2>2. \A s \in Slots : Enqueue(s) \/ Claim(s) => UNCHANGED expired
    BY DEF Enqueue, Claim
  <2>3. Fire \/ NothingDue \/ Compose \/ ModelFails \/ Send \/ Fold \/ FoldFails \/ Finish
        \/ Retry \/ Advance => UNCHANGED expired
    BY DEF Fire, NothingDue, Compose, ModelFails, Send, Fold, FoldFails, Finish, Retry, Advance
  <2>4. QED
    BY <2>1, <2>2, <2>3, OutageSteps
<1>4. QED
  BY <1>1, <1>2, <1>3

\* README: "a draw is always announced the same day, whatever the model does".
\* For every table whose turns fit the day, every backoff and every timeout:
\* while Telegram and the database work no announcement expires unheard.
THEOREM EveryDrawIsHeard ==
  ASSUME RoomForAll
  PROVE  Spec => []NoDrawExpiresUnheard
<1>1. CASE OnlyModelFails /\ MaxFaults = 0
  <2> DEFINE IInv == /\ TypeOK /\ DeadlinesNest /\ OnlyTheModelFailed /\ TurnsCome
                     /\ CopyOfRow /\ TriedInTime /\ NoneExpired
  <2>1. Init => IInv
    <3> SUFFICES ASSUME Init PROVE IInv
      OBVIOUS
    <3>1. worker.phase = "idle" /\ faults = 0 /\ expired = {} /\ now = 0
      BY Phases DEF Init
    <3>2. \A s \in Slots : jobs[s] # NoJob => Kind(s) # "winner" /\ jobs[s].runAfter = 0
      BY DEF Init, FreshRow, KnownKinds
    <3>3. OnlyTheModelFailed /\ DeadlinesNest /\ CopyOfRow /\ TriedInTime /\ NoneExpired
      BY <3>1, <3>2, Phases
         DEF OnlyTheModelFailed, DeadlinesNest, CopyOfRow, Held, TriedInTime, NoneExpired, Running
    <3>4. TurnsCome
      <4> SUFFICES ASSUME NEW s \in Slots, Due(s)
                   PROVE  FreeAt + Turn * Cardinality(Ahead(s))
                            <= jobs[s].runAfter + Turn * Cardinality(Slots)
        BY DEF TurnsCome
      <4>1. FreeAt = 0
        <5>1. FreeAt = now + Pause /\ Pause = 0
          BY <3>1, PauseValues DEF FreeAt, Running, Init
        <5>2. QED
          BY <3>1, <5>1
      <4>2. jobs[s].runAfter = 0
        BY <3>2 DEF Due
      <4>3. Cardinality(Ahead(s)) \in Nat /\ Cardinality(Slots) \in Nat
            /\ Cardinality(Ahead(s)) <= Cardinality(Slots)
        <5>1. Cardinality(Ahead(s)) \in Nat /\ Cardinality(Slots) \in Nat
              /\ Cardinality(Ahead(s)) + 1 <= Cardinality(Slots)
          BY AheadSize DEF Ahead
        <5>2. QED
          BY <5>1
      <4>4. Turn * Cardinality(Ahead(s)) <= Turn * Cardinality(Slots)
            /\ Turn * Cardinality(Ahead(s)) \in Nat /\ Turn * Cardinality(Slots) \in Nat
        BY <4>3, TurnsAddUp
      <4>5. QED
        BY <4>1, <4>2, <4>4
    <3>5. QED
      BY <3>3, <3>4, InitTypeOK
  <2>2. IInv /\ [Next]_vars => IInv'
    BY <1>1, StepTypeOK, DeadlinesStep, OutageStep, TurnsStep, CopyStep, TriedStep, NoneExpiredStep
  <2>3. IInv => NoDrawExpiresUnheard
    BY DEF NoneExpired, NoDrawExpiresUnheard
  <2>4. QED
    BY <2>1, <2>2, <2>3, PTL DEF Spec
<1>2. CASE ~(OnlyModelFails /\ MaxFaults = 0)
  <2>1. NoDrawExpiresUnheard
    BY <1>2 DEF NoDrawExpiresUnheard
  <2>2. QED
    BY <2>1, PTL
<1>3. QED
  BY <1>1, <1>2
=============================================================================

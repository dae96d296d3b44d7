----------------------------- MODULE SummaryQueue -----------------------------
(***************************************************************************)
(* The deferred work of the summary neural chain: the summary_jobs table   *)
(* (models/summary_job.go), the cron job that drains it                    *)
(* (scheduler/queue.go) and the delivery of a queued winner announcement   *)
(* (handlers/winner/announce.go).                                          *)
(*                                                                         *)
(* There is one worker: cron drops a tick while the previous one still     *)
(* runs.  Everything the worker does between two database or network calls *)
(* is one step; other cron jobs enqueue at any moment, the process may     *)
(* crash at any moment, and the calls may fail with their effect done or   *)
(* not done.  Time is a discrete clock whose unit is summary_queue_cron's  *)
(* period; a context deadline is the instant a call of the worker returns  *)
(* at the latest.                                                          *)
(***************************************************************************)
EXTENDS Integers, FiniteSets

CONSTANTS
  Chats,            \* the chats work is queued for
  Kinds,            \* kinds of jobs found in the table
  NoJob,            \* a slot of the table without a row
  DrainBudget,      \* queueBudget
  Lease,            \* queueLease
  ChatTimeout,      \* summaryChatTimeout
  AnnounceTimeout,  \* announceTimeout
  WriteTimeout,     \* the 10s finishJob and retryJob give themselves
  BaseBackoff,      \* baseBackoff
  MaxBackoff,       \* maxBackoff
  TTL,              \* kind -> announcementTTL or memoryTTL
  CeremonyBudget,   \* ceremonyBudget
  Builds,           \* values SummaryConfigured() may take across restarts
  OnlyModelFails,   \* TRUE: Telegram takes every message, the database answers at once
  MaxSubmits,       \* bound: how often each slot is enqueued
  MaxFaults,        \* bound: failed database calls, lost answers and crashes
  MaxTime           \* bound: the last instant of the clock

KnownKinds == {"winner", "memory"}

ASSUME QueueAssumption ==
  /\ {DrainBudget, Lease, ChatTimeout, AnnounceTimeout, WriteTimeout,
      BaseBackoff, MaxBackoff, CeremonyBudget, MaxFaults, MaxTime} \subseteq Nat
  /\ MaxSubmits \in Nat \ {0}
  /\ TTL \in [Kinds -> Nat \ {0}]
  /\ Builds \subseteq BOOLEAN /\ Builds # {}
  /\ OnlyModelFails \in BOOLEAN

\* queueLease "is longer than any single job".
ASSUME LeaseAssumption == ChatTimeout + WriteTimeout < Lease

Slots == Chats \X Kinds
Kind(s) == s[2]

VARIABLES
  now,          \* the clock
  fired,        \* cron has fired for this instant
  configured,   \* app.Neural().SummaryConfigured() of the running process
  jobs,         \* summary_jobs: slot -> row, or NoJob
  worker,       \* the goroutine of runSummaryQueue
  (* history of the work itself *)
  submitted,    \* slot -> how many payloads were enqueued
  ran,          \* slot -> payload -> how often it reached the chat or the memory
  refused,      \* payloads dropped on a refusal, as <<slot, payload>>
  expired,      \* payloads dropped by the sweep
  faults        \* how many of MaxFaults were used

vars == <<now, fired, configured, jobs, worker, submitted, ran, refused, expired, faults>>
history == <<submitted, ran, refused, expired>>

Payloads == 1 .. MaxSubmits

Row == [payload : Payloads, attempts : Nat, runAfter : Nat, expiresAt : Nat]

ASSUME NoJobAssumption == NoJob \notin Row

Lesser(a, b) == IF a <= b THEN a ELSE b

-----------------------------------------------------------------------------
(* The table *)

\* Mutant: the upsert keeps the payload of the row it replaces.
MutantFreshRow(s, n) == [payload |-> n - 1, attempts |-> 0, runAfter |-> now,
                         expiresAt |-> now + TTL[Kind(s)]]

\* The row Enqueue leaves behind, a new one or the replaced one.
FreshRow(s, n) == [payload   |-> n,
                   attempts  |-> 0,
                   runAfter  |-> now,
                   expiresAt |-> now + TTL[Kind(s)]]

\* Mutant: the sweep spares the jobs that were tried already.
MutantOverdue == {s \in Slots : jobs[s] # NoJob /\ jobs[s].expiresAt <= now
                                                /\ jobs[s].attempts = 0}

Overdue == {s \in Slots : jobs[s] # NoJob /\ jobs[s].expiresAt <= now}

Due(s) == jobs[s] # NoJob /\ jobs[s].runAfter <= now

\* ORDER BY run_after LIMIT 1; the order of equal rows is the database's choice.
OldestDue(s) == Due(s) /\ \A o \in Slots : Due(o) => jobs[s].runAfter <= jobs[o].runAfter

\* Mutant: Claim counts the attempt and forgets the lease.
MutantLeased(row) == [row EXCEPT !.attempts = @ + 1]

Leased(row) == [row EXCEPT !.runAfter = now + Lease, !.attempts = @ + 1]

\* Mutant: Done and Retry match on the id alone.
MutantMine(s) == s = worker.slot /\ jobs[s] # NoJob

\* WHERE id = $1 AND attempts = $2: the row is still the attempt that was run.
Mine(s) == /\ s = worker.slot
           /\ jobs[s] # NoJob
           /\ jobs[s].attempts = worker.attempts

Without(S) == [s \in Slots |-> IF s \in S THEN NoJob ELSE jobs[s]]

\* 1 << (attempts - 1) for the attempts that are not capped outright.
Doubling == <<1, 2, 4, 8, 16, 32, 64, 128, 256, 512, 1024, 2048, 4096, 8192, 16384, 32768>>

Backoff(attempts) ==
  LET n == IF attempts < 1 THEN 1 ELSE attempts
  IN  IF n > 16 THEN MaxBackoff ELSE Lesser(BaseBackoff * Doubling[n], MaxBackoff)

-----------------------------------------------------------------------------
(* The worker *)

\* While a job runs the worker holds the copy of the row Claim returned:
\* slot, payload, attempts, expiresAt.
Idle == [phase |-> "idle"]
Down == [phase |-> "down"]

Running == {"model", "send", "fold"}
Holding == Running \union {"finish", "retry"}
InTick  == {"sweep", "claim"} \union Holding

\* for budgetLeft(ctx) >= summaryChatTimeout, evaluated at the head of the loop.
NextTurn(w, swept) ==
  IF now + ChatTimeout <= w.start + DrainBudget
  THEN [phase |-> "claim", start |-> w.start, swept |-> swept,
        deadline |-> w.start + DrainBudget]
  ELSE Idle

\* The first step of runJob, by kind; an unknown kind has nothing to run.
FirstPhase(kind) == CASE kind = "winner" -> "model"
                      [] kind = "memory" -> "fold"
                      [] OTHER           -> "finish"

\* Mutant: the copy is the row as it was before the claim.
MutantHolder(s, row) ==
  [phase |-> "model", start |-> worker.start, swept |-> worker.swept,
   slot |-> s, payload |-> row.payload, attempts |-> row.attempts - 1,
   expiresAt |-> row.expiresAt, jobDeadline |-> now + ChatTimeout,
   deadline |-> now + AnnounceTimeout]

\* The copy Claim hands to runJob, under the job's context and, for an
\* announcement, the shorter one of its model call.
Holder(s, row) ==
  LET jobDeadline == Lesser(now + ChatTimeout, worker.start + DrainBudget)
      phase       == FirstPhase(Kind(s))
  IN  [phase |-> phase, start |-> worker.start, swept |-> worker.swept,
       slot |-> s, payload |-> row.payload, attempts |-> row.attempts,
       expiresAt |-> row.expiresAt, jobDeadline |-> jobDeadline,
       deadline |-> CASE phase = "model" -> Lesser(now + AnnounceTimeout, jobDeadline)
                      [] phase = "fold"  -> jobDeadline
                      [] OTHER           -> now + WriteTimeout]

\* finishJob and retryJob outlive the job's context and the tick's.
Closing(phase) == [worker EXCEPT !.phase = phase, !.deadline = now + WriteTimeout]

\* Mutant: the announcement holds out for the model until it expires.
MutantCeremonyDue == now < worker.expiresAt

\* ceremonyDue: the model is still worth another attempt.
CeremonyDue == now < worker.expiresAt - TTL[Kind(worker.slot)] + CeremonyBudget

CountRun == ran' = [ran EXCEPT ![worker.slot][worker.payload] = @ + 1]

Fault == faults < MaxFaults /\ faults' = faults + 1

-----------------------------------------------------------------------------
\* A row of a kind this build does not know was left behind by a newer build.
Init ==
  /\ now = 0
  /\ fired = FALSE
  /\ configured \in Builds
  /\ worker = Idle
  /\ \E left \in SUBSET {s \in Slots : Kind(s) \notin KnownKinds} :
       jobs = [s \in Slots |-> IF s \in left THEN FreshRow(s, 1) ELSE NoJob]
  /\ submitted = [s \in Slots |-> IF jobs[s] = NoJob THEN 0 ELSE 1]
  /\ ran = [s \in Slots |-> [n \in Payloads |-> 0]]
  /\ refused = {}
  /\ expired = {}
  /\ faults = 0

\* Announce after a draw and runMemory every few hours, each in a cron
\* goroutine of its own, whatever the worker is doing.
Enqueue(s) ==
  /\ worker.phase # "down"
  /\ configured
  /\ Kind(s) \in KnownKinds
  /\ submitted[s] < MaxSubmits
  /\ now + TTL[Kind(s)] <= MaxTime
  /\ submitted' = [submitted EXCEPT ![s] = @ + 1]
  /\ jobs' = [jobs EXCEPT ![s] = FreshRow(s, submitted[s] + 1)]
  /\ UNCHANGED <<now, fired, configured, worker, ran, refused, expired, faults>>

\* A cron tick: a drain starts, or is skipped while one is still running.
Fire ==
  /\ worker.phase # "down"
  /\ ~fired
  /\ fired' = TRUE
  /\ worker' = IF worker.phase = "idle"
               THEN [phase |-> "sweep", start |-> now, deadline |-> now + DrainBudget]
               ELSE worker
  /\ UNCHANGED <<now, configured, jobs, history, faults>>

\* expireJobs, then the check of the configuration.
AfterSweep(swept) == worker' = IF configured THEN NextTurn(worker, swept) ELSE Idle

\* Mutant: a build without a summary chain leaves the table alone.
MutantExpireOverdue ==
  LET gone == IF configured THEN Overdue ELSE {}
  IN  /\ jobs' = Without(gone)
      /\ expired' = expired \union {<<s, jobs[s].payload>> : s \in gone}

ExpireOverdue ==
  /\ jobs' = Without(Overdue)
  /\ expired' = expired \union {<<s, jobs[s].payload>> : s \in Overdue}

Sweep ==
  /\ worker.phase = "sweep"
  /\ ExpireOverdue
  /\ AfterSweep(TRUE)
  /\ UNCHANGED <<now, fired, configured, submitted, ran, refused, faults>>

\* A failed sweep is only logged: the drain goes on.
SweepFails ==
  /\ worker.phase = "sweep"
  /\ Fault
  /\ ExpireOverdue \/ UNCHANGED <<jobs, expired>>
  /\ AfterSweep(FALSE)
  /\ UNCHANGED <<now, fired, configured, submitted, ran, refused>>

\* Claim, and the step of runJob that picks the work by kind.
Claim(s) ==
  /\ worker.phase = "claim"
  /\ OldestDue(s)
  /\ jobs' = [jobs EXCEPT ![s] = Leased(@)]
  /\ worker' = Holder(s, Leased(jobs[s]))
  /\ refused' = IF Kind(s) \in KnownKinds THEN refused
                ELSE refused \union {<<s, jobs[s].payload>>}
  /\ UNCHANGED <<now, fired, configured, submitted, ran, expired, faults>>

NothingDue ==
  /\ worker.phase = "claim"
  /\ \A s \in Slots : ~Due(s)
  /\ worker' = Idle
  /\ UNCHANGED <<now, fired, configured, jobs, history, faults>>

\* The drain ends; the row may have been leased before the answer was lost.
ClaimFails ==
  /\ worker.phase = "claim"
  /\ Fault
  /\ \/ UNCHANGED jobs
     \/ \E s \in Slots : OldestDue(s) /\ jobs' = [jobs EXCEPT ![s] = Leased(@)]
  /\ worker' = Idle
  /\ UNCHANGED <<now, fired, configured, history>>

\* Deliver: the model answered, or it failed and is not waited for any more;
\* otherwise the job is retried.
Compose ==
  /\ worker.phase = "model"
  /\ worker' = [worker EXCEPT !.phase = "send", !.deadline = worker.jobDeadline]
  /\ UNCHANGED <<now, fired, configured, jobs, history, faults>>

ModelFails ==
  /\ worker.phase = "model"
  /\ worker' = IF CeremonyDue
               THEN Closing("retry")
               ELSE [worker EXCEPT !.phase = "send", !.deadline = worker.jobDeadline]
  /\ UNCHANGED <<now, fired, configured, jobs, history, faults>>

Send ==
  /\ worker.phase = "send"
  /\ CountRun
  /\ worker' = Closing("finish")
  /\ UNCHANGED <<now, fired, configured, jobs, submitted, refused, expired, faults>>

\* telegram.IsPermanentError: the announcement is dropped as if it was sent.
SendRefused ==
  /\ worker.phase = "send"
  /\ ~OnlyModelFails
  /\ refused' = refused \union {<<worker.slot, worker.payload>>}
  /\ worker' = Closing("finish")
  /\ UNCHANGED <<now, fired, configured, jobs, submitted, ran, expired, faults>>

SendFails ==
  /\ worker.phase = "send"
  /\ ~OnlyModelFails
  /\ worker' = Closing("retry")
  /\ UNCHANGED <<now, fired, configured, jobs, history, faults>>

\* Telegram posted the message and the answer was lost.
SendAnswerLost ==
  /\ worker.phase = "send"
  /\ Fault
  /\ CountRun
  /\ worker' = Closing("retry")
  /\ UNCHANGED <<now, fired, configured, jobs, submitted, refused, expired>>

\* summarizeMemory, whose own steps are in ChatMemory.
Fold ==
  /\ worker.phase = "fold"
  /\ CountRun
  /\ worker' = Closing("finish")
  /\ UNCHANGED <<now, fired, configured, jobs, submitted, refused, expired, faults>>

FoldFails ==
  /\ worker.phase = "fold"
  /\ worker' = Closing("retry")
  /\ UNCHANGED <<now, fired, configured, jobs, history, faults>>

\* finishJob, then the head of the loop.
Finish ==
  /\ worker.phase = "finish"
  /\ jobs' = Without({s \in Slots : Mine(s)})
  /\ worker' = NextTurn(worker, worker.swept)
  /\ UNCHANGED <<now, fired, configured, history, faults>>

FinishFails ==
  /\ worker.phase = "finish"
  /\ Fault
  /\ worker' = NextTurn(worker, worker.swept)
  /\ UNCHANGED <<now, fired, configured, jobs, history>>

\* retryJob; one failure ends the drain.
Retry ==
  /\ worker.phase = "retry"
  /\ jobs' = [s \in Slots |-> IF Mine(s)
                              THEN [jobs[s] EXCEPT !.runAfter = now + Backoff(worker.attempts)]
                              ELSE jobs[s]]
  /\ worker' = Idle
  /\ UNCHANGED <<now, fired, configured, history, faults>>

RetryFails ==
  /\ worker.phase = "retry"
  /\ Fault
  /\ worker' = Idle
  /\ UNCHANGED <<now, fired, configured, jobs, history>>

\* Only the table survives the process.
Crash ==
  /\ worker.phase # "down"
  /\ Fault
  /\ worker' = Down
  /\ UNCHANGED <<now, fired, configured, jobs, history>>

\* The next process may be a build with or without a summary chain.
Restart ==
  /\ worker.phase = "down"
  /\ worker' = Idle
  /\ configured' \in Builds
  /\ UNCHANGED <<now, fired, jobs, history, faults>>

\* Time passes once cron fired for this instant and no call is past its
\* deadline.  At the horizon the clock stands still and cron goes on firing.
Advance ==
  /\ worker.phase = "down" \/ fired
  /\ worker.phase \in InTick => now < worker.deadline
  /\ OnlyModelFails => worker.phase \notin InTick \ Running
  /\ now' = Lesser(now + 1, MaxTime)
  /\ fired' = FALSE
  /\ UNCHANGED <<configured, jobs, worker, history, faults>>

Work == \/ Sweep \/ SweepFails \/ NothingDue \/ ClaimFails
        \/ (\E s \in Slots : Claim(s))
        \/ Compose \/ ModelFails \/ Send \/ SendRefused \/ SendFails \/ SendAnswerLost
        \/ Fold \/ FoldFails \/ Finish \/ FinishFails \/ Retry \/ RetryFails

Next == \/ (\E s \in Slots : Enqueue(s))
        \/ Fire \/ Work \/ Crash \/ Restart \/ Advance

\* Cron keeps firing, calls return by their deadlines, the container is
\* restarted, and the clock goes on.
Fairness == WF_vars(Fire) /\ WF_vars(Work) /\ WF_vars(Restart) /\ WF_vars(Advance)

Spec == Init /\ [][Next]_vars
FairSpec == Spec /\ Fairness
-----------------------------------------------------------------------------
(* Properties *)

HoldingStates ==
  [phase : Holding, start : Nat, deadline : Nat, swept : BOOLEAN, slot : Slots,
   payload : Payloads, attempts : Nat \ {0}, expiresAt : Nat, jobDeadline : Nat]

WorkerStates ==
  [phase : {"idle", "down"}] \union
  [phase : {"sweep"}, start : Nat, deadline : Nat] \union
  [phase : {"claim"}, start : Nat, deadline : Nat, swept : BOOLEAN] \union
  HoldingStates

\* Every variable keeps its type; a row always stands for a submitted payload.
TypeOK ==
  /\ now \in 0 .. MaxTime
  /\ fired \in BOOLEAN
  /\ configured \in BOOLEAN
  /\ jobs \in [Slots -> Row \union {NoJob}]
  /\ worker \in WorkerStates
  /\ submitted \in [Slots -> 0 .. MaxSubmits]
  /\ ran \in [Slots -> [Payloads -> Nat]]
  /\ refused \subseteq Slots \X Payloads
  /\ expired \subseteq Slots \X Payloads
  /\ faults \in Nat

\* "Claiming a job leases it": as long as the worker is busy with the attempt
\* the row stands for, the row is not due, so nothing but the end of the
\* process can make the attempt run twice (queue.go, queueLease).
LeaseHolds ==
  \A s \in Slots : worker.phase \in Holding /\ Mine(s) => jobs[s].runAfter > now

\* A job that was enqueued again while its predecessor ran keeps "the fresh
\* backoff Enqueue gave it": until its first claim it stays due since the
\* moment it was enqueued (summary_job.go, Done and Retry).
FreshJobStaysDue ==
  \A s \in Slots : jobs[s] # NoJob /\ jobs[s].attempts = 0
                     => jobs[s].runAfter + TTL[Kind(s)] = jobs[s].expiresAt

\* A payload reaches its chat a second time only after a crash, a failed write
\* of the queue or a lost answer, once per such fault (queue.go, finishJob).
DuplicatesNeedFaults ==
  \A s \in Slots, n \in Payloads : ran[s][n] <= 1 + faults

\* Claim does not look at expires_at.  After a sweep that worked, a job is
\* still never worked on later than one drain budget past its expiry.
NoWorkLongPastExpiry ==
  worker.phase \in Running /\ worker.swept => now < worker.expiresAt + DrainBudget

\* README: "a draw is always announced the same day, whatever the model does".
\* With Telegram and the database up, no announcement expires unheard, however
\* the model fails and whatever other chats wait for it.
NoDrawExpiresUnheard ==
  OnlyModelFails /\ MaxFaults = 0
    => \A s \in Slots, n \in Payloads :
         Kind(s) = "winner" /\ <<s, n>> \in expired => ran[s][n] > 0

\* Every row leaves the table in the end, also in a build whose summary chain
\* was taken out ("they would sit in the queue forever").
QueueDrains == \A s \in Slots : jobs[s] # NoJob ~> jobs[s] = NoJob

\* The work as the contract counts it: what a row stands for, and what has run.
PendingUnits == [s \in Slots |-> IF jobs[s] = NoJob THEN 0 ELSE jobs[s].payload]
UnitsCarriedOut == {u \in Slots \X Payloads : ran[u[1]][u[2]] > 0}

Contract == INSTANCE QueueContract WITH pending <- PendingUnits, carriedOut <- UnitsCarriedOut

\* The table, the worker and the crashes together keep the queue's promise.
KeepsContract == Contract!Spec
=============================================================================

------------------------------ MODULE ChatMemory ------------------------------
(***************************************************************************)
(* The stored history of one chat (models/message.go), the summary that    *)
(* folds it into the chat's long-term memory (summarizeMemory in           *)
(* scheduler/queue.go) and the daily prune (runMessagePrune in             *)
(* scheduler/scheduler.go).                                                *)
(*                                                                         *)
(* Appends come from background goroutines, the summary from the queue's   *)
(* single worker, the prune from a cron job of its own: their statements   *)
(* interleave freely.  Messages are numbered in the order of               *)
(* (created_at, id).  The clock only orders timestamps: a model call takes *)
(* time, so it moves when a model answers and when an instant is recorded. *)
(***************************************************************************)
EXTENDS Integers

CONSTANTS
  Sizes,          \* bytes a message may have
  WindowBudgets,  \* values of summaryMessageBudget, which depends on the memory
  KeepBytes,      \* MaxReplyContextBytes, the history the prune keeps
  Configured,     \* SummaryConfigured()
  MaxMessages,    \* bound: messages written to the chat
  MaxFaults,      \* bound: failed statements and crashes
  MaxClock        \* bound: instants of the clock

ASSUME MemoryAssumption ==
  /\ Sizes \subseteq Nat \ {0} /\ WindowBudgets \subseteq Int
  /\ KeepBytes \in Nat \ {0} /\ Configured \in BOOLEAN
  /\ MaxMessages \in Nat /\ MaxFaults \in Nat /\ MaxClock \in Nat

VARIABLES
  clock,
  written,      \* how many messages were ever appended
  size,         \* message -> octet_length(text)
  at,           \* message -> created_at
  history,      \* the messages still in the table
  summarizedAt, \* chats.memory_summarized_at, -1 for NULL
  summarizer,   \* the worker inside summarizeMemory
  (* history variables *)
  folded,       \* message -> how often a stored memory took it in
  passedOver,   \* messages a completed summary did not read: cut or late
  faults

vars == <<clock, written, size, at, history, summarizedAt, summarizer, folded, passedOver, faults>>
table == <<written, size, at, history>>

Messages == 1 .. MaxMessages
Resting == [phase |-> "rest"]

Fault == faults < MaxFaults /\ faults' = faults + 1

-----------------------------------------------------------------------------
(* Queries *)

\* SUM(octet_length(text)) OVER (ORDER BY created_at DESC, id DESC): the running
\* sum over the rows, from the newest message down to each one.
CumBytes(bytes, rows) ==
  LET sum[m \in 1 .. MaxMessages + 1] ==
        IF m = MaxMessages + 1 THEN 0
        ELSE sum[m + 1] + (IF m \in rows THEN bytes[m] ELSE 0)
  IN  sum

\* Mutant: the window is not bounded below.
MutantSince == history

\* created_at >= since; a chat never summarized asks for everything.
Since == {m \in history : at[m] >= summarizedAt}

\* TextsSinceByBytes: the newest prefix that fits, and no fallback.
Window(budget) == {m \in Since : CumBytes(size, Since)[m] <= budget}

\* Mutant: the prune forgets AND created_at <= memory_summarized_at.
MutantPrunable == {m \in history : CumBytes(size, history)[m] > KeepBytes}

\* Mutant: the running sum starts from the oldest message.
MutantPrunableOldest ==
  {m \in history : /\ CumBytes(size, history)[1] - CumBytes(size, history)[m + 1] > KeepBytes
                   /\ Configured => at[m] <= summarizedAt}

\* PruneChatByBytes
Prunable == {m \in history : /\ CumBytes(size, history)[m] > KeepBytes
                             /\ Configured => at[m] <= summarizedAt}

-----------------------------------------------------------------------------
Init ==
  /\ clock = 0
  /\ written = 0
  /\ size = [m \in Messages |-> 0]
  /\ at = [m \in Messages |-> 0]
  /\ history = {}
  /\ summarizedAt = -1
  /\ summarizer = Resting
  /\ folded = [m \in Messages |-> 0]
  /\ passedOver = {}
  /\ faults = 0

CreatedAt == clock

\* messages.Append from collectStats
Append(bytes) ==
  /\ written < MaxMessages
  /\ written' = written + 1
  /\ size' = [size EXCEPT ![written + 1] = bytes]
  /\ at' = [at EXCEPT ![written + 1] = CreatedAt]
  /\ history' = history \union {written + 1}
  /\ UNCHANGED <<clock, summarizedAt, summarizer, folded, passedOver, faults>>

\* Only the summary queue's worker runs summarizeMemory, one job at a time.
\* An empty budget or window is "nothing new to summarize".
ReadWindow(budget) ==
  /\ Configured
  /\ summarizer = Resting
  /\ Window(budget) # {}
  /\ summarizer' = [phase |-> "model", window |-> Window(budget),
                    cut |-> Since \ Window(budget), last |-> written]
  /\ UNCHANGED <<clock, table, summarizedAt, folded, passedOver, faults>>

\* Any error before the first write sends the job back to the queue unchanged.
ModelFails ==
  /\ summarizer.phase = "model"
  /\ summarizer' = Resting
  /\ UNCHANGED <<clock, table, summarizedAt, folded, passedOver, faults>>

ModelAnswers ==
  /\ summarizer.phase = "model"
  /\ clock < MaxClock
  /\ clock' = clock + 1
  /\ summarizer' = [summarizer EXCEPT !.phase = "store"]
  /\ UNCHANGED <<table, summarizedAt, folded, passedOver, faults>>

SetMemory ==
  /\ summarizer.phase = "store"
  /\ folded' = [m \in Messages |-> IF m \in summarizer.window THEN folded[m] + 1 ELSE folded[m]]
  /\ summarizer' = [summarizer EXCEPT !.phase = "mark"]
  /\ UNCHANGED <<clock, table, summarizedAt, passedOver, faults>>

\* SetMemorySummarizedAt(time.Now()): everything up to this instant counts as
\* read from here on.
SetMemorySummarizedAt ==
  /\ summarizer.phase = "mark"
  /\ clock < MaxClock
  /\ summarizedAt' = clock
  /\ clock' = clock + 1
  /\ passedOver' = passedOver \union summarizer.cut \union (summarizer.last + 1) .. written
  /\ summarizer' = Resting
  /\ UNCHANGED <<table, folded, faults>>

\* A failed statement or the end of the process between two statements.
Abort ==
  /\ summarizer.phase \in {"store", "mark"}
  /\ Fault
  /\ summarizer' = Resting
  /\ UNCHANGED <<clock, table, summarizedAt, folded, passedOver>>

Prune ==
  /\ Prunable # {}
  /\ history' = history \ Prunable
  /\ UNCHANGED <<clock, written, size, at, summarizedAt, summarizer, folded, passedOver, faults>>

Next ==
  \/ \E bytes \in Sizes : Append(bytes)
  \/ \E budget \in WindowBudgets : ReadWindow(budget)
  \/ ModelFails \/ ModelAnswers \/ SetMemory \/ SetMemorySummarizedAt \/ Abort
  \/ Prune

Spec == Init /\ [][Next]_vars

-----------------------------------------------------------------------------
(* Properties *)

Pruned == 1 .. written \ history

TypeOK ==
  /\ clock \in 0 .. MaxClock
  /\ written \in 0 .. MaxMessages
  /\ size \in [Messages -> Sizes \union {0}]
  /\ at \in [Messages -> 0 .. MaxClock]
  /\ history \subseteq 1 .. written
  /\ summarizedAt \in -1 .. MaxClock
  /\ summarizer \in {Resting} \union
       [phase : {"model", "store", "mark"}, window : SUBSET (1 .. written),
        cut : SUBSET (1 .. written), last : 0 .. written]
  /\ folded \in [Messages -> Nat]
  /\ passedOver \subseteq 1 .. written
  /\ faults \in 0 .. MaxFaults

\* Replies and announcements read a newest-first prefix of the history: pruning
\* under a moving summarizedAt never leaves a hole in it (PruneChatByBytes).
HistoryHasNoHoles == \A m \in Pruned : \A o \in history : m < o

\* "Keeps the newest keepBytes of history": a message is in the table as long as
\* it and everything written after it fit the budget.
RecentHistoryKept ==
  \A m \in 1 .. written : CumBytes(size, 1 .. written)[m] <= KeepBytes => m \in history

\* The history is the newest of what was written, at least as much as the budget
\* keeps.  PruneChatByBytes.
HistoryInv == TypeOK /\ HistoryHasNoHoles /\ RecentHistoryKept

\* While the chain is configured, a message is pruned without ever reaching the
\* memory only if a completed summary passed it over: cut by its byte budget or
\* written while the model was at work.  An outage alone loses nothing.
OutageLosesNothing ==
  Configured => \A m \in Pruned : folded[m] > 0 \/ m \in passedOver

\* Two summaries take in the same message only after a fault between the write
\* of the memory and the write of its timestamp.
FoldedOncePerFault == \A m \in Messages : folded[m] <= 1 + faults

\* README: the prune "keeps everything newer than memory_summarized_at, so a
\* long outage cannot delete history before the summarizer has read it";
\* message.go: it "spares everything the memory summarizer has not read yet".
UnreadIsSpared == Configured => \A m \in Pruned : folded[m] > 0
=============================================================================

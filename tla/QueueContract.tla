---------------------------- MODULE QueueContract ----------------------------
(***************************************************************************)
(* What the summary queue promises to the cron jobs that put work in it,  *)
(* without leases, backoff, crashes or a clock: one pending unit of work   *)
(* per slot (a chat and a kind), carried out at least once unless Telegram *)
(* refuses it, it expires, or newer work for the slot supersedes it.       *)
(*                                                                         *)
(* SummaryQueue implements this contract; WinnerDraw relies on it.         *)
(***************************************************************************)
EXTENDS Naturals

CONSTANT Slots          \* the (chat, kind) pairs work is queued for

VARIABLES pending,      \* slot -> number of the pending unit of work, 0 if none
          submitted,    \* slot -> how many units were submitted so far
          carriedOut,   \* the units carried out, as <<slot, number>>
          refused,      \* the units given up on a permanent refusal
          expired       \* the units given up because they ran out of time

contractVars == <<pending, submitted, carriedOut, refused, expired>>

\* The table may hold work an earlier process left behind.
Init == /\ pending \in [Slots -> {0, 1}]
        /\ submitted  = pending
        /\ carriedOut = {}
        /\ refused    = {}
        /\ expired    = {}

\* New work replaces whatever is pending for the slot.
Submit(s) ==
  /\ submitted' = [submitted EXCEPT ![s] = @ + 1]
  /\ pending'   = [pending EXCEPT ![s] = submitted[s] + 1]
  /\ UNCHANGED <<carriedOut, refused, expired>>

\* A unit may be carried out again, even after it was superseded, but never
\* after a newer unit of its slot was.
CarryOut(s, n) ==
  /\ n \in 1 .. submitted[s]
  /\ \A m \in (n + 1) .. submitted[s] : <<s, m>> \notin carriedOut
  /\ carriedOut' = carriedOut \union {<<s, n>>}
  /\ UNCHANGED <<pending, submitted, refused, expired>>

Refuse(s, n) ==
  /\ n \in 1 .. submitted[s]
  /\ refused' = refused \union {<<s, n>>}
  /\ UNCHANGED <<pending, submitted, carriedOut, expired>>

\* Work leaves the queue only once it was carried out or refused ...
Settle(s) ==
  /\ pending[s] # 0
  /\ <<s, pending[s]>> \in carriedOut \union refused
  /\ pending' = [pending EXCEPT ![s] = 0]
  /\ UNCHANGED <<submitted, carriedOut, refused, expired>>

\* ... or when it runs out of time.
Expire(S) ==
  /\ \A s \in S : pending[s] # 0
  /\ expired' = expired \union {<<s, pending[s]>> : s \in S}
  /\ pending' = [s \in Slots |-> IF s \in S THEN 0 ELSE pending[s]]
  /\ UNCHANGED <<submitted, carriedOut, refused>>

Next ==
  \/ \E s \in Slots : \/ Submit(s)
                      \/ Settle(s)
                      \/ \E n \in 1 .. submitted[s] : CarryOut(s, n) \/ Refuse(s, n)
  \/ \E S \in SUBSET Slots : Expire(S)

Spec == Init /\ [][Next]_contractVars
=============================================================================

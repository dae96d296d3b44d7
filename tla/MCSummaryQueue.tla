---------------------------- MODULE MCSummaryQueue ----------------------------
(* Instances of SummaryQueue for TLC.  One unit of time is one cron period. *)
EXTENDS SummaryQueue

OneChat == {"a"}
TwoChats == {"a", "b"}

WinnerOnly == {"winner"}
LeftOverKinds == {"memory", "unknown"}

\* Shorter than a few retries, so that the sweep and the attempts meet.
ShortTTL == [k \in Kinds |-> 3]

\* Longer than the ceremony budget, one full backoff and a turn of each chat, by
\* one instant (RoomForAll of SummaryQueueProofs).
DayTTL == [k \in Kinds |-> 12]
=============================================================================

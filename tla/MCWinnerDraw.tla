---------------------------- MODULE MCWinnerDraw ----------------------------
(* Instances of WinnerDraw for TLC. *)
EXTENDS WinnerDraw

\* Chats, members and processes are interchangeable.
Symmetric == Permutations(Chats) \union Permutations(Members) \union Permutations(Drawers)
=============================================================================

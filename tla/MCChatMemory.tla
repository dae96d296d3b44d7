----------------------------- MODULE MCChatMemory -----------------------------
(* Instances of ChatMemory for TLC. *)
EXTENDS ChatMemory
=============================================================================

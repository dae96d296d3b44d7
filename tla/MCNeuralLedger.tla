---------------------------- MODULE MCNeuralLedger ----------------------------
(* Two handlers and the worker share a limited name; the chains end in a       *)
(* provider of another limit and in an unlimited one.                          *)
EXTENDS NeuralLedger

CONSTANTS shared, other, free

ReplyProviders == <<[name |-> shared, limit |-> 1, slotCheck |-> TRUE],
                    [name |-> other, limit |-> 2, slotCheck |-> FALSE]>>

SummaryProviders == <<[name |-> shared, limit |-> 2, slotCheck |-> FALSE],
                      [name |-> free, limit |-> 0, slotCheck |-> TRUE]>>
=============================================================================

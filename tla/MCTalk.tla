-------------------------------- MODULE MCTalk --------------------------------
(* Two people and the bot.  Words are a, b, c and e, which ends a sentence; A    *)
(* and q are what a and e look like in a message the bot sent.                   *)
EXTENDS Talk

CONSTANTS u1, u2, bot, a, b, c, e, A, q, br, sys

Written == {[user |-> u1, text |-> <<c, b, e, a>>],
            [user |-> u2, text |-> <<a, br, b>>]}

Earlier == <<[user |-> u2, text |-> <<a, b, c>>, update |-> NoUpdate],
             [user |-> bot, text |-> <<A>>, update |-> NoUpdate],
             [user |-> bot, text |-> <<b, br>>, update |-> NoUpdate]>>

CapitalOf == [w \in Words |-> IF w = a THEN A ELSE w]
EscapedOf == [w \in Words |-> IF w = e THEN q ELSE w]
RowSettings == {[mode |-> "neural", enabled |-> TRUE, summarized |-> FALSE],
                [mode |-> "neural", enabled |-> TRUE, summarized |-> TRUE],
                [mode |-> "simplified", enabled |-> TRUE, summarized |-> FALSE],
                [mode |-> "classic", enabled |-> FALSE, summarized |-> FALSE]}
SystemPrompt == <<sys>>
Sizes == <<8, 4>>
Said == <<c, e>>

(* What the run cannot say of a request that lost a turn: the answer between two *)
(* questions does not fit beside the newer one, the older question does, and     *)
(* trimMessages keeps it.                                                        *)
ASSUME CutLosesAlternation ==
    LET asked == <<Turn("user", u2, <<a, b, c>>),
                   Turn("assistant", NoName, <<A, br, br, b>>),
                   Turn("user", u1, <<c, b, e, a>>)>>
    IN  Alternates(asked) /\ ~Alternates(Trim(Messages(SystemPrompt, asked), Sizes[1]))
=============================================================================

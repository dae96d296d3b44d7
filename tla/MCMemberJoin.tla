---------------------------- MODULE MCMemberJoin ----------------------------
(* Instances of MemberJoin for TLC. *)
EXTENDS MemberJoin

\* A chat with a greeting, and one whose flag is set while the text is missing:
\* /greeting writes them apart.
WithText    == {[flag |-> TRUE, text |-> TRUE]}
WithoutText == {[flag |-> TRUE, text |-> FALSE]}

\* Handlers, emojis and members are interchangeable.
Symmetric == Permutations(Handlers) \union Permutations(Emojis) \union Permutations(Members)
=============================================================================

---------------------------- MODULE MCAnnouncement ----------------------------
(* Two people and the bot; a language without texts of its own falls back. *)
EXTENDS Announcement

MCRunes == {"a", "?", "w", "d", "n", "s", "u", "L", "(", ")", "[", "]", "*", "_", "|", ">", ".",
            ":", " ", "/", Back, Newline}

\* What the theorems about Delivery take for granted.
ASSUME /\ SanitizeV2(<<>>) = <<>>
       /\ \A s \in BoundedSeq(Runes, 2) : {SanitizeV2(s), QuoteExpandableV2(s)} \subseteq Seq(Runes)

MCPieces == {<<"a">>, <<"*">>, <<"|", "|">>, <<">">>, <<Back>>, <<Newline>>}

MCNames == [ann |-> <<"a", "*">>, bob |-> <<>>, bot |-> <<"s">>]
MCStandings == <<"ann", "bob">>
MCYearTops == {<<"bob", "ann">>}

MCTexts == {<<"a">>, <<"a", "a", "a">>, <<Newline>>, <<"a", Newline, "a", "*", ":", " ", "a">>}
MCRows == [user : {"ann", "bob"}, text : MCTexts, isBot : {FALSE}]
            \cup {[user |-> "bot", text |-> <<"a">>, isBot |-> FALSE],
                  [user |-> "bob", text |-> <<"a">>, isBot |-> TRUE]}

MCLabels == {<<>>, <<"_", "a", "a", "_">>}

MCBundle ==
  [en |-> [winner   |-> [template |-> <<Fixed(<<"*">>), Var("name"), Fixed(<<"*", " ">>), Var("user")>>],
           year_top |-> [template |-> <<Fixed(<<"_", "n", "_", Newline>>), Var("top"), Fixed(<<Newline>>)>>],
           default  |-> [template |-> <<Fixed(<<"d", "d">>)>>]],
   xx |-> [nok |-> [list |-> <<<<"n">>>>]]]
=============================================================================

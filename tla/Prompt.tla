-------------------------------- MODULE Prompt --------------------------------
(***************************************************************************)
(* How the conversation that goes to a language model is put together from *)
(* the stored messages and cut to a provider's size.  A text is a sequence *)
(* of words, with a Break wherever its white space is not what joining the *)
(* words again would give.  A word stands for one rune of RuneBytes bytes. *)
(***************************************************************************)
EXTENDS Integers, Sequences, SequencesExt

CONSTANTS
    Bots,           \* the senders whose messages are the assistant's: this bot, others
    Break,          \* a line break, or more than one blank, inside a text
    Pause,          \* the word of the empty assistant turn, "."
    NoName,         \* the name of a turn that has none
    RuneBytes

ASSUME PromptAssumption == RuneBytes \in Nat \ {0}

\* strings.Fields, and their join: the words, without how they were laid out.
Fields(text) ==
    LET kept[n \in 0 .. Len(text)] ==
            IF n = 0 THEN <<>>
            ELSE IF text[n] = Break THEN kept[n - 1] ELSE Append(kept[n - 1], text[n])
    IN  kept[Len(text)]

\* strings.TrimSpace: from the first word to the last.
Trimmed(text) ==
    LET words == {i \in DOMAIN text : text[i] # Break}
    IN  IF words = {} THEN <<>> ELSE SubSeq(text, Min(words), Max(words))

BytesOf(text) == RuneBytes * Len(text)

Turn(role, name, words) == [role |-> role, name |-> name, words |-> words]

\* len of all turns' text.
Size(turns) ==
    LET total[n \in 0 .. Len(turns)] == IF n = 0 THEN 0 ELSE total[n - 1] + BytesOf(turns[n].words)
    IN  total[Len(turns)]

-----------------------------------------------------------------------------
(* The history, from rows read newest first.                               *)

AsTurn(row) ==
    IF row.user \in Bots
    THEN Turn("assistant", NoName, Trimmed(row.text))
    ELSE Turn("user", row.user, Trimmed(row.text))

\* The turns of the rows, but for blank ones.
Told(rows) ==
    LET told[n \in 0 .. Len(rows)] ==
            IF n = 0 THEN <<>>
            ELSE IF Trimmed(rows[n].text) = <<>> THEN told[n - 1]
            ELSE Append(told[n - 1], AsTurn(rows[n]))
    IN  told[Len(rows)]

\* appendCurrentMessage: not twice in a row by the same person.
AppendCurrent(turns, user, current) ==
    IF turns # <<>> /\ Last(turns) = Turn("user", user, current)
    THEN turns
    ELSE Append(turns, Turn("user", user, current))

\* Two turns of the assistant are one, with an empty line between.
Merged(last, t) == [last EXCEPT !.words = @ \o <<Break, Break>> \o t.words]

\* Mutant: only consecutive assistant turns are taken care of.
MutantJoined(out, t) ==
    IF out # <<>> /\ Last(out).role = t.role /\ t.role = "assistant"
    THEN Append(Front(out), Merged(Last(out), t))
    ELSE Append(out, t)

\* The conversation with one turn more: people who follow each other are parted
\* by an empty assistant turn, assistant turns that do are joined.
Joined(out, t) ==
    IF out = <<>> \/ Last(out).role # t.role THEN Append(out, t)
    ELSE IF t.role = "user" THEN out \o <<Turn("assistant", NoName, <<Pause>>), t>>
    ELSE Append(Front(out), Merged(Last(out), t))

\* normalizeRoleAlternation
Alternate(turns) ==
    LET out[n \in 0 .. Len(turns)] == IF n = 0 THEN <<>> ELSE Joined(out[n - 1], turns[n])
    IN  out[Len(turns)]

\* The newest row is left out if it is the question itself.
WithoutCurrent(rows, user, current) ==
    IF rows # <<>> /\ Head(rows).user = user /\ Trimmed(Head(rows).text) = current
    THEN Tail(rows)
    ELSE rows

\* Mutant: the question is appended whatever is there.
MutantHistory(rows, user, current) ==
    Alternate(Append(Told(Reverse(rows)), Turn("user", user, current)))

\* buildNeuralHistory
History(rows, user, current) ==
    LET older == Reverse(WithoutCurrent(rows, user, current))
    IN  Alternate(AppendCurrent(Told(older), user, current))

\* ReplyWithHistory: the system prompt first, if there is one.
Messages(system, turns) ==
    IF system = <<>> THEN turns ELSE <<Turn("system", NoName, system)>> \o turns

-----------------------------------------------------------------------------
(* The cut, for a provider that takes max bytes (0: any number).           *)

HasSystem(messages) == Head(messages).role = "system"

\* truncateMessageBudget: the last turn loses runes from its end until it fits
\* beside the system prompt.
CutLast(messages, max) ==
    LET system == IF HasSystem(messages) THEN <<Head(messages)>> ELSE <<>>
        room == (max - Size(system)) \div RuneBytes
        last == Last(messages)
    IN  Append(system, [last EXCEPT !.words = IF room < 1 THEN <<>> ELSE SubSeq(@, 1, room)])

\* Mutant: the turns kept so far are not added to what is used.
MutantWithOlder(kept, t, used, max) ==
    IF used + BytesOf(t.words) > max THEN kept ELSE <<t>> \o kept

\* The turns that are kept and one older turn, if it still fits.
WithOlder(kept, t, used, max) ==
    IF used + Size(kept) + BytesOf(t.words) > max THEN kept ELSE <<t>> \o kept

\* From the newest turn to the oldest, every turn that still fits.
Keep(middle, used, max) ==
    LET kept[n \in 0 .. Len(middle)] ==
            IF n = 0 THEN <<>> ELSE WithOlder(kept[n - 1], middle[Len(middle) + 1 - n], used, max)
    IN  kept[Len(middle)]

\* trimMessages
Trim(messages, max) ==
    LET system == IF HasSystem(messages) THEN <<Head(messages)>> ELSE <<>>
        last == <<Last(messages)>>
        middle == SubSeq(messages, Len(system) + 1, Len(messages) - 1)
        used == Size(system \o last)
    IN  IF max = 0 THEN messages
        ELSE IF used > max THEN CutLast(messages, max)
        ELSE system \o Keep(middle, used, max) \o last
=============================================================================

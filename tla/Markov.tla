-------------------------------- MODULE Markov --------------------------------
(***************************************************************************)
(* The chat's own vocabulary: which trigrams a message leaves in the pairs *)
(* and replies tables, and how a sentence is walked along them.  The       *)
(* frequencies of replies are left out: any reply of a pair may be picked. *)
(***************************************************************************)
EXTENDS Integers, Sequences, SequencesExt

CONSTANTS
    Null,           \* NULL, before a sentence and after it
    AnyWord,            \* the matcher that leaves a column free
    Enders,         \* words that end a sentence: their last rune is one of . ! ? ...
    SafetyCounter   \* the longest walk, in words

ASSUME MarkovAssumption ==
    /\ SafetyCounter \in Nat /\ SafetyCounter > 1
    /\ Null \notin Enders

-----------------------------------------------------------------------------
(* Learn.                                                                  *)

\* Mutant: the words after an end of sentence follow it directly.
MutantPadded(tokens) == <<Null>> \o tokens \o <<Null>>

\* The words between NULLs, one after every sentence.
Padded(tokens) ==
    LET upTo[n \in 0 .. Len(tokens)] ==
            IF n = 0 THEN <<Null>>
            ELSE IF tokens[n] \in Enders THEN upTo[n - 1] \o <<tokens[n], Null>>
            ELSE Append(upTo[n - 1], tokens[n])
        body == upTo[Len(tokens)]
    IN  IF Last(body) = Null THEN body ELSE Append(body, Null)

\* NULLs where the sequence has ended.
At(seq, i) == IF i \in DOMAIN seq THEN seq[i] ELSE Null

\* The loop of Learn: windows of three, stepping by one, but over all three words
\* of a window that begins and ends with NULL inside the sequence.
Trigrams(tokens) ==
    LET seq == Padded(tokens)
        from[i \in 1 .. Len(seq) + 3] ==
            IF i > Len(seq) THEN {}
            ELSE IF seq[i] = Null /\ At(seq, i + 2) = Null /\ i + 2 <= Len(seq) THEN from[i + 3]
            ELSE {<<seq[i], At(seq, i + 1), At(seq, i + 2)>>} \cup from[i + 1]
    IN  IF tokens = <<>> THEN {} ELSE from[1]

-----------------------------------------------------------------------------
(* buildSentence.                                                          *)

\* A walk that looks for the beginning of a sentence in one of the seeds.
StartAt(seeds) == [words |-> <<>>, first |-> Null, second |-> seeds]

\* What FetchPair and pickReply may come back with.
Candidates(pairs, walk) ==
    {t \in pairs : walk.first \in {AnyWord, t[1]} /\ t[2] \in walk.second}

Stuck(pairs, walk) ==
    Len(walk.words) >= SafetyCounter \/ Candidates(pairs, walk) = {}

\* The words with those of a trigram picked; a NULL ends the sentence.
Extended(walk, t) ==
    LET begun == IF walk.words = <<>> THEN <<t[2]>> ELSE walk.words
    IN  IF t[3] = Null THEN begun ELSE Append(begun, t[3])

\* Mutant: the classic walk forgets the word before the last.
MutantFollowing(walk, t, simplified) ==
    [words |-> Extended(walk, t), first |-> AnyWord, second |-> {t[3]}]

Following(walk, t, simplified) ==
    [words |-> Extended(walk, t),
     first |-> IF simplified THEN AnyWord ELSE t[2],
     second |-> {t[3]}]
=============================================================================

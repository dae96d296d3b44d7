--------------------------------- MODULE Talk ---------------------------------
(***************************************************************************)
(* One chat's conversation.  Every message is handled by a goroutine that  *)
(* stores the sender, starts a second one to learn and record the message  *)
(* in the background, and may answer: with a language model from the       *)
(* stored history, or with a walk along the learned pairs, both of which   *)
(* other messages are changing meanwhile.  Main stops the process by       *)
(* waiting for the background writes, and then closes the pool.            *)
(***************************************************************************)
EXTENDS FiniteSets, Prompt, Markov

CONSTANTS
    Updates,        \* the messages that arrive
    Addressed,      \* bound: those among them that may be answered
    Users, BotID,
    Words,
    Utterances,     \* what people may write: records of a user and a text
    Past,           \* rows of the history before the first update, oldest first
    NoUpdate,       \* the update of a row that came from none of Updates
    Settings,       \* what a handler may find in the chat's row
    System,         \* the system prompt's words
    ContextSizes,   \* context_size of the reply chain's providers
    ReplyBytes,     \* MaxReplyContextBytes: how much history a reply reads
    Answer,         \* what a model answers, and a roll of the dice
    Capital,        \* word -> the word with a capital letter
    Escaped,        \* word -> the word as it is sent, escaped for MarkdownV2
    SemSize,        \* capacity of statsSem
    MaxFaults       \* bound: failing statements of the background writes

ASSUME TalkAssumption ==
    /\ BotID \in Bots /\ Bots \cap Users = {}
    /\ Null \notin Words /\ AnyWord \notin Words
    /\ Utterances \subseteq [user : Users, text : Seq(Words \cup {Break})]
    /\ \A m \in Utterances : Fields(m.text) # <<>>
    /\ NoUpdate \notin Updates
    /\ Past \in Seq([user : Users \cup Bots, text : Seq(Words \cup {Break}), update : {NoUpdate}])
    /\ Addressed \subseteq Updates
    /\ Settings \subseteq [mode : {"classic", "simplified", "neural"}, enabled : BOOLEAN, summarized : BOOLEAN]
    /\ System \in Seq(Range(System))
    /\ ContextSizes \in Seq(Nat)
    /\ ReplyBytes \in Nat
    /\ Answer \in Seq(Words)
    /\ {Capital, Escaped} \subseteq [Words -> Words]
    /\ SemSize \in Nat \ {0}

VARIABLES
    history,    \* the messages table, oldest first
    known,      \* the words table
    pairs,      \* the pairs and replies tables, as trigrams
    said,       \* update -> sender and text, once it has arrived
    handler,    \* update -> the goroutine that handles it
    stats,      \* update -> where its collectStats stands
    main,       \* what main is doing
    timedOut,   \* WaitCollectStats gave up
    late,       \* updates registered when nobody waited any more (history)
    failed      \* updates one of whose background statements failed (history)

tables == <<history, known, pairs>>
ghosts == <<timedOut, late, failed>>
vars == <<tables, said, handler, stats, main, ghosts>>

Row == [user : Users \cup Bots, text : Seq(Words \cup {Break}), update : Updates \cup {NoUpdate}]

Generating == {"seed", "walk", "context", "walk on"}

New == [at |-> "new", mode |-> "classic", enabled |-> TRUE, since |-> 0,
        rows |-> <<>>, provider |-> 1, walk |-> StartAt({}), reply |-> <<>>]

\* The words of the message, as strings.Fields gives them.
Spoken(u) == Fields(said[u].text)

-----------------------------------------------------------------------------
(* Reading the history: RecentByBytes and its relatives.                   *)

\* Rows not older than the summarizer's mark, newest first.
NewestFirst(since) == Reverse(SubSeq(history, since + 1, Len(history)))

\* The newest rows that fit the budget together.
Fitting(rows) ==
    LET fits(k) == BytesOf(FlattenSeq([i \in 1 .. k |-> rows[i].text])) <= ReplyBytes
    IN  SubSeq(rows, 1, CHOOSE k \in 0 .. Len(rows) :
                            fits(k) /\ (k = Len(rows) \/ ~fits(k + 1)))

\* The newest row alone.
Latest(rows) == IF rows = <<>> THEN <<>> ELSE <<Head(rows)>>

\* RecentTextsByBytes, as words.
ContextWords ==
    LET fitting == Fitting(NewestFirst(0))
        rows == IF fitting = <<>> THEN Latest(NewestFirst(0)) ELSE fitting
    IN  UNION {ToSet(Fields(rows[i].text)) : i \in DOMAIN rows}

-----------------------------------------------------------------------------
(* Ingest.                                                                 *)

Goes(u, h) == handler' = [handler EXCEPT ![u] = h]
To(u, at) == Goes(u, [handler[u] EXCEPT !.at = at])
Done(u) == Goes(u, [New EXCEPT !.at = "done", !.enabled = handler[u].enabled])

Running == main # "closed"

\* The interrupt cancels the context of all handlers, and with it their calls.
Connected == main = "serving"

Init ==
    /\ history = Past
    /\ pairs = UNION {Trigrams(Fields(Past[i].text)) : i \in {j \in DOMAIN Past : Past[j].user \in Users}}
    /\ known = UNION {ToSet(Fields(Past[i].text)) : i \in {j \in DOMAIN Past : Past[j].user \in Users}}
    /\ said = [u \in Updates |-> [user |-> BotID, text |-> <<>>]]
    /\ handler = [u \in Updates |-> New]
    /\ stats = [u \in Updates |-> "none"]
    /\ main = "serving"
    /\ timedOut = FALSE /\ late = {} /\ failed = {}

Receive(u) ==
    /\ Connected /\ handler[u].at = "new"
    /\ \E m \in Utterances : said' = [said EXCEPT ![u] = m]
    /\ To(u, "ensure")
    /\ UNCHANGED <<tables, stats, main, ghosts>>

\* EnsureEntities brings the chat's row, whose settings and summarizer's mark (never,
\* or just now) the handler goes on with whatever becomes of them.
EnsureEntities(u) ==
    /\ Connected /\ handler[u].at = "ensure"
    /\ \E s \in Settings :
          Goes(u, [handler[u] EXCEPT !.at = "register", !.mode = s.mode, !.enabled = s.enabled,
                                     !.since = IF s.summarized THEN Len(history) ELSE 0])
    /\ UNCHANGED <<tables, said, stats, main, ghosts>>

\* Without a chat nothing is recorded and nothing answered.
EnsureFails(u) ==
    /\ Running /\ handler[u].at = "ensure"
    /\ Done(u)
    /\ UNCHANGED <<tables, said, stats, main, ghosts>>

\* statsWG.Add(1) and go runCollectStats
Register(u) ==
    /\ Running /\ handler[u].at = "register"
    /\ stats' = [stats EXCEPT ![u] = "spawned"]
    /\ late' = IF main = "leaving" THEN late \cup {u} ELSE late
    /\ To(u, "decide")
    /\ UNCHANGED <<tables, said, main, timedOut, failed>>

-----------------------------------------------------------------------------
(* collectStats, behind statsSem.                                          *)

Writing == {u \in Updates : stats[u] \in {"words", "pairs", "append", "score"}}

Stage(u, stage) == stats' = [stats EXCEPT ![u] = stage]

Acquire(u) ==
    /\ Running /\ stats[u] = "spawned" /\ Cardinality(Writing) < SemSize
    /\ Stage(u, IF handler[u].enabled THEN "words" ELSE "done")
    /\ UNCHANGED <<tables, said, handler, main, ghosts>>

\* Words.EnsureIDs
EnsureIDs(u) ==
    /\ Running /\ stats[u] = "words"
    /\ known' = known \cup ToSet(Spoken(u))
    /\ Stage(u, "pairs")
    /\ UNCHANGED <<history, pairs, said, handler, main, ghosts>>

\* Pairs.LearnTrigrams
LearnTrigrams(u) ==
    /\ Running /\ stats[u] = "pairs"
    /\ pairs' = pairs \cup Trigrams(Spoken(u))
    /\ Stage(u, "append")
    /\ UNCHANGED <<history, known, said, handler, main, ghosts>>

\* Messages.Append, the text as it was sent
AppendMessage(u) ==
    /\ Running /\ stats[u] = "append"
    /\ history' = Append(history, [user |-> said[u].user, text |-> said[u].text, update |-> u])
    /\ Stage(u, "score")
    /\ UNCHANGED <<known, pairs, said, handler, main, ghosts>>

\* incrScore, and the deferred Done; the scores are WinnerDraw's.
Score(u) ==
    /\ Running /\ stats[u] = "score"
    /\ Stage(u, "done")
    /\ UNCHANGED <<tables, said, handler, main, ghosts>>

\* A statement that fails is logged; only Learn's second depends on its first.
StatementFails(u) ==
    /\ Running /\ u \in Writing /\ Cardinality(failed) < MaxFaults
    /\ Stage(u, CASE stats[u] \in {"words", "pairs"} -> "append"
                  [] stats[u] = "append" -> "score"
                  [] stats[u] = "score" -> "done")
    /\ failed' = failed \cup {u}
    /\ UNCHANGED <<tables, said, handler, main, timedOut, late>>

-----------------------------------------------------------------------------
(* DefaultHandler and Generator.Reply.                                     *)

\* shouldRespond says no, or the chat is disabled.
Ignore(u) ==
    /\ Running /\ handler[u].at = "decide"
    /\ Done(u)
    /\ UNCHANGED <<tables, said, stats, main, ghosts>>

\* The either-or answer, a text of the locale, goes the same way out.
Roll(u) ==
    /\ Running /\ handler[u].at = "decide" /\ handler[u].enabled /\ u \in Addressed
    /\ Goes(u, [handler[u] EXCEPT !.at = "send", !.reply = Answer])
    /\ UNCHANGED <<tables, said, stats, main, ghosts>>

Respond(u) ==
    /\ Running /\ handler[u].at = "decide" /\ handler[u].enabled /\ u \in Addressed
    /\ To(u, IF handler[u].mode = "neural" /\ ContextSizes # <<>> THEN "read" ELSE "seed")
    /\ UNCHANGED <<tables, said, stats, main, ghosts>>

\* RecentByBytesSince, or RecentByBytes for a chat never summarized
ReadRows(u) ==
    /\ Connected /\ handler[u].at = "read"
    /\ LET rows == Fitting(NewestFirst(handler[u].since))
       IN  Goes(u, [handler[u] EXCEPT !.at = IF rows = <<>> THEN "latest" ELSE "ask", !.rows = rows])
    /\ UNCHANGED <<tables, said, stats, main, ghosts>>

\* latestQuery, when nothing fits the budget
ReadLatest(u) ==
    /\ Connected /\ handler[u].at = "latest"
    /\ Goes(u, [handler[u] EXCEPT !.at = "ask", !.rows = Latest(NewestFirst(handler[u].since))])
    /\ UNCHANGED <<tables, said, stats, main, ghosts>>

\* The question is asked without a history.
ReadFails(u) ==
    /\ Running /\ handler[u].at \in {"read", "latest"}
    /\ To(u, "ask")
    /\ UNCHANGED <<tables, said, stats, main, ghosts>>

\* The conversation a reply is asked for, and the part a provider gets.
Conversation(u) == History(handler[u].rows, said[u].user, Spoken(u))
Payload(u) == Messages(System, Conversation(u))
Request(u) == Trim(Payload(u), ContextSizes[handler[u].provider])

ModelAnswers(u) ==
    /\ Connected /\ handler[u].at = "ask"
    /\ Goes(u, [handler[u] EXCEPT !.at = "send", !.rows = <<>>, !.reply = Answer])
    /\ UNCHANGED <<tables, said, stats, main, ghosts>>

\* The next provider of the chain, or the classic walk.
ModelFails(u) ==
    /\ Running /\ handler[u].at = "ask"
    /\ Goes(u, IF handler[u].provider < Len(ContextSizes)
               THEN [handler[u] EXCEPT !.provider = @ + 1]
               ELSE [handler[u] EXCEPT !.at = "seed", !.rows = <<>>])
    /\ UNCHANGED <<tables, said, stats, main, ghosts>>

\* idsOf: the seeds are the words of the message that are known by now, and if
\* nothing came of them those of the recent messages.
Seed(u) ==
    /\ Connected /\ handler[u].at \in {"seed", "context"}
    /\ LET words == IF handler[u].at = "seed" THEN ToSet(Spoken(u)) ELSE ContextWords
       IN  Goes(u, [handler[u] EXCEPT !.at = IF @ = "seed" THEN "walk" ELSE "walk on",
                                      !.walk = StartAt(words \cap known)])
    /\ UNCHANGED <<tables, said, stats, main, ghosts>>

\* idsToSentence: a walk is told with a capital letter.
Sentence(words) == [i \in DOMAIN words |-> IF i = 1 THEN Capital[words[1]] ELSE words[i]]

\* One FetchPair of buildSentence that finds a pair.
Step(u) ==
    /\ Connected /\ handler[u].at \in {"walk", "walk on"}
    /\ ~Stuck(pairs, handler[u].walk)
    /\ \E t \in Candidates(pairs, handler[u].walk) :
          Goes(u, IF t[3] = Null
                  THEN [handler[u] EXCEPT !.at = "send", !.walk = StartAt({}),
                                          !.reply = Sentence(Extended(handler[u].walk, t))]
                  ELSE [handler[u] EXCEPT !.walk = Following(@, t, handler[u].mode = "simplified")])
    /\ UNCHANGED <<tables, said, stats, main, ghosts>>

\* The walk is over; without a word it begins again from the recent messages.
EndWalk(u) ==
    /\ Connected /\ handler[u].at \in {"walk", "walk on"}
    /\ Stuck(pairs, handler[u].walk)
    /\ IF handler[u].walk.words # <<>>
       THEN Goes(u, [handler[u] EXCEPT !.at = "send", !.walk = StartAt({}),
                                       !.reply = Sentence(handler[u].walk.words)])
       ELSE IF handler[u].at = "walk" THEN To(u, "context") ELSE Done(u)
    /\ UNCHANGED <<tables, said, stats, main, ghosts>>

\* An error of the database ends the handler without an answer.
GenerateFails(u) ==
    /\ Running /\ handler[u].at \in Generating
    /\ Done(u)
    /\ UNCHANGED <<tables, said, stats, main, ghosts>>

Send(u) ==
    /\ Connected /\ handler[u].at = "send"
    /\ To(u, "persist")
    /\ UNCHANGED <<tables, said, stats, main, ghosts>>

SendFails(u) ==
    /\ Running /\ handler[u].at = "send"
    /\ Done(u)
    /\ UNCHANGED <<tables, said, stats, main, ghosts>>

\* prepareOutboundText
Outbound(words) == [i \in DOMAIN words |-> Escaped[words[i]]]

\* persistBotMessage
Persist(u) ==
    /\ Running /\ handler[u].at = "persist"
    /\ history' = Append(history, [user |-> BotID, text |-> Outbound(handler[u].reply), update |-> NoUpdate])
    /\ Done(u)
    /\ UNCHANGED <<known, pairs, said, stats, main, ghosts>>

PersistFails(u) ==
    /\ Running /\ handler[u].at = "persist"
    /\ Done(u)
    /\ UNCHANGED <<tables, said, stats, main, ghosts>>

-----------------------------------------------------------------------------
(* Main.                                                                   *)

\* Mutant: the goroutine adds itself when it runs.
MutantRegistered == {u \in Updates : stats[u] \notin {"none", "spawned", "done"}}

\* What statsWG counts.
Registered == {u \in Updates : stats[u] \notin {"none", "done"}}

\* The interrupt ends serve, and the deferred stopScheduler stops cron.
Interrupt ==
    /\ main = "serving"
    /\ main' = "cron"
    /\ UNCHANGED <<tables, said, handler, stats, ghosts>>

\* The cron jobs have ended, or took too long.
CronStopped ==
    /\ main = "cron"
    /\ main' = "waiting"
    /\ UNCHANGED <<tables, said, handler, stats, ghosts>>

\* WaitCollectStats returns.
StatsDone ==
    /\ main = "waiting" /\ Registered = {}
    /\ main' = "leaving"
    /\ UNCHANGED <<tables, said, handler, stats, ghosts>>

StatsTimeOut ==
    /\ main = "waiting" /\ Registered # {}
    /\ main' = "leaving" /\ timedOut' = TRUE
    /\ UNCHANGED <<tables, said, handler, stats, late, failed>>

\* pool.Close and the end of the process
Close ==
    /\ main = "leaving"
    /\ main' = "closed"
    /\ UNCHANGED <<tables, said, handler, stats, ghosts>>

CollectStats(u) ==
    \/ Acquire(u) \/ EnsureIDs(u) \/ LearnTrigrams(u) \/ AppendMessage(u) \/ Score(u)
    \/ StatementFails(u)

Reply(u) ==
    \/ ReadRows(u) \/ ReadLatest(u) \/ ReadFails(u) \/ ModelAnswers(u) \/ ModelFails(u)
    \/ Seed(u) \/ Step(u) \/ EndWalk(u) \/ GenerateFails(u)

Handle(u) ==
    \/ Receive(u) \/ EnsureEntities(u) \/ EnsureFails(u) \/ Register(u)
    \/ Ignore(u) \/ Roll(u) \/ Respond(u) \/ Reply(u)
    \/ Send(u) \/ SendFails(u) \/ Persist(u) \/ PersistFails(u)

Stop == Interrupt \/ CronStopped \/ StatsDone \/ StatsTimeOut \/ Close

Next == (\E u \in Updates : Handle(u) \/ CollectStats(u)) \/ Stop

Spec == Init /\ [][Next]_vars

-----------------------------------------------------------------------------
(* Properties.                                                             *)

Handler ==
    [at : {"new", "ensure", "register", "decide", "read", "latest", "ask", "send", "persist", "done"}
            \cup Generating,
     mode : {"classic", "simplified", "neural"}, enabled : BOOLEAN, since : Nat,
     rows : Seq(Row), provider : Nat \ {0}, reply : Seq(Words),
     walk : [words : Seq(Words), first : Words \cup {Null, AnyWord}, second : SUBSET Words]]

\* Rows, goroutines and walks keep their shape; a walk stays within its bound, and
\* who is asked is a provider of the chain.
TypeOK ==
    /\ history \in Seq(Row)
    /\ known \subseteq Words
    /\ pairs \subseteq (Words \cup {Null}) \X (Words \cup {Null}) \X (Words \cup {Null})
    /\ said \in [Updates -> [user : Users \cup {BotID}, text : Seq(Words \cup {Break})]]
    /\ handler \in [Updates -> Handler]
    /\ \A u \in Updates :
          /\ handler[u].at = "ask" => handler[u].provider \in DOMAIN ContextSizes
          /\ Len(handler[u].walk.words) <= SafetyCounter
    /\ stats \in [Updates -> {"none", "spawned", "words", "pairs", "append", "score", "done"}]
    /\ main \in {"serving", "cron", "waiting", "leaving", "closed"}
    /\ timedOut \in BOOLEAN /\ late \cup failed \subseteq Updates

Alternates(turns) == \A i \in 2 .. Len(turns) : turns[i].role # turns[i - 1].role

\* What people write twice in a row, what the bot writes twice in a row, and the
\* question once more: before the cut the conversation alternates between people and
\* the assistant, and ends with the question in the name of who asked
\* (normalizeRoleAlternation).  What is sent still alternates if the cut took no turn
\* from it; if it did, trimMessages may have passed over a turn between two others,
\* and "strict chat templates accept the payload" (generator.go) no longer holds.
ConversationAlternates ==
    \A u \in Updates : handler[u].at = "ask" =>
        /\ Last(Conversation(u)) = Turn("user", said[u].user, Spoken(u))
        /\ Alternates(Conversation(u))
        /\ Len(Request(u)) = Len(Payload(u)) => Alternates(Request(u))

\* Whatever is under way, the tables and goroutines keep their shape, and what a
\* model is asked alternates as far as no turn is cut from it.
TalkInv == TypeOK /\ ConversationAlternates

\* Every person's words in a conversation were said that often: the stored copy
\* of the question is not told a second time beside the question itself, unless
\* the copy is laid out in lines or somebody's message was stored after it
\* (WithoutCurrent).
SaidOnce ==
    \A u \in Updates :
        LET rows == handler[u].rows
            own == {i \in DOMAIN rows : rows[i].update = u}
            question == Turn("user", said[u].user, Spoken(u))
            before == {i \in DOMAIN rows \ own :
                          /\ rows[i].user = said[u].user /\ Trimmed(rows[i].text) = Spoken(u)}
        IN  handler[u].at = "ask" /\ own \subseteq {1} /\ Trimmed(said[u].text) = Spoken(u)
              => Cardinality({i \in DOMAIN Conversation(u) : Conversation(u)[i] = question})
                   <= Cardinality(before) + 1

\* The request that goes out for a message holds the system prompt, then turns of
\* the conversation in their order, then the question or its beginning; it fits the
\* provider's size unless the system prompt alone does not, and no turn was dropped
\* that would have fit (trimMessages).
IsFitted(u) ==
    LET max == ContextSizes[handler[u].provider]
        request == Request(u)
        system == IF System = <<>> THEN <<>> ELSE <<Turn("system", NoName, System)>>
        middle == SubSeq(request, Len(system) + 1, Len(request) - 1)
    IN  /\ IsPrefix(system, request)
        /\ IsPrefix(Last(request).words, Spoken(u)) /\ Last(request).name = said[u].user
        /\ \E pos \in [DOMAIN middle -> DOMAIN Front(Conversation(u))] :
              \A i, j \in DOMAIN middle :
                  /\ middle[i] = Conversation(u)[pos[i]]
                  /\ i < j => pos[i] < pos[j]
        /\ max > 0 => Size(request) <= max \/ Size(system) > max
        /\ \A i \in DOMAIN Front(Conversation(u)) :
              \/ Contains(middle, Conversation(u)[i])
              \/ max > 0 /\ Size(request) + Size(<<Conversation(u)[i]>>) > max
              \/ Last(request).words # Spoken(u)

\* Whatever is asked for a reply, the request was fitted to who is asked.
RequestFits == \A u \in Updates : handler[u].at = "ask" => IsFitted(u)

\* A walk never goes on past the end of a sentence, whoever learns what meanwhile
\* (Learn puts a NULL after every ender; buildSentence stops there).
ReplyIsOneSentence ==
    \A u \in Updates :
        \A i \in DOMAIN handler[u].walk.words :
            handler[u].walk.words[i] \in Enders => i = Len(handler[u].walk.words)

\* The texts anybody may have taught.
Taught ==
    {Fields(Past[i].text) : i \in DOMAIN Past} \cup {Spoken(u) : u \in Updates}

\* Words that follow each other in a reply followed each other in a message, in
\* threes in the classic mode and in twos in the simplified one.
WalkFollowsSpeech ==
    \A u \in Updates :
        LET words == handler[u].walk.words
            span == IF handler[u].mode = "simplified" THEN 2 ELSE 3
        IN  \A k \in 2 .. span : \A i \in 1 .. Len(words) - k + 1 :
                \E text \in Taught : SubSeq(words, i, i + k - 1) \in SubSeqs(text)

\* "Called on shutdown so learn/append/score writes are not lost": after a stop
\* that did not time out, every message whose writes were registered while main
\* still served or waited is in the history and learned, up to failed statements.
StopLosesNothing ==
    main = "closed" /\ ~timedOut =>
        \A u \in Updates \ (late \cup failed) :
            stats[u] # "none" /\ handler[u].enabled =>
                /\ \E i \in DOMAIN history : history[i].update = u /\ history[i].text = said[u].text
                /\ Trigrams(Spoken(u)) \subseteq pairs
=============================================================================

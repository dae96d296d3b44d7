# A verification project for shizoid

shizoid (`src/apps/shizoid`) is a Telegram bot in Go: it learns vocabulary from a
chat, answers with a Markov generator or a language model, draws a daily winner,
greets newcomers and asks them a captcha. One process serves many chats, with its
state in PostgreSQL. Every Telegram update runs in a goroutine of its own, cron
jobs run beside them, and both call services (Telegram, the models, the database)
that fail, time out or answer after the caller gave up.

The specifications here are TLA+ modules translated from that code, TLC
configurations that check them on small instances, and proofs checked by TLAPS.
`PROJECT.json` maps each definition to the lines it models and lists the runs,
theorems, findings and hazards.

## 1. The system

| Component | State it keeps | Operations | Talks to |
|---|---|---|---|
| Summary queue (`scheduler/queue.go`, `models/summary_job.go`) | table `summary_jobs`, one row per chat and kind: payload, attempts, `run_after`, `expires_at` | Enqueue, ExpireOverdue, Claim (lease), Done, Retry (backoff); the drain loop | winner announcement, chat memory, models, Telegram |
| Winner draw (`scheduler.go` runWinners, `models/winner.go`) | `winners` (one row per chat and day), `participations.score` | HasToday, TopByScore, Create, ResetScores, Announce | queue or Telegram |
| Winner announcement (`handlers/winner/announce.go`) | the queued snapshot | Deliver: ceremony while there is time, then the send | models, Telegram |
| History and memory (`models/message.go`, `queue.go` summarizeMemory) | `messages`, `chats.memory`, `chats.memory_summarized_at` | Append, TextsSinceByBytes, SetMemory, SetMemorySummarizedAt, PruneChatByBytes | queue, models |
| Captcha (`handlers/captcha`, `models/participation.go`) | captcha columns of `participations`, `users.captcha_solved_at`; the mute and the message at Telegram | claim, challenge, Callback, ExpirePending, Kick, Unmute | Telegram |
| Greeting (`handlers/greeting`) | `participations.greeted_at` | claim, one message for a batch, roll-back | Telegram |
| Ingest (`handlers/middleware.go`, `models/ingest.go`, `handlers/member.go`) | chats, users, participations rows | EnsureJoin, EnsureEntities, leave, scoring, collectStats in the background | everything above |
| Neural client (`neural/`) | per-provider daily ledger, in memory | fallback chain, reserve and release, trimMessages | model servers |
| Generator (`generator/`, `models/pair.go`, `models/word.go`) | words and trigrams | Learn, Generate, Reply | neural client, database |
| Gate, settings, text (`handlers/handlers.go`, `text.go`, the commands) | columns of `chats`, `greetings` | one write per command, two for a greeting; whether to answer | Telegram, every component that reads the chat's row |
| Scheduler and shutdown (`scheduler.go`, `cmd/app/main.go`) | running cron jobs, `statsWG`, `statsSem` | Start, forEachActiveChat, stopScheduler, WaitCollectStats | all cron jobs |
| Telegram output (`telegram/markdown.go`, `message.go`) | none | validate, repair and cut MarkdownV2; send | everything that speaks |
| Locale (`locale/`) | none after the start | T, List, Random | everything that speaks |
| Configuration, logging, migrations | none that changes while the bot runs | formatting and output | |

What makes it hard:

* **Leases, retries and time.** A queue job is held under a lease while a slow
  model works; the job may be replaced, may expire, the process may stop, an
  answer may be lost. Correct: one holder at a time, no work long after expiry,
  a replacement is never touched by the attempt it replaces, repeated messages
  only after failures, every row leaves the table.
* **A draw is four statements and a hand-over**, with members scoring meanwhile,
  midnight at any step and possibly two processes. Correct: one winner and one
  announcement a day, no point rewarded twice, recorded draws are heard.
* **A prune and a summarizer share the history.** Correct: no holes, the recent
  budget is kept, a model outage deletes nothing unread.
* **A join arrives twice**, handled by two goroutines that mute, post and store in
  separate steps, while the member presses buttons and a sweep kicks. Correct: one
  claim at a time, consistent rows, one greeting, no newcomer silenced for ever.
* **One ledger of daily limits for all callers.** Handlers and the queue's worker
  reserve and release units of the same providers, across midnight. Correct: the
  books balance, no limit is overdrawn, nobody is refused for units nobody used.
* **A reply reads what messages are writing.** The history a model is asked with and
  the pairs a walk follows change statement by statement. Correct: a conversation
  that alternates and ends with the question, cut to size and no further;
  a walk says one sentence, and only what was taught.
* **A stop waits for background writes.** Correct: what was registered is written.
* **Every update works on a copy of its chat's row** while other goroutines change the
  row and Telegram changes who is an administrator. Correct: who sets a setting is
  entitled to it, a stopped chat stays quiet, what is confirmed is stored, and the two
  statements of a greeting end up together.
* **A model's words go into the bot's markup**, are cut, folded and repaired again when
  they are sent. Correct: what was put together is what goes out, it fits, none of
  their marks pairs with one of the bot's, and nobody's message forges a line of
  what the model is asked.
* **All chats of a cron job share one deadline.** Correct: one slow chat starves nobody.

## 2. Modules

| Module | Models | Size of the step |
|---|---|---|
| `QueueContract` | what a work queue with one slot per chat and kind promises: the newest submission of a slot is carried out, refused or expired, and carried out at least once if settled | the contract, abstract |
| `SummaryQueue` | the table, the cron tick, the drain, both kinds of job, leases, backoff, expiry, failures, crash, restart under another build | one statement or call |
| `SummaryQueueProofs` | theorems about `SummaryQueue` | |
| `ChatMemory` | one chat's messages, summaries and prunes | one statement or call |
| `ChatMemoryProofs` | theorems about `ChatMemory` | |
| `WinnerDraw` | draw, scoring, switches, midnight, overlapping processes; the queue only through `QueueContract` | one statement or call |
| `WinnerDrawProofs` | theorems about `WinnerDraw` | |
| `MemberJoin` | captcha, greeting, join and leave | one statement or call of a goroutine |
| `MemberJoinProofs` | theorems about `MemberJoin`: rows, claims, and that a newcomer can answer | |
| `NeuralLedger` | the chains of providers and the ledger of their daily limits | one call or ledger operation |
| `NeuralLedgerProofs` | theorems about `NeuralLedger` | |
| `Prompt` | how a conversation is put together and cut to a provider's size | pure operators |
| `Markov` | what a message teaches, and the step of a walk | pure operators |
| `Talk` | the handling of messages: background writes, replies of both kinds, the stop of the process | one statement or call of a goroutine |
| `TalkProofs` | theorems about `Talk`, with lemmas about `Prompt` and `Markov` | |
| `Settings` | the gate, the commands that write settings, what texts, joins and the scheduler's rounds read of them | one statement or call of a goroutine |
| `SettingsProofs` | theorems about `Settings` | |
| `Locale` | lookup, fallback and interpolation of texts | pure operators |
| `Texts` | Go's strings: trimming, joining, cutting a beginning | pure operators |
| `Markup` | the MarkdownV2 parser: validation, repair, folded quotes | pure operators |
| `DrawPrompt` | what a winner announcement asks the model: the draw block and the day's log | the rows read, then rendered |
| `Delivery` | how a text is cut to a limit and a model's words are folded under a result block, for any repair and quote | a result block, then an answer that grows |
| `Announcement` | the two together, with the result block and the parser of `Markup` | a draw, then an answer that grows piece by piece |
| `AnnouncementProofs` | theorems about `DrawPrompt` and `Delivery` | |
| `MC...` | instances for TLC | |

**Composition.** `SummaryQueue` implements `QueueContract` (`KeepsContract`, by
`INSTANCE QueueContract WITH ...`; checked on a run and proved), and `WinnerDraw` uses
`QueueContract!Submit`, `CarryOut`, `Refuse`, `Settle` and `Expire` as its queue. What `WinnerDraw` shows of
announcements therefore holds for the queue as it is written. `ChatMemory` contains
the memory job's own statements, whose place in the queue is the `Fold` and
`FoldFails` of `SummaryQueue`. `Talk` extends `Prompt` and `Markov`; its
`ModelAnswers` and `ModelFails` are the ends of one provider's turn in
`NeuralLedger`, and its rows are the ones `ChatMemory` prunes (the prune keeps
at least what a reply reads, `MaxReplyContextBytes`, so it is left out there).
`Announcement` extends `Markup`, `DrawPrompt` and `Delivery`, with `Markup`'s `Sanitized` and
`QuoteExpandable` for `Delivery`'s constants (its `Render` and `Answered` are steps of
`PromptSpec` and `DeliverySpec`), and says what the `Send` of `SummaryQueue` sends. `Settings` writes the columns `WinnerDraw` (`Switch`) and
`MemberJoin` (`SetCaptcha`) let change at any time, and shows which texts and joins get as
far as `Talk` and `MemberJoin`. A chat's greeting is fixed for a behaviour of `MemberJoin`;
its changes, and a join between them, are `Settings`' own.

### SummaryQueue

`jobs[slot]` is a row or `NoJob`. `worker` is the goroutine of runSummaryQueue: its
phase (sweep, claim, model, send, fold, finish, retry), the deadlines of the
contexts it holds (`deadline` of the call, `jobDeadline`, `start` + DrainBudget) and
the copy of the row it claimed. There is one worker because the cron job runs under
`SkipIfStillRunning`. `Advance` moves the clock no further than the deadline of the
pending call, since a Go context ends the call there. Time counts in cron periods.
`QueueAssumption` says that durations and bounds are numbers, a TTL and the number of
submissions positive ones, and that there is a build; `LeaseAssumption` is the one fact
about the code's durations: a chat's timeout and a write timeout together are shorter than
the lease.

`Mine(s)` is the WHERE of Done and Retry: the row still has the attempt number of
the copy. `OldestDue` is Claim's choice. `Closing` opens the context of the closing
write, apart from the job's own as in finishJob and retryJob. `ran`, `expired`,
`refused` and `submitted` are history.

### ChatMemory

Messages are numbered in the order of their `created_at`, with lengths that make the
byte budgets count. `CumBytes` is the window sum of byteBudgetedQuery, `Window` the
texts a summary reads, `Prunable` the DELETE of PruneChatByBytes with the
keepUnsummarized condition. The model call lies between `ReadWindow` and
`ModelAnswers`, and the two writes of a summary are `SetMemory` and
`SetMemorySummarizedAt`.

### WinnerDraw

`drawer[p]` is the goroutine of runWinners in process `p`: the remaining chats of
forEachActiveChat, then standings, create, reset, announce. `day` is the database's
CURRENT_DATE. `Top` allows every order of equal scores. A failed trim inside
Winners.Create returns an error after the INSERT, as in the code. `counted`, `scored`,
`late` and `crossed` are history.

### MemberJoin

`proc[a]` is what goroutine `a` is doing: a handler of a join, leave or button
press, or ExpirePending. Each statement and Telegram call between two others is an
action, so that anything may happen between a mute, a post, the storage of the
details, and a kick. `joinNotices` holds deliveries: a batch comes once as
new_chat_members, each of its members once as chat_member. A post of a challenge fails
before it reaches the chat (`PostFails`) or after, when only its answer is lost
(`PostUnseen`): either way the claim is given up. Deliveries, presses, leaves,
the sweep, /captcha and captchas solved in another chat interleave. A row's
`requested` is null, fresh or old (past the minute ExpirePending grants).

### NeuralLedger

`ledger[name]` is the entry of usageLedger, `call[c]` where a caller's walk along its
chain stands: before a provider, asking for a slot, sending, or about to release. The
summary chain has one caller because the queue has one worker; the reply chain as many
as there are handlers. `Holding(n, d)` are the callers with a unit of name `n` that was
reserved on day `d`. `spent` is history: answers paid for, per name and day. The mutex
of the ledger makes reserve and release single steps.

### Talk, Prompt, Markov

A text is a sequence of words with `Break` where its white space is more than a blank:
`Fields` drops it, as strings.Fields and Join do, while the stored row keeps it; a turn
of the history is the row without the white space at its ends (`Trimmed`), and a blank row
is no turn (`Told`). A word is one rune of `RuneBytes` bytes, and so is a `Break`. A walk
begins with a capital letter (`Sentence`), and whatever the bot says is recorded as it was
sent, with its escapes (`Outbound`).

`handler[u]` is the goroutine of one update from Ingest to the recording of its answer,
with its copies of the chat's row, of the history it read and of the walk it is on;
`stats[u]` its collectStats. `main` goes from serving through stopScheduler and
WaitCollectStats (`waiting`) and the other deferred calls (`leaving`) to the closed
pool. The interrupt cancels the handlers' context, so their calls fail from then on
(`Connected`); the background writes and the recording of answers have contexts of their
own and go on until the pool is closed (`Running`). `WithoutCurrent`, `AppendCurrent`
and `Alternate` are the three parts of buildNeuralHistory, `Trim`, `Keep` and `CutLast`
those of trimMessages. `Trigrams` and `Padded` are the loops of Learn, `Fields` the one of
strings.Fields, `Alternate` the one of normalizeRoleAlternation (a turn more is `Joined`),
`Keep` the one of trimMessages (`WithOlder`) and `Size` its sum, each a recursive function
on the positions of its sequence; the walk takes one step per FetchPair.

### Settings

`row` is the chat's row and `text` its row of greetings. `handlers[h]` is the goroutine
of one update, from Ingest through the gate to its reply: `chat` is Ingest's copy of
the row, `order` what was sent, `at` the statement it is at. `Statements(order)` are the
statements of a command, an operator per command (`GabSets`, `GreetingSets`, ...);
`Ask` is the question to Telegram, which may fail, asked by the gate for `Roles` and
inside the commands of `ChecksInside`. A failed Ingest leaves the update without a chat.
`Round`, `OtherTurn` and `Turn` are forEachActiveChat, with `left` the budget that is
left. `seen` collects facts that held at some moment while a goroutine was at work: the
properties are about a copy that is never right by more than the row was since.
`whole` says that the last /greeting ran alone and to its end.

### Texts, Locale, Markup, DrawPrompt, Delivery, Announcement

A text is a sequence of runes, where "." stands for every rune MarkdownV2 reserves
without a markup of its own. A parse that may fail is the set of its results, empty or
with one element, so `Either` is the parser's "try this, else that". A byte is a rune.
`DrawPrompt` holds the rows read for a prompt and the length of the system prompt (`rows`,
`system`), on which the properties of prompts are stated: `UserMessage` is
buildUserMessage over `FitLog` and `DrawBlock`. `Delivery` holds the queued result block
(`draw`) and the model's answer: `FitV2` and `CutFrom` are FitV2 and its loop, `FitCeremony`
and `FoldedIn` fitCeremony and its loop, `Outbound` the repair every message passes on its
way out. What repairs and quotes a text are constants of `Delivery` (`SanitizeV2`,
`QuoteExpandableV2`), because the parser is recursive and the prover cannot see into it; the
run gives them `Markup`'s operators. `Result` is the half of render that does not wait for a
model, with the standings of the year out of `YearTops` or, if they could not be read,
without; an answer grows by `Pieces`. `ByBot` is what keeps the bots out of the log.

## 3. Runs

| Run | What it asks | Instance |
|---|---|---|
| `queue_crash` | exclusive lease, replaced jobs stay due, duplicates cost faults, no work long past expiry | one chat's announcement, 2 submissions, 2 faults, 8 ticks |
| `queue_drains` | refinement of `QueueContract`; every row leaves the table under fairness | memory and unknown kinds, builds with and without chain, 2 submissions, 1 fault |
| `queue_outage` | a draw does not expire unheard because models fail | 2 chats drawn twice each, models fail freely, a TTL one instant longer than the ceremony's budget, a full backoff and both turns |
| `memory_prune` | no holes, budget kept, an outage loses nothing, a message is folded twice only per fault | 4 messages, prunes and summaries in every order |
| `memory_unread` | (violated) unread messages are spared | same, smaller |
| `draw` | points count once; one announcement per draw; recorded draws are heard | 2 members, 2 processes, 2 days, 1 fault or crash |
| `join_rejoin` | rows consistent; silenced newcomers can answer; greeted once | a member joining twice, each join delivered twice, 1 press, toggles, solved elsewhere |
| `join_ends` | a further challenge needs a claim given up before it; a greeting claimed and not sent is rolled back; a silenced newcomer answers or is removed | 1 join delivered twice, 1 press, 1 fault, lost answer or crash; a greeting's flag without its text |
| `ledger` | books balance, no limit overdrawn, refusals are just | 2 handlers and the worker, a name in both chains with limits 1 and 2, an unlimited provider, 2 days, restarts |
| `settings` | who sets is entitled; a stopped chat stays quiet; confirmed is stored; greetings are whole; nobody is starved | an owner and a member, 2 goroutines, 3 updates out of 10 kinds, 1 fault, 1 change of administrators, a round over 3 chats |
| `markup` | prompts keep to the bot's lines and fit; results need no repair; repaired texts are stable; cuts fit; announcements go out as put together | logs of up to 3 messages, 3 system prompts, 2 languages, 2 labels, the year's standings or none; answers of up to 5 runes out of 6 pieces of markup |
| `talk` | conversations alternate before the cut, hold the question once and are cut to size, walks say one taught sentence, a stop loses nothing | 2 messages of 2 people, one of them answered, 2 providers of different sizes, 1 failed statement, a stop at any time |

`HistoryInv`, `DrawInv`, `RowInv`, `TalkInv` and `ResultInv` are their module's `TypeOK` and
the safety property named beside it in the module; the other modules list `TypeOK` itself.
`ClaimsInv` is `ClaimsNeedReleases` and `GreetedOnce` together.

**Bounds.** Two submissions are what it takes to replace a job in flight; the time
bound lets a job be claimed, fail, back off, be claimed again and expire. Two
messages inside and two outside a byte budget are enough for window, prune and a
summary to disagree. Two days give one midnight between any two steps; two processes
are one overlap. Two handlers take both deliveries of a join at once, or a delivery
and a press; the sweep has a goroutine of its own. A third handler would add a third
concurrent delivery, which Telegram does not send. One member is enough for the
properties of `MemberJoin`, which speak of one member's row each; what two members of
one batch share is one greeting message, and that is not exercised by the runs.

In `settings` three updates are a command, one that outdates its copy and one that reads
what they left; ten kinds of updates cover both places a role is checked, commands with
one and two statements, refused values, texts that may and must not be answered, joins
and rounds. `AllowToAll` is FALSE there (with TRUE nothing is asked of `StoppedIsQuiet`);
the proofs cover both values and every number of updates, users and orders. In
`markup` the result block takes most of the message, so that answers are cut at every
length, through marks, escapes and quote lines; six pieces make nested and doubled marks,
folded and plain quotes, escapes and blank lines. Links and code are in the parser, and in
result blocks, but not among the answers' pieces.

In `ledger` three callers meet at one name with two limits, so that one is refused
what the other may still take; two days give one midnight between any reserve and
release. In `talk` the answered message meets another one at each of its statements;
of the two context sizes one drops history - and with it the alternation, as section 5
says - and one cuts the question; two of the stored rows are the bot's, so that they are
joined, and one ends in white space; a walk of four
words crosses two messages that share a word in different places. The repertoire of the runs is two utterances, with and without a sentence end. Two answered
messages at once would differ only by the answers in the history, which an earlier
row stands for (`Addressed`).

`draw` has no fewer standings than scorers: TopByScore's limit is not reached.
ResetScores also drops the points of members below the limit, which is what a draw
means. `CHECK_DEADLOCK FALSE` stands in the runs of `MemberJoin` and `WinnerDraw`
because people may stop joining and scoring, in `talk` because the process ends, and in
`settings` and `markup` because the updates and the answer are bounded.

**Symmetry** is used in safety runs only, over members, handlers, emojis, chats and
processes, which the definitions never order or choose among.

## 4. Fairness

`SummaryQueue!Fairness`: cron fires, the worker goroutine goes on (every call ends
by its context), a stopped process is restarted by its supervisor, time passes.
Nothing is assumed about a model's answers: retries end because jobs expire.
`MemberJoin!Fairness`: goroutines are scheduled, the minute passes, the captcha cron
job fires. Nothing is assumed of members: the challenge may never be answered.

## 5. What disagrees with the repository's own words

One run ends in a violation of something a document or comment says (`PROJECT.json`,
findings): a summary's time is read after the model call, so messages no summary read
become prunable.

Met while modelling, in steps the modules have, and without a run of their own:

* Queue: a permanent refusal of Telegram drops an announcement that has not expired
  (`SendRefused`), where the repository's README says only expiry gives a job up.
* Draw: an error or a stop between the winner's row and the announcement loses the
  announcement, because HasToday then keeps the draw from being repeated.
* Captcha: a kick checks the mute and bans in two calls. A challenge whose answer is lost
  stands in the chat with its buttons, and no row knows it. A claim cleared after a failed
  challenge lets the other delivery of the same join challenge again, which is why
  `ClaimsNeedReleases` counts releases and not joins. A captcha solved elsewhere marks
  a rejoining member as solved without unmuting them, which is why `NewcomerCanAnswer`
  speaks of people who have not solved one. A press between the post of a challenge and
  SetCaptchaDetails is compared with an emoji that is still NULL (captcha.go:199), so the
  right button counts as wrong and its member is removed.
* Markup: the parser passes over an escaped rune also when it is a newline, and a quote
  splits its text at every newline; a line that ends in a backslash is therefore read in
  two ways, a repair may have to escape the whole text, and a repaired text may change
  when it is sent. `Calm` keeps such answers out of the properties it stands in.
  EscapeMarkdown escapes no backslash: a label or a name that ends in one would
  escape the mark behind it, which `AnnouncementAssumption` excludes.
* Announcement: the loop of fitCeremony takes off the cut what the quote is too long by;
  over many lines, each with a mark of its own, it may step past every text that fits
  and drop the ceremony (`SentAsPutTogether` asks for it of one line). Three scorers with
  two excerpts of 120 runes can exceed the 2048 bytes drawReserve grants when a rune
  takes four bytes, which is the premise of `PromptIsSound`; a system prompt above the context leaves no log.
* Locale: only T falls back to another language. Random and List do not, so a
  language without a "nok" denies with an empty text.
* Settings: an UPDATE of a chat without a row is confirmed and stored nowhere (a command
  whose Ingest failed, the premise of `ConfirmedIsStored`). Two interleaved
  /greeting, or one that fails between its statements, leave text and flag apart until
  the next one.
* Limits: provider.go speaks of completions per calendar day; an answer counts for
  the day it was reserved on, and a restart forgets the day's count.
* Conversation: normalizeRoleAlternation parts turns of one role "so strict chat templates
  (Gemma, some Qwen builds) accept the payload" (generator.go:309-310). The payload is cut
  after that, and trimMessages, for which "older history is dropped from the front"
  (neural.go:163-164), skips a turn that is too long and keeps older ones (neural.go:198-201):
  two turns of one role follow each other again in what is sent. `TalkInv` therefore says
  that the conversation alternates before the cut, and the request only if the cut took no
  turn from it; `MCTalk` evaluates a conversation of the run's instance that loses its
  alternation (`CutLosesAlternation`). When
  somebody's message is stored between the question and the reading of the history, or
  the question has several lines, the question is told twice (the premises of
  `SaidOnce`). What the bot said comes back to it with its MarkdownV2 escapes.
* Learn: the sentence after a one-word sentence is never learned as a beginning, and
  every message leaves trigrams of NULLs no walk can reach.
* Stop: a handler between EnsureEntities and statsWG.Add when the wait returns loses
  its writes (`late`); only os.Interrupt is waited for, a SIGTERM is a crash.

## 6. What is proved

`SummaryQueueProofs`, for every set of chats and kinds, all durations that satisfy
`QueueAssumption`, and any number of submissions, faults and ticks:

* `TypeCorrect`: `Spec => []TypeOK`.
* `LeaseIsExclusive`: `Spec => []LeaseHolds`.
* `FreshBackoffKept`: `Spec => []FreshJobStaysDue`. It is about delay and lease; that a
  replacement is not deleted either is part of `QueueKeepsContract`.
* `ExpiryIsRespected`: `Spec => []NoWorkLongPastExpiry`.
* `DuplicatesAreFaults`: `Spec => []DuplicatesNeedFaults`.
* `QueueKeepsContract`: `Spec => KeepsContract`, the refinement of `QueueContract`.
* `EveryDrawIsHeard`: `Spec => []NoDrawExpiresUnheard`, under `RoomForAll`.

None of the four invariants after the types is inductive alone. The lease needs
`DeadlinesNest` (a call ends within its job's context, that within the drain's, the
closing write a WriteTimeout later) and `LeaseOutlivesTurn` (a lease taken inside the
drain outlasts all of them, by the assumption on Lease). Expiry needs the nesting again
and `NothingExpiredAtStart`: Claim itself does not look at `expires_at`, so all rests on
what the sweep at the start of the drain left behind. Duplicates need `PayloadsInOrder`
(the copy at work belongs to the row whose payload it carries) and
`PendingRanOnlyOnFaults` (what is still to be run has run only as often as something
failed). `FreshJobStaysDue` is inductive with the types. Each part is preserved by each
action in a lemma of its own (`...Step`); `Backoff` is bounded by `BackoffIsCapped`, for
every number of attempts. The refinement maps every action to a step of the contract or a
stutter under `UnitsInOrder`: a row stands for the newest unit of its slot, a copy that is
still `Mine` for the row's, and a job comes to its finish only after it ran or was
refused.

`EveryDrawIsHeard` is the one theorem here with a hypothesis about durations. `RoomForAll`
says that the table has finitely many slots, that a chat's timeout fits the drain's budget
and that an announcement's TTL is longer than the ceremony's budget, one full backoff and
a turn (a chat's timeout and the wait for the next tick) of every slot together. Without
it the property is false: chats with slow models keep one another waiting until one
expires. In minutes the code has a TTL of 1200, a ceremony's budget of 120, a backoff of
at most 10 and turns of 6, which leaves room for 178 slots: 89 chats with an announcement
and a memory job each. The run has the smallest TTL `RoomForAll` admits for its constants,
12; with 11 it still holds there, and with 10 TLC finds a draw that expires. The invariant
bounds waiting by counting: `TurnsCome` says that a due job comes to its turn no later
than a turn for every slot after it became due, since whoever is `Ahead` of it is taken
once before it (`RowsWaitBehind`: a retried or new row queues up behind). For
announcements, `TriedInTime` puts the last attempt no later than the ceremony's budget and
one backoff after the draw: what fails before is put off by a backoff, and past the budget
an attempt sends without the model. Its turn comes before the expiry, so no sweep drops
one (`NoneExpired`). `CopyOfRow` ties the worker's copy to the row, `OnlyTheModelFailed`
says that nothing but models failed.

`NeuralLedgerProofs`, for all callers, chains, limits and days:

* `LedgerTypes`: `Spec => []TypeOK`.
* `BooksBalance`: `Spec => []LedgerAccounts`.
* `LimitsHold`: `Spec => []CapHolds`.
* `RefusalsAreJust`: `Spec => RefusalIsJust`, an action property.

`LedgerAccounts` says that an entry counts the answers paid for on its day and the
callers holding a unit of it. It is not inductive: a reservation on a new day starts
counting at one, right only if nothing is held or paid for on a day the entry has not
reached (`NothingAhead`), and a release has to find its own unit in the count, so a
caller at work holds a day exactly if its provider is limited (`UnitsHeld`). Holders are
counted with cardinalities: a step of one caller adds it to one set of holders or takes
it away (`Joins`, `Leaves`) and leaves every other as it was (`OthersHold`). `CapHolds`
follows a reservation because the books then say the units used were below the limit;
a refusal is just for the same reason.

`SettingsProofs`, for all users, owners, orders, values, budgets and numbers of
goroutines and updates:

* `Typed`: `Spec => []TypeOK`.
* `OnlyTheEntitledSet`: `Spec => []SetterIsEntitled`.
* `QuietAsTold`: `Spec => []QuietWhenTold`, from `StoppedStaysQuiet` and `ZeroIsQuiet`.
* `ConfirmedHolds`: `Spec => []ConfirmedIsStored`.
* `OneSlowChatStarvesNobody`: `Spec => []StarvedByMany`.
* `GreetingsAgree`: `Spec => []GreetingInv`.

The first three follow from `IInv`, the types and `Behind(h)`: what a goroutine has behind
it at each place - the gate's role, the question asked inside, and that an enabled copy
was taken from an enabled row while the goroutine was at work. A step of another goroutine
keeps it because what was seen only grows (`BehindOthers`); the goroutine's own steps
establish it for the next place (`BehindMover`). `ConfirmedHolds` needs the statements
done so far to be in the row (`KeepsNext`): a greeting's two write different columns
(`Apart`), an upsert keeps an existing row, and a goroutine that writes a column of
another's marks it as overtaken. `OneSlowChatStarvesNobody` needs `RoundInv`: what a round has
used is at most a slice for each chat it has passed. `GreetingsAgree` needs that
whoever is handled beside another /greeting has seen it (`SeesOthers`), that between its two
statements the stored text is its own (`TextIsOwn`), that text and flag agree as long as the
greetings came one after the other (`WholeAgrees`), and that a join whose copy has the
flag finds the text or has seen why not (`JoinFinds`).

`MemberJoinProofs`, for all people, symbols, goroutines, joins,
presses and failures:

* `TypeCorrect`: `Spec => []TypeOK`.
* `RowsStayConsistent`: `Spec => []RowInv`, inductive with the types: `RowMoves` lists
  what one step can do to a row, and each of these keeps its columns consistent.
* `ClaimsFollowReleases`: `Spec => []ClaimsNeedReleases`, from `ClaimsAreHeldOnce`, in
  which a row that can be claimed has no claim left to give up, and another has one.
* `GreetedOnlyOnce`: `Spec => []GreetedOnce`, from `GreetingHeldOnce`: the mark is held by
  one delivery at a time, which sends the greeting, gives the mark back or loses it to
  a fault.
* `ClaimsHeldOnce`: `Spec => []ClaimsInv`, the two together.
* `NewcomersCanAnswer`: `Spec => []NewcomerCanAnswer`.

The last one needs three invariants. `PostsHaveOneOwner`: a message id that a row, a
post or a goroutine remembers is one member's, so nobody's sweep deletes another's
challenge. `StrangersAreIdle`: nothing is under way about somebody who never joined.
`NewcomersAreCovered`: a silenced newcomer has a challenge to answer, or has solved it
and its goroutine is about to say so, or one goroutine, and no other, is on its way to
post the challenge or store its details. A step
of a goroutine about one member leaves the others alone (`TouchesItsMember`), so the proof
goes through the steps of the one goroutine that is about a newcomer.

`WinnerDrawProofs`, for all chats, members, processes, days, points and failures:

* `TypeCorrect`: `Spec => []TypeOK`.
* `DrawsAnnouncedOnce`: `Spec => []DrawInv`, from `NewsIsTheRow`: whoever has written the
  row of a day and has not handed over its announcement announces that row, alone, and
  for the first time.
* `DrawsAreHeard`: `Spec => []RecordedDrawIsHeard`, from `NothingDropped` (without a failure
  a recorded draw is in hand or handed over) and `LastUnitIsPending` of the queue.
* `PointsOfADraw`: `Spec => []PointsCountOnce`, for finitely many members, no more than the
  standings have room for (`StatsTop`). The hypothesis is the code's own limit: a member
  below the last place of the standings is not in them, and loses the points to the reset
  uncounted. `Account` balances scored points against those held, counted and late.

`ChatMemoryProofs`, for any number of messages, all sizes and budgets:

* `HistoryStaysWhole`: `Spec => []HistoryInv`.
* `OutagesLoseNothing`: `Spec => []OutageLosesNothing`.
* `FoldsFollowFaults`: `Spec => []FoldedOncePerFault`.

The prune keeps what fits a running sum, so its facts are about sums over rows:
`SumGrows` and `SumMonotone` say that an older message has the larger sum, whence the
prune takes the oldest (`PruneTakesTheOldest`). The invariants are `TimesInOrder` (messages
are numbered in the order of their times), `ReadUpToMark` (up to `summarized_at` each
message is in a memory or was passed over, and no prune that keeps the unsummarized went
further) and `UnreadIsUnfolded`.

`TalkProofs`, for all people, texts, words, providers, settings and numbers of updates:

* `TypesHold`, `TypeCorrect`: the strengthened types `TypeInv` and `Spec => []TypeOK`.
* `NothingIsLost`: `Spec => []StopLosesNothing`, from `StopInv`: what is registered was
  ingested, what collectStats has behind it is in the tables unless a statement failed, and
  main leaves with no writes open but those that came too late, or after the timeout.
* `RepliesAreOneSentence`: `Spec => []ReplyIsOneSentence`.
* `WalksFollowSpeech`: `Spec => []WalkFollowsSpeech`. Both follow from `WalkInv`
  (`WalksAreSound`): every trigram of the tables was taught by a message (`PairsAreTaught`);
  neighbours in a walk were neighbours in a message, and no word of it but the last ends
  a sentence (`WalksAreTaught`). For these, `TrigramFacts` says what a text teaches.
* `ConversationsAlternate`: `Spec => []TalkInv`, for what is asked before the cut, and for
  what is sent where the cut takes no turn. `JoinedAlternates` is the step of the loop,
  `AlternateAlternates` the loop, `HistoryAlternates` all of buildNeuralHistory with the
  question appended; `CutKeepsRoles` says that a cut that leaves out no turn changes no role:
  all turns before the last are kept in their order (`NoneLeftOut`), or there is only one.
* `RequestsFit`: `Spec => []RequestFits`, of every conversation, size and chain. The size of
  two halves is the sum of theirs (`SizeOfBoth`); after n turns of the loop, what is kept
  comes from the newest n in their order, fits beside the ends, and whatever is missing
  would not have fit (`KeptOf`, `KeepFacts`). `BeginningIsCut` is the case of the question that
  has to be cut, `TrimCuts` all of trimMessages.
* `NothingSaidTwice`: `Spec => []SaidOnce`. Neither a step of `Alternate` nor the question
  appended adds a copy of a person's turn beyond its own (`CopiesInJoined`, `CopiesInAlternate`),
  and the turns told of the rows are mapped one to one into the rows that were there before
  (`CopiesAreRows`). For the question's own row to be left out it has to say what the question
  says: `SaidInv` (`RowsSaid`), every row of a message, stored or in a goroutine's hand, has
  the sender and the text of that message.

`AnnouncementProofs`, in two halves. About `DrawPrompt`, for all logs, names, labels,
languages and sizes that satisfy `PromptAssumption`:

* `PromptsAreSound`: `PromptSpec => []PromptIsSound`. The size is promised as long as the
  draw block keeps to its reserve.

Line breaks are counted as a cardinality: those of two texts one behind the other add
up (`BreaksOfBoth`), a text that went through `OneLine` has none (`NoBreaks`), so joined lines have
one less than there are lines (`JoinedLines`) whatever people wrote (`LogLines`, `DrawLines`).
`FitLogFits` is the size of what fitLog leaves, `MessageFacts` adds both up to the message.

About `Delivery`, for every repair, quote, answer, result block and limit:

* `CutsFit`: `DeliverySpec => []CutFits`, under `DeliveryTypes`.

`DeliveryTypes` asks of the repair and the quote only that they make texts of texts, and
of the repair that it makes nothing of nothing, without which even an empty cut might not
fit. `MCAnnouncement` evaluates that for `Markup`'s operators on short texts. How much a
repair lengthens a text, or whether it does at all, is left open. Both loops step down by
an amount that depends on what they just made: `Jump` is such a loop, `JumpsExist` says
that it has a result whenever each jump goes to a smaller number (`NextIsLess` for FitV2),
and `JumpsLand` that the result is what it made at a number where it stopped, or at zero.
So the result fits, and is the repair of a beginning of the raw text.

**Induction over numbers.** The library's induction theorems take an operator, which no
prover here instantiates. Two of the modules induct without them: `LeastNumber` is the
least element of a nonempty set of numbers, `CountUp` says that a set that has 0 and with
n has n + 1 has every number up to a bound, and `Steps` that a function defined by its
value at 0 and its step exists. A fact about a loop is then a set of positions that
contains the bound.

**What the proofs corrected.** The old type invariant of `Talk` was false with an empty
reply chain: the index of a provider is one of the chain's only while it is asked
(`Fits`). And some assumptions on constants were needed and unsaid: `Null` and `AnyWord`
are not words, `Null` ends no sentence, `NoUpdate` is no update, the byte budget is a
number, the system prompt is a sequence, a model's answer and the messages already stored
are of words, and an utterance is more than white space (Telegram sends no empty text).
The prompt needs that what a locale calls somebody without a name is one
line: scorerName puts it into the draw block without oneLine. And that no draw expires
unheard turned out to depend on the number of chats, which `RoomForAll` says.

## 7. What is only model-checked, and what is not modelled

Only checked:

* liveness, `QueueDrains` and `NewcomerNotStuck`: fairness is beyond the prover;
* `ResultInv`, `RepairIsFaithful` and `SentAsPutTogether` of `Announcement`: they are about what
  the parser makes of a text, and `Markup` is written with RECURSIVE operators, as the parser
  descends into quotes and marks. It is out of the prover's reach, and so is that
  `Announcement`'s steps are steps of `PromptSpec` and `DeliverySpec`, which needs the types of its
  result blocks (`TypeOK` there, checked) and can be read off their definitions otherwise.

Left out on purpose: the wording of messages and prompts, logging, the choice of decoy
emojis, how a mention, an anchor or the dice's words are matched in a text, webhook
registration, skew between the clocks of the process and the database, panics (a
middleware recovers them), and more than one process at work on the queue (the
deployment runs one; `WinnerDraw` has two because the draw is where an overlap at a
restart would show). Configuration, logging, migrations and the import script keep no
state that changes while the bot runs; the locale's loading happens once at the start.

## 8. Plan

Done: the queue and its contract, the draw, history and memory, joins, the ledger,
conversations and the stop, settings and rounds, prompts, markup and announcements; proofs
of every safety property of the runs but the three named in section 7, the refinement of
`QueueContract` among them. Open:

1. Proofs about `Markup`, its recursion written as functions on positions.
2. A second worker on the queue, for the overlap of two processes with two leases.
3. Pure operators still missing: the leading-command match, isMentioned, the dice's
   triggers.

## 9. Running it

```
tlc -config queue_crash.cfg MCSummaryQueue
tlapm SummaryQueueProofs.tla
tlapm NeuralLedgerProofs.tla
tlapm SettingsProofs.tla
tlapm ChatMemoryProofs.tla
tlapm WinnerDrawProofs.tla
tlapm MemberJoinProofs.tla
tlapm TalkProofs.tla
tlapm AnnouncementProofs.tla
```

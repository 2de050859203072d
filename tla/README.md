# Specifications of lark-personal-wiki

The server records the messages of an account's Feishu (Lark) chats, keeps a
searchable index of them, and answers in that account's name, or as a bot, with
what the index holds. Several things work on the same tables at the same time:
HTTP handlers and websocket events, a poller for private chats, an hourly
history sync, a token refresher, debounce timers and reply goroutines. None of
them share a lock but two mutexes; they meet in PostgreSQL rows and Redis keys.
That is what these modules are about: what the interleavings, failing calls,
ended contexts, redeliveries and restarts do to the messages and the replies.

## Inventory

| Component | Code | State | Operations |
|---|---|---|---|
| Private-chat debounce | `autoreply/service.go` | `p2pPending`, `p2pTimers` under `p2pMu` | `scheduleP2PReply`, `flushP2PReply`, timer expiry |
| Auto-reply pipeline | `autoreply/service.go` | goroutines; rows of `reply_logs` | `HandleMessage`, `HandlePolledUserP2PMessage`, `replyWithQuestion` |
| Private-chat poller | `autoreply/poller.go` | none but its round | `poll`, `pollContact`, `resolveP2PChatIDs` |
| Event ingest | `feishu/event.go`, `feishu/websocket.go` | Redis `feishu:event:<id>` (24h); `feishu_events`, `messages` | `Handle`, `ProcessEnvelope`, `markEventSeen` |
| History sync | `syncer/history.go` | `sync_jobs`, `messages`, contacts' chat ids | `SyncSelectedHistory`, `syncChat`, `createJob`, `finishJob` |
| Hourly scheduler | `scheduler/hourly_sync.go` | `isRunning` under `mu` | `Start`, `run`, `notify` |
| Chat knowledge index | `knowledge/service.go` | `knowledge_units`, `knowledge_unit_messages`, `knowledge_chunks` | `BuildIndex` and the writes it makes, `splitContent` |
| Document index and sync | `knowledge/service.go`, `httpapi/router.go` | the same tables; `cloud_documents` | `IndexDocument`, `POST /sync/documents`, `SaveDocumentSyncResult` |
| Source selection | `source/repository.go`, `chat/repository.go` | `chats`, `contacts`, `cloud_documents` | `SaveSelected*`, `Cache*`, `SaveContactChatID` |
| Authorization | `auth/*`, `httpapi/router.go` | `feishu_auth_sessions`; Redis `oauth:state:*` | `SaveOAuthSession`, `UpdateSessionTokens`, `refreshIfNeeded`, OAuth callback |
| Feishu client | `feishu/client.go` | Redis tenant and app tokens | token caches, paging, sends |
| Retrieval and answers | `knowledge/service.go` | `qa_logs` | `Ask`, `Retrieve`, merging of results and keywords |
| Media enrichment | `media/enricher.go`, `message/media.go` | none | `EnrichMessage` |
| OpenAI client | `ai/openai/client.go` | none | keywords, vectors, answers, descriptions |
| Admin page | script in `httpapi/router.go` | `state.<type>.items`, `.joined`, `.selected` | load, save, resolve, sync |
| Migrations | `infra/postgres/db.go` | `schema_migrations` | `RunMigrations` |
| Decryption, configuration, wiring | `feishu/crypto.go`, `config`, `infra/redis`, `app` | none | calls of one request |

How they interact: an event handler saves a message and calls `HandleMessage`,
which starts a goroutine per answer. The poller saves messages with
`SaveMessageIfNew` and gives those that were new to the debounce, which later
starts a goroutine of the same kind. The history sync upserts the same rows and
answers nothing. What a reply goroutine sends becomes a message that poller,
events and history sync see like any other. The scheduler, and the admin page
through HTTP, run the history sync and the index build; both read the source
selection and the session that the admin page writes.

What is hard, and what would make each component correct:

- *Debounce.* A timer expires before its goroutine has the lock, so `Reset` may
  meet a timer that is already firing, and the flush deletes by key whatever it
  finds. A waiting message must never be stranded or handed over twice.
- *Event ingest.* Deliveries are repeated, run side by side and fail between
  calls. A message must be handled once per life of its key, a "processed" must
  be durable, and only a fault may lose a message.
- *Auto-reply.* Three writers race for a row, and the winner decides who
  answers. The assistant must never answer itself, and silence must have a reason.
- *History sync and scheduler.* Contexts end in the middle, runs overlap. A
  report must be backed by the tables, each source reported once, no path may
  leave a job unsettled, and the lock must be given back.
- *Index.* Builds overlap and break off. Chats and days must not mix, chunks
  must be traceable, and a build that succeeds must cover what it read.
- *Conversation.* The debounce answers one message for several and finds the
  others by a query, over rows that other writers save in any order and with
  texts of their own. The question must say what each message said, and a
  picture's description must not be lost to a writer that did not fail on it.
- *Selection and admin page.* A selection is cleared and rewritten item by item,
  listings and background rounds write to the same rows, and pages post rows they
  read long ago. A save must be exact, nothing may be selected that nobody chose,
  a known chat id must stay, and a contact must not be greeted again and again.
- *Documents.* Each document's text is fetched, indexed and recorded in separate
  calls. A row that says "synced" must have one whole text in the index.
- *Authorization.* A refresh token is spent before its successor is saved, people
  log in meanwhile, callbacks are repeated. A state must open one session, tokens
  must stay with their account, and the latest session must stay usable.
- *Retrieval.* Keywords and results of several origins share limits. What has the
  question's own words must be found, and an answer must have the sources it names.

`PROJECT.json` lists every component with what is left out, and every hazard at
its line.

## Modules

| Module | Models | Properties |
|---|---|---|
| `Coalescer` | what the debounce promises: one slot per conversation, the newest message wins, a filled slot is handed over | (abstract) |
| `P2PDebounce` | the debounce, with timers as actors | `PendingHasTimer`, `WaitingNotHanded`, `CoalescerSpec` (refinement) |
| `EventIngest` | `ProcessEnvelope` and the redelivering platform | `HandledOncePerKey`, `ProcessedIsDurable`, `RowsBeforeReply`, `LossNeedsFault` |
| `AutoReply` | event path, poller, reply goroutines, history writes; composes `P2PDebounce` by INSTANCE | `NeverAnswersItself`, `FirstWriterAnswers`, `LogsTruthful`, `SilenceHasReason` |
| `HistorySync` | the hourly run and HTTP requests over the history sync | `RunningJobIsWorkedOn`, `ReportIsBacked`, `EverySourceReported`, `DoneNoticeIsIndexed`, `LockIsHeldByRun`, `HourlyEnds` |
| `KnowledgeIndex` | `BuildIndex`, write by write | `UnitsDoNotMix`, `ChunksTraceable`, `BuildCovers` |
| `SourceSelection` | the tables of sources, the handlers that write them, the rounds that look for chat ids | (used by the next two) |
| `AdminPage` | the page's script, a client of those handlers; extends `SourceSelection` | `SaveIsExact`, `OnlyChosen`, `GreetedOnce`, `ChatIDKept`, `TakenOutStaysOut` (violated) |
| `DocumentSync` | `POST /sync/documents` and `IndexDocument`; extends `AdminPage` | `SyncedRowIsTrue` |
| `TokenCache` | the tenant token in Redis | `CachedTokenIsLive` |
| `Authorization` | login, callback, sessions, refresher; extends `TokenCache` for its clock | `OneSessionPerState`, `TokensOfAccount`, `StaysAuthorized` |
| `Retrieval` | `Ask` over an index that is written meanwhile | `OwnKeywordFound`, `AnswerIsBacked` |
| `Conversation` | what messages say: parsing, descriptions, the writers of `messages`, the question of a private chat | `SaidIsAsked`, `DescriptionKept` |
| `*Proofs` | theorems about the modules they extend | |
| `MC*` | the small instances TLC checks | |

Conventions. An action is one critical section, one SQL statement or
transaction, one Redis command, or one call outside; between two of them any
other actor may step. A call that fails may have taken effect (a lost answer):
such an action chooses between both. `pc` fields name the call an actor is
*about* to make. `FooFails` is the error path of `Foo`. Operators whose comment
says "Mutant" are faulty variants of the operator that follows them; no
specification uses them, they show that a property can tell them apart.

### P2PDebounce and Coalescer

`pending` and `timers` are the two maps. Each critical section
(`ScheduleReset`, `ScheduleNew`, `Flush`) calls nothing that blocks, so it is
one step. A `time.Timer` is an actor: `Expire` disarms it and leaves a goroutine
in `flushers`, which takes the lock in `Flush`. `timerKey` is the key that the
timer's closure captured. Time is left out: an armed timer may expire at any
moment, which covers every duration. `scheduled`, `handed` and `lost` are
history variables. `Restart` is the end of the process; the maps are memory.

`CoalescerSpec` maps `pending` to the slots and `scheduled` to the submitted
messages. A flush that finds a message is `HandOver`, one that finds none
stutters, a restart is `Forget`.

### EventIngest

A handler is a goroutine that serves one delivery; `pc` runs through `mark`
(SETNX), `saveEvent`, `saveMessage`, `reply`. `Deliver` is the platform, which
sends an event until it has seen a 200, also while an earlier delivery is being
handled. `Expire` is the end of the key's 24 hours or a Redis that lost it.
`faulted` records the events that met a failing call or a crash, which
`LossNeedsFault` needs to say that nothing else loses a message.

### AutoReply

`firstBy` is the table `messages`, with the writer that inserted each row.
`job` has one entry per reply goroutine, by the path that started it. A reply
that was sent is itself a message, `<<m, identity>>`, which the event path, the
poller and the history sync see; its replies would be messages in turn, so
`NeverAnswersItself` is what keeps the model finite, as it does the system.
`Decision` is `shouldReply`. `Select` sets any selection at any time, which
covers the half-written ones of `SaveSelectedContacts`. Token and list are read
in one step in `PollStart`, because with one account the token does not change.
`replaced` is a history variable, the pairs `<<m, n>>` of which n was scheduled
while m waited in the debounce's slot: only that is what `SilenceHasReason`
accepts as giving way to another message, not an earlier one.

### HistorySync

`run[r]` holds the locals of the hourly run or of a request. `Expire(r)` ends
its context; from then on no call of `r` succeeds (`Succeeds`) and every call
can still fail, `finishJob` included. `BuildIndex` is one step here
(`IndexBuilt`, `IndexFails`), and the only build: the index holds what the last
one wrote. It reads the messages that have a text and are not older than `days`
when it starts (`Readable`); `Age` lets a message leave that window at any
moment. A notice carries what was indexed by then. What other builds make of
these units afterwards is in `KnowledgeIndex`. `selected` does not change within
a behaviour: the runs read it once each, and what a change in between does is in
`SourceSelection`.

### KnowledgeIndex

A message is its place in time order and counts as one rune, so a text is a set
of messages and `Rank` is a rune's index. `Piece(text, i)` and `IsLast` are the
closed form of the loop in `splitContent`: piece `i` starts at
`i * (MaxRunes - Overlap)`. `Load` takes the window of days as any suffix of the
messages, since where it begins depends on the request and the time of day. The
transaction of `replaceUnitMessages` is two steps, `DeleteLinks` and
`InsertLinks`: under READ COMMITTED the rows that another build commits in
between are not seen by the DELETE, which `fresh` records. The order of units
within a build is left open. `alone` is a history variable for `BuildCovers`.

### SourceSelection, AdminPage and DocumentSync

`chats`, `contacts` and `documents` are the three tables, by key. A contact's
key is its open id, which is empty for all that have none (`NoOpenID`), so these
share a row, as they do in the code. `req[a]` is a request or a round: `pc` the
statement it is about to make, `todo` the items it still has to write. `Begin`
starts every request. `SaveRequest` to `SaveFails` is `SaveSelected*`: `Clear`,
then `SaveOne` per item in any order. `Fetch` to `ListingFails` is a listing;
what Feishu returns is any part of what there is. `SearchCachedContacts` is the
fallback of the contacts' search, whose rows are written back as they were read.
`ResolveRequest` to `ResolveFails` is resolve-chats, `MatchRound` to `MatchEnds`
`resolveP2PChatIDs` of the poller and of the history sync, which share it.

`AdminPage` adds, per page, `items`, `joined` and `ticks` (the page's `selected`)
and one action per click and per answer, since clicks on check boxes may come
between a request and its answer. `DocumentSync` adds `remote`, the texts at
Feishu, `units` and `chunks` of documents, and `job[p]`, the locals of the
handler. `alone`, `excused`, `muddled`, `chosen` and `takenOut` are history
variables that the properties need. The tables share nothing, so a scenario
works on one of them.

### TokenCache and Authorization

Time is a number of ticks, since expiry is what these modules are about. The
clock stops (`TokenInTime`, `SessionsInTime`) for a round that is due and for
calls that have had their time, which the timeouts of the HTTP and Redis
clients and the 30 seconds of a round bound. `grants` is Feishu's side: whose
tokens, until when, and whether the refresh token was spent. An answer may leave
out how long the access token is good (`told`), how long the refresh token is
(`refreshTold`), the refresh token itself (`renewable`), each by itself; the
constant `Answers` says which do. `Exchange` may also come with nobody's name
(`fillUserInfo` fails).
`RoundSkips` to `UpdateFails` are one round of the refresher; `AnswerLost` spends
the refresh token and loses the new pair. `tickAt` is the ticker, which is
created after the first round. `Spare` is the number of rounds in a row that may
fail before a token ends, computed from the two intervals and the delays; with
the code's 30 minutes, 10 minutes and 30 seconds it is one.
`lost` and `missed` are history variables that say when `StaysAuthorized` may
fail: a pair was lost, or more than `Spare` rounds failed. `Renewable` leaves out
rows that the refresher cannot work with: no refresh token, no recorded end of
the access token, or an end of the refresh token that is recorded as the earlier
one. `UpdateSessionTokens` makes rows of the last kind: its COALESCE keeps the
end of the spent token if the answer does not say that of the new one, and after
it `shouldRefresh` refuses a token that is good.

### Retrieval

A word is a model value with its lower case, its length (short or not) and its
ASCII parts; a text is the set of the words in it. `Matching` is the WHERE of
the text search: the rows that ILIKE finds and any others, since the full-text
query takes keywords and texts apart in its own way. `Rankings` is any order and
cut of what it finds, `Nearest` the rows by distance. `found`, what the text
search had to choose from, is there for `OwnKeywordFound` only. `Write` is an
index build or a document sync. `steady` holds the chunks that nobody has
written since the question came. The loops that append what they have not seen
yet are said by positions: `Unseen` keeps a position if none before it has its
key, `Select` takes these in order.

### Conversation

A content is its parts (`tag`, `says`) and the names of its mentions; a text is
a sequence of tokens. `Parse`, `Describe`, `DescribeFails` are what every writer
does before it saves; the poller takes the oldest of `todo`, the messages of its
round; `SaveMessage` is the upsert, `PollSave` the insert of the poller.
`pending` is the debounce's slot with the messages that gave way to each other
(`group`, a history variable), `RecentMessages` the query with its window, order
and limit, `BuildQuestion` the question, as the set of the texts that it lists.
The timers and their races are in `P2PDebounce`, the decisions to reply in
`AutoReply`.

## Runs

| Run | Instance | What it shows |
|---|---|---|
| `p2p_debounce` | 3 messages of one conversation, one of another, one without key; 4 timers; 1 restart | The debounce and its refinement, with liveness. Three messages are what it takes for one to meet the timer that the second left behind; a fourth timer is one more than they need. |
| `event_ingest` | a message event, another event, a forged one; 2 handlers; 3 deliveries, 1 expiry, 1 crash | Two deliveries that overlap and a third that follows cover every pair of steps of two deliveries around a fault. |
| `event_stored` | the same events; 1 handler, no crash | *violated*: a SETNX that took effect and whose answer was lost turns the redelivery into a duplicate of nothing (finding). |
| `auto_reply` | 9 kinds of message in 8 scenarios; 2 timers; 1 restart | Two messages share no row, job or key unless they are of one conversation, so a scenario holds one kind, or the two of one conversation. |
| `history_sync` | a group of 2 messages, of which one may leave the window and the other has no text, a contact of 1; hourly run and one request, or the hourly run twice; 1 crash | Two runs over one source, one run over both sources, one run after another. Liveness under `FairSpec`. |
| `knowledge_index` | a day of 3 messages that splits into 2 overlapping pieces, a day of 1; 2 builders, 3 builds; late messages | A third build after two that overlapped or broke off is the least in which `BuildCovers` can meet what they left. |
| `day_unit_complete` | one builder, one build | *violated*: the window cuts the oldest day (finding). |
| `sources` | 2 groups; a person with an open id and one without; a document that can be parsed and one that cannot; 2 pages, a round; 8 scenarios of 2 or 3 requests, 1 click on boxes, 1 edit | Two requests are what it takes for one to step between the statements of the other; three, for the page to work with rows that are stale when a later request has read them. Each scenario names the kinds that may meet. |
| `taken_out_stays_out` | one page, 2 groups, 2 saves, 1 click | *violated*: a source that was taken out comes back with the next save (finding). |
| `authorization` | a tenant token's callers: 2, 3 tokens of lives 2, 4, 5 ticks with a margin of 2; or 2 people, 2 states, 2 callbacks at a time, 3 grants, for 4 ticks; or one login for 11 ticks, restarts at any time; lives of 7, answers with either life or the refresh token missing | A tick is about five minutes. Lives on both sides of the margin; two logins that overlap a refresh, or one state used twice; one login until after its tokens would have ended, and until a stale end of the refresh token has made the refresher refuse, with the one failed round that `Spare` allows here. |
| `retrieval` | 2 questions, 3 texts, 3 chunks, both modes, 4 answers of the model; limits 2, 2, 3 and 2; 1 write | What the full-text query finds besides is any set. Every limit is smaller than what can come to it, and one write can fall between any two of the searches. |
| `conversation` | three texts; a post with two pictures and a mention; a text, a sticker, a picture; limit 2, window 2 ticks; 2 rounds, 1 upsert | Three messages are more than the limit, and two rounds may find them out of order around an upsert. Scenarios differ in contents, all orders of sending, finding and saving are tried. |

Deadlock is not checked: every instance is bounded and stops when its
deliveries, messages, builds or starts are used up, which each `.cfg` says.
Bounds are constants (`Max...`, `Scenarios`, the `end` of a scenario's time) and
guards of the actions that use them up. Symmetry is used for handlers, timers,
builders, pages, groups, callers, people and states, only in runs without
liveness.

Fairness. `P2PDebounce!FairSpec`: an armed timer expires, and a goroutine
waiting for `p2pMu` gets it; Go's runtime and `sync.Mutex`, whose starvation
mode hands the lock to the longest waiter, give both. Messages and restarts are
not forced. `HistorySync!FairSpec`: the hourly run's own steps go on, because
each of its calls takes a context with a deadline and so returns, with an error
at the latest. Requests, expiry and crashes are not forced.

## Findings

Each is quoted in `PROJECT.json` with the line it disagrees with. Three have a
run that TLC refutes: (1) an event is acknowledged as a duplicate and was never
stored: its key is set first and stays when the call that set it, or one behind
it, fails, so the redelivery that the 500 asks for finds it; (2) an index build
replaces the oldest day's unit by the part of the day inside its window; (3) the
admin page ticks a source again that was taken out, and the next save selects
it. The others were met while modelling, and where a property would fail because
of one, it names it as its exception: (4) a timer reset while its goroutine
waits for the lock leaves two armed timers for a conversation, where the
debounce's test counts one; what still holds, that nothing is stranded or sent
twice, is proved. (5) The outcome of a job that failed because its context ended
is written with that context, and lost. (6) `shouldReply` does not look at a
chat's `enabled`. (7) Of more than eight recent messages the newest, the one to
be answered, is cut off the question (`SaidIsAsked`). (8) A tenant token with
five minutes or less to live is cached for thirty (`CachedTokenIsLive`). (9)
With no keyword match the most recent chunks take all places before the vector
search's results. (10) Retrieval does not look at the chat a question comes
from.

## Proofs

The theorems hold for every value of the constants that the `ASSUME`s allow:
any number of messages, conversations, timers, handlers, deliveries, crashes,
builds, sources, pages, requests, accounts and grants, any split length and
overlap, any life, interval and delay.

Three proofs failed because the model was wrong, and changed it. `AutoReply`'s
`Decision` had CASE arms that overlapped; it now asks in the order of the code.
`SaveIsExact` was false of scenarios in which a page posts chats to a table of
contacts, which no page does; `ScenariosAssumption` now says which requests a
table has. `Spare` counted the delay of a first round once, though every restart
has one; TLC refutes the old number with `RefreshBefore = 10` and `Interval = 2`,
two failed rounds and a restart between them, and accepts the new one.

`P2PDebounceProofs`. The properties are not inductive alone: a `Reset` leaves
something that flushes only if the timer the map names belongs to that key, and
a flush may delete the entry of a key only because nothing is left pending with
it. `TimersWired` says that a timer the map names is live and serves that key,
and that only used timers are live; `SlotsWired` that a slot holds a scheduled
message of its own conversation. `DebounceRefines` maps every step to a step of
`Coalescer` or a stutter.

`EventIngestProofs`. `HandledOncePerKey` needs a count of those who may still
add to it. `Budget`: the calls made plus the handlers in flight, those past the
SETNX, are at most the expiries, plus one while the key exists. `Stages` says
what each `pc` implies about the rows, from which `ProcessedIsDurable` and
`RowsBeforeReply` follow; `KeyHasCause`, that a key means its event was handed
on, met a fault or is in flight, is what `LossNeedsFault` rests on.

`KnowledgeIndexProofs`. Three parts join the properties. `Snapshots`: a build's
texts are stored messages of their unit. `Stages`: what a build has written so
far by its `pc`, among it that all pieces before its index exist, which is what
`ChunksTraceable` needs of builds that overlap. `Progress`: of a build that
runs alone, what it promises holds for the units behind it, and of the unit it
writes the messages of rank below `(idx - 1) * (MaxRunes - Overlap) + MaxRunes`
are in its pieces. Two lemmas carry the arithmetic: `RankOnto`, that the ranks
of a text of n messages are all of 0..n-1 (by counting), so no piece is empty;
and `ReachedOrInPiece`, that consecutive pieces leave no gap because the overlap
is not negative.

`AuthorizationProofs`. For the app's token, `EntriesInTime`: an entry ends with
its token less the margin, or as much later as a SET may take, and a call that
holds a token has not had its time; `CachedTokenIsLive` follows by arithmetic.
For the login, `StatesMoveOn`: a state is at one place, not made, a key in
Redis, with one callback that got behind the check, or used, so the INSERT that
counts it finds it unused. For the refresher, `TokensOnTheWay`: whoever is about
to write tokens, a callback or a round, holds a grant of the account he writes
to; rows are only appended, so the row of a round stays the one it read, whoever
logs in meanwhile.

`StaysAuthorized` has an invariant of its own, `Timely`, on top of that one.
`InTime`: a call has not had its time, and the ticker fires an Interval after
the last round began, or after a first one ended. `EndsInTime`: a row says at
most `CallTime` too late when its access token ends, and a call that is about
to write a row has a grant younger than itself. `OnSchedule`: after m failed
rounds the next one begins at most `Late(m)` = Interval + m * (Interval +
CallTime) after the first moment that `shouldRefresh` calls due. A round that a
login overtakes is its exception: it began so early that the round after it is
still the first of the new session. `LateFacts` is the arithmetic: `Late(Spare)`
and a last round fit into `RefreshBefore` less the delay of the recorded end.
`SessionsAssumption` asks for what that takes: a round is shorter than
`RefreshBefore` (30 seconds of 30 minutes), and an access token lives for
`RefreshBefore` and a round at least, which is Feishu's to keep; a configuration
that sets `FEISHU_TOKEN_REFRESH_BEFORE` to more than an access token's life is
outside it. Nothing is assumed of a refresh token's life: `Renewable` asks for a
row whose recorded ends are in order.

`HistorySyncProofs`. `RunInv` says of each run what its properties need:
`OwnRow`, that `syncChat` works on a running row of its own, which
`RunningJobIsWorkedOn` rests on; `Items` and `Backed`, that what was saved and
counted is in the table, and that each source reported as synced has a finished
job of this run, from which `ReportIsBacked` follows; `OnePlace` and `NoneLost`,
that the sources a loop has behind it, works on and has before it are the
selected ones, each once, for `EverySourceReported`; `Indexed`, that before a
notice of completion is sent the index covers what it counts and the build could
read, which messages only ever leave. A step touches no row but the one the run
has in hand, so the others keep all of this (`OthersKept`), through errors,
ended contexts and restarts. `LockIsHeldByRun` ties the mutex to the run's `pc`.

`AutoReplyProofs`. The debounce's invariant is used again (`DP`, an instance of
`P2PDebounceProofs`), and `DebounceEmbedded` shows that the pipeline's steps are
steps of the debounce or leave it alone. Three parts are added. `Rows`: only
messages whose row the poller inserted are scheduled, and what the event path
goes on with is stored. `Polling`: the message in the poller's hands is stored
by the poller and not yet scheduled, and one that is no incoming message is the
owner's. `JobsOK`: what a reply's goroutine was started for, and what it has
done by its `pc`. That a message which is neither handed over nor lost was
replaced follows from the debounce's slots: it waits until another is put in its
place, and that step adds the pair to `replaced`. Assumed are
`MessagesAssumption` (a message has one conversation, kind and sender) and
`DebounceAssumption`.

`SourcesProofs`. `Shapes` is inductive alone: requests, pages and jobs are where
their kind can be, an unfinished save still holds what it was posted, a sync is
the request its page waits for, and only the behaviour's table has rows. Every
step is then shown to be of one of eight kinds (`Stepped`: a request goes on, one
begins, a page reads an answer, a box is clicked, a chat is posted without the
page, a sync is answered, its outcome is recorded, nothing changes), and four
invariants are proved kind by kind. `Exact`: a save that is
alone is the only one, and what is selected is what it has written so far.
`Choices`: whatever is selected in a table, an answer, a page's copy, a tick or
a posted row was chosen. `Greetings`: a resolve that runs greets nobody twice,
two of them excuse everybody, and who was greeted has his chat id or it is about
to be saved. `Synced`: of a document that is synced alone, the pieces written so
far are in the index, with nothing of another text behind the last one once the
outcome is written. `ChatIDKept` is an action property and follows from what each
kind of step does to the contacts. Assumed are `SourcesAssumption` (groups,
persons and documents are different things), `ScenariosAssumption`,
`PagesAssumption` and `DocumentsAssumption`.

`QuestionProofs`, about `Conversation`, has two invariants. `IInv` is about
texts. `WorkOK`: each picture of the message a writer is at is still to be
described, described in the text, or among those that failed, and its text says
all that the message says; `RowsOK`, that every row says what its message says.
So what an upsert takes out of a row is neither a word of the message nor a
picture its writer described, and `DescriptionKept` follows. `OrderInv` is about
the order in which the poller finds messages. `Open` are the messages that a
round may still find new, none of whose saves failed: not in the table, and not
too old or in the round's list. Every step but a `Send` can only take messages
out of it. `RoundOK`: a round works on the oldest of them, one after another;
`InOrder`: what is scheduled is older than all of them. So a message that takes
the place of others is younger than these, and the query back from it, if the
window and the limit allow, finds their rows (`IsRecent`), which say what they
said by `RowsOK`. The exception, a message one of whose own saves failed, is
that of `SaidIsAsked`: it can be scheduled after younger ones. Assumed are
`ConversationAssumption` (window, limit, debounce and lookback are positive) and
`ContentsAssumption`: a chat is a sequence, and so is the text that is extracted
of a content.

`QuestionProofs`, about `Retrieval`. `AskInv` says of the question that is being
answered what its steps have found. A search returns a list of rows, no chunk
twice and no longer than the limit (`ListOK`), of an index that has one row per
chunk however often it is written. `Covers`: a row with one of the question's
own keywords has one of those that are searched for, whatever the model added.
For that a keyword must keep its place: it stands at most at the `ModelLimit`
places of the model plus its own, so the first `MergeLimit - ModelLimit` are not
cut (`OwnCovered`; if the limits are the other way round there are none). From
this, `OwnKeywordFound` (`OwnFound` of the invariant): an own row is among those
that the text search may choose from, and a ranking that has fewer places than
`ResultLimit` has one for each of these. `MergeFacts` gives `AnswerIsBacked`.
Both rest on counting: `PlaceOnto`, that the n positions of a selection have the
places 1..n, each one. Assumed are `RetrievalAssumption` (limits are positive,
lower case is a function, there are finitely many chunks) and `WordsAssumption`
(the words found in a question, and those a model lists, are sequences of
words). The sequence parts of `ContentsAssumption` and `WordsAssumption` are
what `FlattenSeq` returns, which would need induction; TLC evaluates them for
the contents and questions of the runs.

Two modules say by positions or sets what the code does in loops, so that it can
be reasoned about without induction: the merges of `Retrieval` (`Unseen`,
`Select`), and the rows that `RecentMessages` keeps of `Conversation` (those with
fewer than `Limit` before them).

Only model-checked is liveness (`CoalescerSpec`'s fairness part, `HourlyEnds`),
which is beyond the proof system. Every safety property of a passing run has a
theorem.

## Not modelled

What a language model answers, what vectors mean, how PostgreSQL ranks rows, and
prompts: their meaning is outside this code, and where the code acts on them
they are choices. Decryption, the JSON of requests and answers, page tokens and
the wording of texts: pure functions of one input. Configuration, wiring and the
Redis connection: they start what the modules have as actors. Migrations: one
transaction each, once per start. Handlers and parts of the page that only show
what is there. A transaction that waits for a row lock is modelled by the orders
in which the two can commit. Times are left out, but for `TokenCache`,
`Authorization` and `Conversation`, which are about them: elsewhere a timer, a
key or a context may end at any moment, which includes every duration the code
configures.

## Plan

The model is complete up to what "Not modelled" leaves out, and all safety
properties that the passing runs check are proved. Liveness stays with TLC.

# A verification of the Conversa voice gateway

These modules model the FastAPI gateway in `src/app`: what its handlers do
between two awaits, what they leave in PostgreSQL, in the audio store and in
SQS, and what a client is told. TLC checks them on small instances and TLAPS
proves the most important properties for all values of the constants.

- [The system](#the-system) - components, state, interactions, what is hard
- [The modules](#the-modules) - which module models what, and how
- [The runs](#the-runs) - what each run checks, its bounds and its fairness
- [Where the code and its comments disagree](#where-the-code-and-its-comments-disagree)
- [The proofs](#the-proofs) - theorems, assumptions, invariants
- [What is not modelled](#what-is-not-modelled)
- [Plan](#plan)

## The system

One gateway process is one uvicorn event loop. `async def` handlers run on it;
their SQLAlchemy calls are synchronous, so **an async handler is atomic between
two awaits**, and other handlers of the same process come in only at an await.
Plain `def` handlers run in threads, where **every database call is a step of
its own**. Other processes, the voice worker and the network come in anywhere.

| Component | State it keeps | Operations | Interacts with |
|---|---|---|---|
| Database rate limiter (`services/rate_limiter.py`) | `rate_limits` rows: a count per user, endpoint and window | `check_rate_limit` | called first by tts and stt |
| In-memory rate limiter (same file) | a dictionary of counts, a lock | `check_rate_limit_in_memory`, pruning | called by chat, translation and the web sockets |
| Text-to-speech (`routers/tts.py`) | `text_to_speech` rows | `POST /text-to-speech`, queued or immediate | limiter, cache of completed rows, SQS, engine, audio store, counters |
| Speech-to-text (`routers/stt.py`) | `speech_to_text` rows | `POST /speech-to-text`, queued or immediate | limiter, audio store, SQS, engine, counters |
| Usage counters (`services/usage.py`) | `users.total_processing`, `users.total_failed` | two increments | committed with the job's row |
| SQS producer (`services/sqs_client.py`) | two queues | `send_job` | the voice worker consumes |
| Voice worker (another repository) | jobs in hand | take, complete, fail | writes rows and clips |
| Job polling (`routers/jobs.py`) | none | `GET /jobs/{job_id}` | reads both job tables |
| Live voice translation (`routers/chatbot.py`) | per session: a queue of 8 chunks, a language, a sequence number, three tasks | `/ws/voice-translate` | STT engine, translation web socket |
| Live text translation (same file) | two pumps per session | `/ws/translate` | translation web socket |
| Chat proxy (same file) | a buffer per stream | `POST /api/chat`, the save at the end | LLM service, conversations |
| Chat history (`routers/history.py`) | `conversations`, `chat_messages` | create, append, rename, delete | written by the chat proxy too |
| Accounts (`routers/auth.py`) | `users`, `otp_verifications` | signup, verify-otp, login | e-mail; rotates API keys |
| API-key caches (`core/dependencies.py`, `core/ttl_cache.py`) | key to user, with an expiry | cached lookup | in front of nearly every endpoint |
| Database sessions (`database.py`) | a pool of connections | `get_db` | every handler |
| Audio store (`storage/audio_store.py`) | a file or S3 object per key | save, sign a URL, serve | tts, stt, worker |

What makes each of them correct, and what is hard about it:

- **Limiters.** No caller gets more than its quota and nobody is refused early.
  Hard: check and write are separated by a round trip, other processes write
  absolute counts over each other's, midnight passes, the dictionary is pruned
  while it is counted in, the process restarts.
- **Job endpoints.** A row only moves forward, is completed only together with
  its result, is counted once, and is not abandoned. Hard: four or five awaits
  with the row committed in between, each of which may raise; a crash between
  any two; a second writer (the worker); the except branch can itself fail; a
  message may be accepted and its acknowledgement lost.
- **Cache.** A clip served from the cache is the clip asked for, while others
  write the rows it looks at.
- **Queue positions and polling.** A client sees its own job only, and only
  sees it improve; the outcome arrives. Hard: positions computed before the row
  exists, two queries per answer, two tables with one numbering, rows of several
  processes that show in another order than that of their ids.
- **Live translation.** Subtitles come in the order of speech, the freshest
  speech is kept when the engine falls behind, numbers match transcripts, and
  whatever breaks, the session ends and cleans up. Hard: three tasks share the
  language, the number and both connections across awaits.
- **Chat and history.** An exchange is saved whole or not at all, a message is
  in a conversation of its writer, a reader sees a conversation grow only at its
  end, and an answer tells what happened. Hard: the save of a stream, appends,
  renames and deletions of one conversation are transactions that overlap; a
  conversation disappears between look-up and insert; ids are given out in
  another order than transactions commit; the stream is cut or too long to keep.
- **Accounts.** A verification is never taken back, only the last code sent
  verifies, and a replaced key lapses. Hard: every database call of a signup, a
  verification or a login is a step between which others run; the account and its
  code are committed separately; a key is cached outside the lock, after the
  look-up, from a result that may be stale by then.
- **Connection pool.** Every request ends. Hard: a request can hold a connection
  while it waits for a thread or for the event loop, and handlers on the loop
  block it while they wait for a connection or for a row: each waits for what
  another one has.

`PROJECT.json` lists every hazard at its line, with the properties that cover
it or the reason why none does yet.

## The modules

| Module | Role | Models |
|---|---|---|
| `Windows` | shared | the clock, the minute and the day of a request, the limit of each |
| `FixedWindow` | abstract | a quota per caller, minute and day |
| `RateLimiter` | detailed | `check_rate_limit` in any number of processes |
| `MemoryLimiter` | detailed | `check_rate_limit_in_memory` |
| `JobLifecycle` | abstract | what a job table promises its readers |
| `TextToSpeech` | detailed | `POST /text-to-speech`, the worker, crashes |
| `SpeechToText` | detailed | `POST /speech-to-text`, the worker, crashes |
| `JobPolling` | composition | two `JobLifecycle` instances and their pollers |
| `Subtitles` | abstract | what live subtitles promise |
| `VoiceTranslate` | detailed | one `/ws/voice-translate` session |
| `ChatHistory` | detailed | the history endpoints, `POST /api/chat` and the save at its end |
| `Accounts` | detailed | signup, verify-otp and login, the key caches |
| `ConnectionPool` | detailed | a process's connections, threads and event loop, and what each endpoint asks of them |
| `RateLimiterProofs` (both limiters), `JobPollingProofs`, `TextToSpeechProofs`, `SpeechToTextProofs`, `VoiceTranslateProofs`, `ChatHistoryProofs`, `AccountsProofs`, `ConnectionPoolProofs` | proofs | |
| `MC...` | instances | model values for TLC |

### RateLimiter

`rows` is the table in primary-key order; a row's `window` is the minute, or
the day for the row whose `window_minute` is the literal `"day"`. `check[w]` is
what process `w` holds between its SELECT and its COMMIT: the minute it read
from the clock and the two records found, each an id and a count. `Select`
translates lines 91-113, `Commit` the increments and the commit, `Reject` both
429s, `Abort` a failed call. There is no unique constraint and no ORDER BY, so
`Find` may return any row of the window. The update writes *count read + 1*:
that is what two processes can lose. `admitted` is a history variable. It counts
whom the code let through, and the quota is stated about it, not about the table.

### MemoryLimiter

The function holds the lock and reads the clock once: one step, `Admit` or
`Refuse`, either of which prunes first. `Restart` empties the dictionary, and
with it the history: the promise (lines 24-27) is per run of the process.

### TextToSpeech and SpeechToText

`jobs` is the table by `request_id`, `audio` (or `store`) the audio store,
`usage` the counters, `queue` and `taken` the messages in SQS and in the
worker's hands. `calls[h]` says at which await handler `h` is. The request up to
its first await is one action: `Refuse`, `ServeFromCache`, `Enqueue` or
`StartSync` for tts; `StartUpload` or `StartSync` for stt. After that there is
one action per await that returns and one for those that raise. An await whose
effect and whose return differ is two steps: `SqsAccepts`, then `EnqueueReturns`.
The except branches (`Fail`) write the row and the counter in one commit, as the
code does, whatever the row has become meanwhile. The text, voice and format of a
request are one model value, a `Clip`: what the hash tells apart.

`Faults` names what may go wrong beyond an await that raises:

- `Crash`: the process dies at any await and is started again, with either
  setting of `use_async_queue`. The rows stay; nothing at startup looks at them.
- `DbLost`: the except branch cannot commit either (in stt, also the insert).
- `AckLost`: SQS takes the message and `send_message` raises all the same.

`lost` remembers the jobs a crash or a lost database cut off before their last
commit, so that a property can except exactly these.

The worker is modelled from how the gateway uses it: it takes each message once,
sets the row processing, and completes or fails it. It lives in another
repository; this is an assumption about it.

Both modules are about **one gateway process**: the flush of a row and its commit,
and the read and the write of a counter, are one step, because nothing is awaited in
between. What several processes do to the order in which rows show is in
`JobPolling`; what they may do to the counters is not modelled.

### JobLifecycle

The abstract job table: a row starts out queued or processing, moves forward only,
has its result when it is completed and stays settled. It promises nothing about the
order of ids: an id is given out at the flush (`tts.py:131`, `stt.py:82`) and the row
shows at the commit (`tts.py:133`, `stt.py:84`), so a lower id may show later, or never.

### JobPolling

Both tables move as `JobLifecycle` says, and TLC checks and TLAPS proves
that `TextToSpeech` and `SpeechToText` implement it, so polling is checked
against the promise and not against two large machines. That is shown where SQS
loses no acknowledgement, so polling is too: with `AckLost` a failed job may yet be
completed, and an outcome change.

Several processes write the tables. `Flush` gives process `p` the next id of a table
(`lastId`) and keeps the row in `flushed[p]`, one at a time because nothing is awaited
before the commit; `Commit` shows the row, `Abort` loses the id with the transaction.
So rows of different processes show in any order, and a position that was answered may
rise by the rows with lower ids that show afterwards: `AnswersNeverGoBack` bounds it by
the number of *other* processes, each of which has at most one such row in hand. With
one process a position never rises. Each of the endpoint's
queries is a step, since in READ COMMITTED each sees the table as of its own
start. `follows[u]` is the job a client polls for and whether with `?type`; a
client may follow a job that is not its own. `seen[u]` is its last answer.

### VoiceTranslate

One variable per piece of the session: `queue` is `audio_queue`, `worker` where
`_send_audio_chunk` is, `pump` whether the upstream pump runs, `lang` and `seq`
the two variables the tasks share. A frame written to a connection counts as
delivered, and a send raises once the gateway knows that the connection is gone,
which may be at any await. `Leave` is the `finally` block: cancelling both tasks
takes effect at their await, and `CancelledError` is not an `Exception`, so
neither task's handler catches it. `Put` sheds the oldest chunk of a full queue.
`ReceiveNonObject` is a text frame that is valid JSON but not an object:
`frame.get` raises outside the `try` and the session ends, although the comment
below it says that other text frames are ignored.

### ChatHistory

`conversations` and `messages` are the committed rows, `request[r]` is request
`r` with its transaction: `stage` says which statement comes next, `todo` the
messages it has to insert, `rows` those it has inserted (for a deletion: those
`db.delete` has loaded), `new` whether it makes its conversation itself.
`stream[r]` is what a chat has passed to its client and what it has kept.

The statements are PostgreSQL's, in READ COMMITTED, which `config.py:212`
requires in production. `autoflush` is off, so a handler's changes reach the
database in its commit, parents first: `Touch` is the UPDATE of the
conversation (`updated_at`, or the title), `Insert` one message, `Commit` the
commit, `Refresh` the SELECT after it (of `db.refresh`, or for the log line of a
save). That one is a new transaction, on a connection checked out anew: it raises if
the row is gone, and it may raise, by a database error or the pool's timeout, while
the row is there. The caller then gets a 500 for what is stored, so `AnswersTellOutcome`
says of an error only that all of the request is there or nothing of it. `Open` is the INSERT of a new conversation. An UPDATE or a DELETE waits
while another transaction `Holds` the row, then looks again: an UPDATE that finds
nothing is a `StaleDataError` (`RollBack`), a DELETE that finds nothing only
warns. `CommitRemoval` takes the messages loaded and, by ON DELETE CASCADE, the
later ones. `Refuse` is any statement up to the commit, or the commit itself, that
raises; the look-up before them may raise as well (`UseConversation`,
`FindConversation`).

A chat is `StartChat`, `PassChunk` for each piece of the reply, then `EndStream`,
`CutStream` or `Discard`; a reply past `_MAX_SAVE_BUFFER` is passed on but not
kept. `FindConversation` and the transaction that follows are
`_save_chat_messages`, which swallows every error. Each request runs as if in a
process of its own: in one process the event loop would leave some of these
interleavings out and add none.

### Accounts

`accounts` and `otps` are the committed rows, `request[r]` is request `r` with
its transaction, one database call per action. A signup makes a password, a key
and a code; all three are called by the number of the request, so that `by` says
whose password and key the account has. A signup of an address that exists is
`SignUp` (the SELECT), `SelectCodes` and `Supersede` (the bulk UPDATE of the
unused codes: which rows it sees when it starts, and the wait for those that
another transaction has `Locked`), `Update` (the commit), `Issue` (the second
commit, of the new code) and `AnswerSignUp`; of a new address, `Insert` instead
of the three in the middle, which the unique column turns down if the address has
come to exist. `Update` writes the two columns the code assigns and no other: a
signup that looked the account up before its verification still replaces the
password and the key, and leaves `is_verified` as it finds it. `Verify`, `Match`
and `Accept` are verify-otp, `LogIn` and `RecordLogin` login and its background
task.

`cache[c][k]` is when the entry of key `k` expires. `UseKey` is `TTLCache.get`,
with the deletion of an expired entry, `LookUp` the query and `Store`
`TTLCache.set`: three steps, since the lock is held in the first and last only.
`Abort` is a database call that fails, or the process: what was committed stays.
`Tick` moves the clock, and lets no key wait longer than `MaxLookUp` between its
look-up and its entry.

### ConnectionPool

`call[r]` says what kind of request `r` is (which dependencies and endpoint it
has), in which section of its life it is, and what it does next; `held` are the
connections that are out, each of a request and of one of its two sessions:
`get_db`'s, and one the code opens itself. `threads` are the requests that run in
a thread of the limiter, `loop` is the one whose code blocks the event loop, and
`lock` the one that has written a row (one row, that all write: the worst case).

`Arrive` and `Start` begin a section. `CheckOut`, `Write`, `Commit`, `Finish` and
`Fail` are the database calls of a piece of code, `TimeOut` the pool's
`TimeoutError`. The session gives its connection back with `Commit`; code that
has only read `Finish`es and keeps it. `LeaveDependency`, `Continue`,
`LeaveEndpoint`, `LeaveReply`, `Close`, `Answer`, `Save` and `LeaveBackground`
are the event loop's: they need it free. `Close` is the exit of `get_db`, which
FastAPI runs in a thread that is not one of the limiter's.

The endpoints are those of every router that uses the database, by what they ask
of pool, threads and loop: which queries they make is left out, and each makes up
to `MaxTransactions` transactions, each of which may read only, write, fail or be
the last. A real endpoint is one of these, so what holds here holds of it.
FastAPI, Starlette and SQLAlchemy are modelled from how the code uses them, at the
versions it pins (FastAPI 0.115.6, SQLAlchemy 2.0.36): a limiter of 40 threads,
dependencies closed before the answer goes out, a pool that waits 30 seconds.

No pool size avoids the stall: requests that wait for a thread, after their
dependency has taken a connection, are not bounded by the number of threads, so
they can hold any number of connections while a handler that blocks the loop, or
the only threads, wait for one. `StallsOnlyWhenExhausted` says that this is the
only way to a stall, and `EveryRequestEnds` that the pool's timeout always ends it.

## The runs

On two cores `chat_history`, `job_polling` and `accounts` take about two minutes, and
every other run about one at most. `accounts`, `chat_history` and `connection_pool` check for deadlock: every
request ends, or TLC reports the state it is stuck in. The others state `CHECK_DEADLOCK FALSE` because each really can stop: the clock, the quota,
the table or the session comes to its end.

| Run | Instance | Shows |
|---|---|---|
| `rate_limit_one_process` | 2 callers, 1 process, limits 2 and 3, days of 2 minutes, 3 minutes | type, `WithinQuota`, `NeverRejectsEarly`, refinement of `FixedWindow` |
| `rate_limit_two_processes` | 1 caller, 2 processes | **violation** of `WithinQuota` |
| `memory_limiter` | 2 callers, pruning past 2 counters, 2 days | type (`CountersOK`), `ServedWithinQuota`, `MemoryBounded` |
| `tts_jobs` | 2 users, 2 clips, 2 handlers, 2 rows, both modes, crashes, lost database | type, `CompletedHasAudio`, `ServedAudioIsRequested`, `UsageMatchesRows`, `OneWriter`, refinement of `JobLifecycle`, `EveryJobSettles` |
| `tts_phantom_after_crash` | the same with crashes only | **violation** of `NoPhantomQueued` |
| `stt_jobs` | 2 users, 2 handlers, 2 rows, 3 upload keys, both modes, crashes, lost database | type, `RecordingsStored`, refinement of `JobLifecycle`, `EveryJobSettles` |
| `job_polling` | 2 users, 1 of whom polls, 2 processes, 3 tts ids, 1 stt id, with and without `?type` | type, `AnswersNeverGoBack`, `OutcomeArrives` |
| `job_polling_shared_ids` | polls without `?type` | **violation** of `PollAnswersForTheSubmission` |
| `voice_translate` | queue of 2, 4 chunks, 1 change of language, 1 translation in flight | type, `BacklogIsFreshest`, `LanguageNeverReverts`, refinement of `Subtitles`, `EveryChunkSettles`, `SessionEnds` |
| `chat_history` | 2 users, 3 requests at once, 1 conversation to start with, replies of up to twice the save buffer, new conversations without a message in the body | type, `OwnMessagesOnly`, `ExchangesStayTogether`, `AnswersTellOutcome`, `HistoryGrowsAtItsEnd` |
| `accounts` | 1 address, 1 cache, 4 requests, 3 at once, 1 failure, clock to 3, lifetimes and look-up of 1 | type, `OnlyTheLastCode`, `StaleKeysLapse`, `VerificationIsPermanent` |
| `connection_pool` | 2 connections, 1 thread, 3 requests, 2 transactions each | type, `NobodyHoldsAndWaits`, `StallsOnlyWhenExhausted`, `EveryRequestEnds` |

What the properties mean is said above each definition. Each comes with a
mutant, listed in `PROJECT.json` and defined just above what it changes (a
dropped filter, an off-by-one, a swapped order, a missing reset), under which
TLC finds it violated.

**Why the bounds are enough to be interesting.** Two of everything that can get
in each other's way: two handlers at different awaits, two users with one
counter each, two clips so that a wrong cache hit shows, two rows so that a
position can be wrong. A minute limit of 2 below a day limit of 3 lets either
refuse first; three minutes with a day of two cross midnight. `MaxAdmitted` only
keeps the history finite and lies above both limits, so it hides no admission
that would break the quota. A chunk queue of 2 and four chunks shed while the
worker is idle, while it is busy, and twice in a row. Three requests are a save,
an append between its two messages and a deletion under both; they are numbered
in the order they arrive, since which is which does not matter. A conversation that is created with messages in the body
is left to the theorems (any `MaxSeeds`): a chat that opens its conversation takes the
same statements. Two processes and three
tts ids are a row that shows after one with a higher id, with room for a queue that
would rise by two. The fourth request
of `accounts` is the verification after two signups that overlap with another one;
one address is enough, since no statement looks at two. Two connections, one
thread and three requests are a stall: two that hold a connection and wait, and
one that waits in the pool. The speech-to-text run takes an engine that answers
under the key `text`, the one the handler reads (`Answers = {"text"}`).

**Fairness.** Safety runs use none. `FairSpec` assumes weak fairness of

- the steps of each handler: an await returns or times out
  (`engine_timeout_seconds` for the engines, the client's own for S3 and SQS),
- the worker: it keeps consuming (another service, an assumption),
- a polling client: it polls in a loop and each request is answered,
- a session's tasks: connecting, posting and closing have timeouts (10 s, 30 s,
  10 s), and a peer that stalls a send is dropped by the keepalive pings,
- the steps of one process together (`ConnectionPool`): some request that can go
  on goes on, which includes the end of the pool's wait. No fairness towards any
  single request is needed.

Requests, crashes, config frames and dropped connections are never assumed to
happen.

## Where the code and its comments disagree

1. **The database limiter is not correct across processes**
   (`rate_limiter.py:18-19` says it is). Two processes read count *n* and both
   write *n* + 1. `NeverRejectsEarly` still holds, and is proved: the table only
   ever lags behind what was admitted, so the error is always in the caller's favour.
2. **A phantom queued row is possible** (`tts.py:152` and `stt.py:102`: "Never
   leave a phantom "queued" row"). The except branch covers a send that raises,
   not a process that dies between commit and send.
3. **Polling as the submission says can answer about another job**
   (`stt.py:117`: "Poll GET /jobs/{job_id} for status."). Ids are per table, and
   without `?type` the tts table is asked first.

With `AckLost` among the faults, `OneWriter` and the refinement of
`JobLifecycle` fail as well: the gateway fails a row that the worker then
completes. The theorems about them name that assumption.

Two smaller ones. A completed speech-to-text row may have a NULL transcript
(`stt.py:164` says it never has) if the engine answers under another key than
`text`; the README of the gateway lists others. And "a just-revoked key stays
usable for up to TTL seconds" (`dependencies.py:55`) leaves out the time between a
look-up and the entry it makes: `StaleKeysLapse` adds that time, `MaxLookUp`.

## The proofs

`RateLimiterProofs` (all of it for any set of callers and any limits):

- `TypeCorrect`: `[]TypeOK`.
- `RefusalsDeserved`: `NeverRejectsEarly`, for *any number of processes*. The
  invariant is `AtMostAdmitted`: no row, and no count a process has read, is
  above what was admitted in its window. It is inductive because a commit writes
  one more than a count that was at most the history and adds one to the history.
- `OneProcessKeepsQuota` and `OneProcessImplementsFixedWindow` assume
  `OneProcess` and limits above 0: the first request of a window inserts its row
  without a comparison, so the code does not enforce a limit of 0. The invariant `Exact` adds the other direction: one row per
  window, holding exactly what was admitted, and a selected check still agrees
  with the table. A second process breaks just that last part.

- `FixedWindowKeepsQuota`: what the abstract quota promises by itself. A minute or a
  day is charged only while there is room in it, so nobody uses more than its limit;
  whatever implements `FixedWindow` inherits that.

The same module proves the in-memory limiter, for any callers and any threshold:
`MemoryTypeCorrect`, `QuotaHolds`, `PruningIsSafe` and `MemoryStaysBounded`.
`ServedWithinQuota` is not inductive alone: it needs `CurrentCountsExact`, which
needs `NothingAhead` (no counter and no history of a window that has not begun) for
the tick of the clock. The bound needs finitely many callers, its only assumption.
`MemoryServesFixedWindow` says that, whatever is pruned, the dictionary serves
exactly what `FixedWindow` admits: every step is one of its steps, except the
restart of the process, which gives every quota anew.

`JobPollingProofs`, for any users, pollers, processes and numbers of rows:
`TypeCorrect`, `AnswersMoveForward` (`AnswersNeverGoBack`), `AnswersAreOfOwnRows` and
`PollsWithTypeAreRight`, from one invariant, `PollingInv`. It uses of the tables what
`JobLifecycle` promises and no more, with the ids given out in them (`IdsInv`): a row
that is there has an id given out before, so a later flush is behind it, and the
process that committed it is not behind it with another row (`Behind`). `Ahead` are
the rows queued up to a job and those that may still come before it (`Unseen`); it only
ever loses rows (`TableForward`), which is why a position may rise by what was unseen
and no more, and `UnseenAreFew` counts that: at most one row for each process but one.
A settled row stays (`RowForward`). An outcome ends the polls (`Asked`); a poll between
its two queries has found a row, of which nothing further on than "queued" can have
been answered before (`Counting`); and an answer lags behind its row, in status and in
the number of jobs ahead of it, and never runs ahead of it (`Told`). The theorems use
that "no user", the owner of a row that is not there, is no user, and that there are
finitely many processes. `PollsWithTypeAreRight` assumes `Types = {"given"}`, and is
what is left of the promise that `job_polling_shared_ids` shows broken without `?type`.

`TextToSpeechProofs`:

- `TypeCorrect`: `[]TypeOK`.
- `CompletedAlwaysHasAudio` and `AnswersCarryTheClip`, *with every fault
  allowed*. The invariant `AudioInv` says that a row's URL is NULL or its own key,
  that the store then holds its clip, and that a completed row has a URL
  (`RowAudio`); that a handler past the upload has its clip in the store
  (`SavedAudio`); and that an answer names the row whose clip it is
  (`RepliedAudio`). The store only ever gains the clip of the row whose key it is,
  so no later step can invalidate it.
- `OneWriterPerJob` and `TableImplementsJobLifecycle`, assuming no acknowledgement
  is lost. `WriterInv` adds to `OneWriter` at which status each stage of a handler
  finds its row.
- `UsageIsExact`: `UsageMatchesRows`, under the same assumption. Which of a user's
  rows still count as open is settled by who may move them: a row of the synchronous
  mode has no position and never leaves its handler, so the worker's events never
  count it (`Modes`), and a row that the gateway has failed stays failed. With that
  every step moves the counters by what it does to the rows (`UsageInv`).
- `JobsAreTended`, *with every fault allowed*: a job that is not settled is in the
  hands of a handler that will still write its row, in SQS, with the worker, or its
  handler was cut off. It is the part of `EveryJobSettles` that needs no fairness,
  and holds even with `AckLost`, when a job may be in two hands.
- `PhantomsNeedACrash`: `NoPhantomQueued`, which `tts_phantom_after_crash` shows
  violated, holds if nothing but acknowledgements is lost. The comment in the code is
  right up to a crash between commit and send and a database that is gone by the
  except branch.

`SpeechToTextProofs`:

- `TypeCorrect`: `[]TypeOK`.
- `RecordingsAreStored`: `RecordingsStored`, *with every fault allowed and whatever
  the engine answers*. `RecordingInv` adds what the property leaves out: a key that
  a handler holds between its upload and its row is held by no other handler and
  shown by no row (`HeldKeys`), a row's URL is a uuid key or its own key
  (`RowKeys`), and whoever may still complete a row has its recording in the store
  (`Uploads`). The two kinds of keys cannot meet, so the modes may alternate.
- `TableImplementsJobLifecycle`, assuming that no acknowledgement is lost and that
  the engine answers under `text`. Both are needed: with `AckLost` among the faults,
  or `another key` among the answers, TLC finds a table that is no job table.
- `OneWriterPerJob` and `UsageIsExact`, assuming that no acknowledgement is lost, and
  `JobsAreTended` and `PhantomsNeedACrash`, as for text-to-speech. No run checks
  these here; the module defines what they say.

`VoiceTranslateProofs`, for any size of the queue and any number of chunks,
languages and unread translations: `TypeCorrect`, `FreshestIsKept`
(`BacklogIsFreshest`), `LanguageOnlyMovesOn` (`LanguageNeverReverts`) and
`SessionImplementsSubtitles` (`ImplementsSubtitles`), all from `SessionInv`. The
refinement is what needs most of it: the worker runs just as long as the loop and
before that there is nothing (`Stages`); what is worked on is older than the backlog
and newer than what was shown (`InOrder`); as long as upstream is connected a
request is numbered by its place, and none is answered twice (`Numbered`); and the
requests are for the transcripts shown, one by one, of which only the last may still
be without (`Aligned`). `Languages` carries `LanguageNeverReverts`.

`ChatHistoryProofs`, for any number of requests and users, any buffer and any
length of a reply:

- `TypeCorrect`: `[]TypeOK`, with `Callers`: what is known of a request at each
  stage (a stage that writes has a user, one that updates has a conversation).
- `MessagesStayWithOwners` and `ReadersSeeHistoryGrow`: `OwnMessagesOnly` and
  `HistoryGrowsAtItsEnd`. Neither is inductive. `HistoryInv` adds that at most one
  transaction holds a conversation (`RowLocks`), that its inserts have ids above
  everything committed there (`RowsAtTheEnd`), and that a conversation not yet
  committed is nobody else's to write to (`NewIsHidden`). The lock is what makes
  `RowsAtTheEnd` survive another request's commit: that commit is to another
  conversation. A chat can name a conversation that is not committed yet, so
  `NewIsHidden` says how far such a chat can get: up to its look-up, which finds
  nothing.
- `ExchangesStayWhole` and `AnswersAreKept`: `ExchangesStayTogether` and
  `AnswersTellOutcome`. `ExchangeInv` keeps an account of each request: until it
  commits nothing of it is in the tables, afterwards all its rows or none (`Saved`), and
  so also when the read after the commit fails;
  a chat has inserted the question, or the question and then the answer (`Paired`),
  and what it keeps of a reply is all of it unless it will not be saved (`Whole`);
  nothing is committed between the two (`Unbroken`, from `RowsAtTheEnd`), and a
  conversation that is gone does not come back (`Outcome`, from `NewIsHidden`).

`AccountsProofs`, for any number of requests, addresses and caches, any lifetimes
and any bound of a look-up:

- `TypeCorrect`: `[]TypeOK`. `TypeInv` adds `Callers` (what is known of a request at
  each stage) and `Welcomed` (whoever is let in has a verified address), and gives
  `VerificationIsPermanent` as `VerificationStays`.
- `CachesForget`: `StaleKeysLapse`. `StaleInv` says of a result that has been looked
  up and not yet cached that it was true then, at most `MaxLookUp` ago (`LookedUp`),
  and of an entry that it expires at most a TTL and that time after the key was
  replaced (`CachedKnown`).
- `OldCodesFail`: `OnlyTheLastCode`. `CodeInv` says that whoever was answered has
  issued a code (`CodesIssued`), that the signups a request came in after have been
  answered (`EarlierAnswered`), and that a signup which came in after another was
  answered has the other's code in hand from its SELECT on, and has used it up by its
  own `Issue` (`Superseded`).

`ConnectionPoolProofs`, for any number of requests, threads and connections:
`TypeCorrect`, `NobodyWaitsForItself` (`NobodyHoldsAndWaits`) and
`StallsNeedThePool` (`StallsOnlyWhenExhausted`), all from one invariant, `PoolInv`:
by its stage alone one knows who may have a thread, the loop, the row or a
connection (`Placed`), and that a piece of code that has not ended has a
transaction left (`Sound`). The size of the pool is not used: a request that
waits for a connection waits because the pool is exhausted, and everything else
that is waited for has an owner who is not waiting. `RequestsComeToAnEnd` says that
every step, a failure, a timeout or a recovery included, takes one request nearer to
its end and leaves the others where they are: `Less` compares the sections still to
come, then whether the endpoint may still fail and recover, then the transactions
left, then the way to the end of the one under way. So there are finitely many steps;
with `StallsNeedThePool` that is `EveryRequestEnds` but for `ENABLED` and fairness.

**Only model-checked**: liveness (`EveryJobSettles`, `OutcomeArrives`,
`EveryChunkSettles`, `SessionEnds`, `EveryRequestEnds`), which is beyond the prover;
`JobsAreTended` and `RequestsComeToAnEnd` prove of two of them what needs no fairness.
Every other property of a passing run is stated by a theorem. `CurrentCountsExact`
of `MemoryLimiter` is the other way round: a step of the proof of its quota, and no
property of a run.

## What is not modelled

- The two pumps of `/ws/translate`: the first to end cancels the other. There is no
  state beyond the two connections; its look-up of the key and its wait for a
  connection are a `socket` of `ConnectionPool`.
- In `ChatHistory`: the clock of `updated_at` (PostgreSQL's `now()` is the start of
  the transaction, so a save that waited for the row sets it back), SQLite, which
  does not cascade, and the two reading endpoints.
- Two processes in `TextToSpeech` and `SpeechToText`: that they increment one user's
  usage counters at once (`usage.py` has the same read-then-write as the limiter) or
  count the queue for the position at submission before either row shows. The order in
  which their rows show is in `JobPolling`.
- An account left without a usable code (`auth.py:48`): `Accounts` has the failure
  between the two commits, and no property excludes its outcome, which is real.
- The loss of local audio files on redeployment: the store survives crashes here,
  as S3 does.
- Signing and expiry of audio URLs, voice routing, upload validation: computed
  within one request, no state.
- What the pass-through proxy routes, the profile and the error log read and write:
  stateless forwarding, one row each. As requests that want threads and
  connections they are in `ConnectionPool`.
- Delivery of the e-mail, the passwords and tokens themselves, clocks of several
  machines that differ.
- The demo routes, the Vercel front, settings, schema and migrations: I/O or set-up.
  `PROJECT.json` gives the reason for each.
- A commit that takes effect although it raises. To the caller that looks like a read
  after the commit that fails, which is modelled (`Refresh`).

## Plan

Done, in this order: the limiters, the two job endpoints with their worker,
polling, the live voice session, chat with its history, accounts with the key
caches, and the pool. What is left:

1. Proofs: that requests of `ChatHistory` and `Accounts` come to an end, as those of
   `ConnectionPool` do; that a live session does once it is left.
2. Extensions: a store that loses files, two processes on the usage counters, the
   clock of `updated_at`.
3. `/ws/translate`.

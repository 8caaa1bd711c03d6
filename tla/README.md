# TLA+ specifications of ENIL

ENIL is a LINE client: a portable C core (`source/shared/enil_*.c`), an
Objective-C engine per signed-in account (`source/shared/ENILAccount.m`), two
user interfaces (`source/macOS`, `source/iOS`) and a Cloudflare worker that
signs requests and runs LINE's WebAssembly (`source/cloudflare`). This
directory specifies the parts of it whose correctness depends on the order in
which threads, LINE, the disk and the end of the process act.

`PROJECT.json` lists the components, runs, source map, hazards, findings and
theorems; this file explains them.

## 1. The system

| Component | State it keeps | Operations | Talks to |
|---|---|---|---|
| Session store (`enil_session.c`) | `session.json`: tokens, `loginId`, commit mark `refreshJournalId`, OBS token, native revisions, partial-sync maps, `needsReauth`, `sseEnabled`; `session.json.refresh-pending` | load, three-way merge save, patch, compare-and-swap of the access token, activation of a login, journal retirement | every network thread |
| Token refresh (`enil_line.c`) | a snapshot, a refresh id and a reply while one thread holds the refresh mutex | recover the journal, ask LINE, journal, commit, unlink | session store, LINE, health gate |
| Engine lifecycle (`ENILAccount.m`) | `sseClient_`, `sseStopping_`, `sseStartPending_`, `syncRunning_`, `syncWaitingForSSE_`, retry flags, refresh timer, sync state | start/stop stream, start sync, retries, link toggle, completion handlers | spawns all threads; is told by posted selectors |
| Event stream (`enil_sse.c`, `enil_native_poll.c`) | `local_rev`, stop and reconnect flags | connect, deliver an event, save the cursor, reconnect, end | LINE, the event callback, database |
| Event callback (`enil_account.c`, `enil_sync.c`) | the database; partial-sync maps | apply an operation, record a partial request, handle `fullSync` and `talkException` | posts selectors to the main thread |
| Full sync (`enil_sync.c`) | captured revision and requests | capture, fetch in phases, commit the cursor, acknowledge | LINE, worker, database, session store |
| Health gate (`enil_health.c`) | one LINE flag per account, one worker flag per process | latch, clear, test | every network call |
| Sends (`enil_line.c`, `ENILAccount.m`) | request and E2EE sequence numbers, pending bubbles | send, confirm, fail, match LINE's echo | session store, stream |
| Chat page (`enil_html.c`, the account's JavaScript) | bubbles, Seen line, coalescing buffer | append, replace, fail, render | sends, stream |
| Login store, login window and QR login (`enil_login_store.c`, `enil_qrlogin.c`, `enil_native_login.c`, the login controllers, `AppDelegate.m`) | staged, durable and active account directories, retirement marks | prepare, select, scan, ask, stage, restart, activate, log out | session store, UI, LINE |
| Database (`enil_db.c`) | messages, boxes, reading times, names, unread counts, cursors | upserts and markers | stream, sync, sends, UI |
| Status queue (`ENILSyncStatusQueue.m`) | shown row, waiting rows, promotion timer, sync state | post, coalesce, promote, flush | health gate, sync, engine, view |
| Media (`enil_obs.c`, `enil_asset_cache.c`, the preparing and downloading phases of `enil_sync.c`) | pictures on disk and the rows that name them, packages of the shops | catalog, metadata, download, reconcile, move a sent photo | sync, stream, sends, LINE, CDN |
| Codecs, crypto, rendering, formatting, worker client, transports | none that outlives a call | pure functions and I/O | all of the above |
| Worker, macOS UI, iOS UI, keychain | views and platform state | user actions | engine |

What makes the system hard:

* **Order of durable writes.** LINE rotates the refresh token before the
  client has stored the new one; the cursor must follow the effects.
* **Snapshots used late.** A send or an OBS acquisition saves a snapshot taken
  before the network; a QR login may have replaced the file meanwhile.
* **Two writers of one cursor.** The stream and the sync both write
  `localRev`; only the main thread's start/stop protocol keeps them apart.
* **Requests that may vanish.** Stop, start and sync requests come from the
  user, timers, LINE and finished threads, and are merged in Boolean fields.
* **A sticky failure gate** that any thread may latch and few may clear.
* **At-least-once delivery into counters.** An event whose cursor was not saved
  comes again; unread counts, reactions and bubbles must not show it twice.
* **Guessed matches.** LINE's echo of a message names no temporary bubble.
* **Two stores of one picture.** A row names files and their sizes; a crash, a
  failed transfer or a copy may change one without the other.
* **Tokens issued once.** A login's tokens come in one reply, which must
  survive exits, failed writes and closed windows on its way to the account.

Correctness, per component: credentials stay with their login and are never
lost or rolled back (session store, refresh); effects in order, cursor never
ahead of them, acknowledgement after the data (stream, sync); at most one
writer and no lost request (lifecycle); one number per send and one bubble per
message (sends, page); a login is asked for once, a native one is not lost, and one
asked for its account never replaces a newer one (login store); an increment per message and the server's
state after a sync (database); the row the state calls for (status queue); rows
that name whole files, and a sync that says so when it leaves none missing (media).

## 2. Modules and plan

| Module | Component | Status |
|---|---|---|
| `TokenRefresh`, `TokenRefreshProofs` | session store, token refresh | checked, proved |
| `OrderedDelivery` | what event delivery promises | abstract specification |
| `AccountEngine`, `AccountEngineProofs` | lifecycle, stream, sync, health gate | checked, proved, refines `OrderedDelivery` |
| `MessageStore`, `MessageStoreProofs` | database, operation handlers, message phases of the sync | checked, proved |
| `OptimisticSend`, `OptimisticSendProofs`, `OptimisticPageProofs` | sends, chat page, echo matching | checked, proved |
| `LoginStore`, `LoginStoreProofs` | login store, both QR flows, login window, activation | checked, proved |
| `StatusQueue`, `StatusQueueProofs` | status queue and row, gates' posts | checked, proved |
| `MediaCache`, `MediaCacheProofs` | sticker and sticon catalog, downloads, asset cache, files of an image send | checked, proved |

`MC<Module>.tla` holds the constants of a module's runs. The modules meet at
narrow places: `AccountEngine` shows that stream and sync do not overlap, which
`MessageStore` relies on; `OptimisticSend` saves sequence numbers with the
merge that `TokenRefresh` models; `LoginStore` ends where `TokenRefresh`'s
`Activate` begins; the gates of `StatusQueue` are those of `AccountEngine`;
`MediaCache` is the inside of `AccountEngine`'s media step and relies on it for
one worker at a time.

Left of the plan: the worker's sandbox life cycle, the integer codec of
`enil_thrift.c` against a reference, and `set_reauth_needed` as a further saver of
`TokenRefresh`.

## 3. TokenRefresh

Models `session.json`, the refresh journal and the threads that change them.
A login is a number (its `loginId`); a token is the login it was issued to and
a serial. `server` is LINE: per login, the serials last issued.

* `Refresh*` and `Recover*` are `token_refresh_locked` and `recover_refresh`,
  one action per point where another thread or the end of the process can come
  between. Only one thread runs them at a time (process-wide mutex); `pc` is
  its place, `snap`, `rid`, `reply`, `fresh` its locals, `engine` the account
  engine whose health gate it consults (a thread of a torn-down engine may
  still run).
* `Merged`, `SaveAllowed` are `enil_session_save`: only fields changed since
  the snapshot are written, and nothing if the login differs.
* `CallReply`/`CallAccept` are a native request whose reply carries the next
  access token and the compare-and-swap that stores it.
* `SendLoad`, `ObsAcquire`, `ObsLoad`, `SaverSave` are operations that save one
  field of an old snapshot; `PollReply`, `PollPatch` the poller's revisions.
* `Activate` installs a new login; `Retry` is the user's retry, which clears
  the gate; `Crash` ends the process at any point.

File replacement is atomic (write, fsync, rename in `session_write_locked`); a
write that reports failure may or may not have replaced the file.
`Init` covers files of older builds: journals without ids, committed or not.

Two history variables serve the properties: `replaced`, the access tokens
given up, and `lost`, why the live refresh token may be gone through no fault
of the code (reply lost, or never on disk).

### Runs

| Run | Constants | Shows |
|---|---|---|
| `refresh_crash` | 2 logins, 3 access tokens, 2 refreshes, 1 fault, 1 exit; beside the refresher a native request, an OBS acquisition, or a send and the poller | `CredentialIsolation`, `Recoverable`, `NoRollback`, `NoSpentReuse` hold; no saver of an old snapshot undoes a rotation (5.7 million states) |
| `poll_inherits` | 2 logins | **violated**: see findings |
| `obs_inherits` | 2 logins | **violated**: see findings |

Two logins are the least with an old and a new one; two refreshes meet a
journal of an earlier one; three access tokens allow a rotation between a
commit and its replay; one fault and one exit suffice for each hazard in the
list. `Mixes` says which threads a behaviour has beside the refresher: savers do
not look at each other's snapshots, so one kind at a time suffices, and the
proofs have all of them at once. All are bounds of guards and appear as
constants; the theorems below do not depend on them.

### Proofs (`TokenRefreshProofs`)

For every value of the constants, from `MixesAssumption`,
`BoundsAssumption` and `NoneAssumption` only:

* `TypeCorrect`: `Spec => []TypeOK`.
* `CredentialsIsolated`: `Spec => []CredentialIsolation`. Inductive part
  `Ownership`: session, snapshot, reply, journal, the call's new token and the
  saver's value are each owned by the login they are tagged with. Without the
  journal's and the snapshot's share of it, a late commit could not be
  excluded.
* `TokenRecoverable`: `Spec => []Recoverable`. Inductive invariant `RInv` =
  `TypeOK`, `Ownership`, and
  * `Generations`: login numbers grow; a journal or snapshot of an older login
    is never taken for one of the current login;
  * `Serials`: a reply holds the successor of the token it was asked with, so
    it is live as long as nobody refreshed since;
  * `RefresherView`: what the holder of the mutex may rely on, e.g. there is no
    journal while a request is out, and at the commit the journal is its own
    entry;
  * `Ids`: refresh ids are fresh, so the commit mark identifies the reply.

  `Recoverable` alone is not inductive: it says nothing of a journal that is
  about to be retired, or of a snapshot about to be committed.

  Steps of the other threads are handled once (`UnseenStep`): they change none
  of the variables the argument looks at, except the access token.

* `NeverRolledBack`: `Spec => []NoRollback`. Inductive part `Rotation`, on top
  of `RInv`: every access token that is still on its way into session.json (of a
  call, of a refresh, of a journal that would be replayed) was issued, differs
  from every token the file has or had, and from that of the call. What keeps a
  committed reply out of this set is the commit mark: the save that installs
  its token makes its journal one that is not replayed.
* `SpentNeverResent`: `Spec => []NoSpentReuse`, from `RInv` and `GateHeld`: the
  gate that a failed journal write closed stays closed until the user retries.

Every invariant of the passing run is proved.

## 4. AccountEngine

Models the life of one account: the main thread's methods, the stream's
thread, the sync's thread, the joining and refreshing threads, and LINE.

* The lifecycle methods are functions of the record `m` of `ENILAccount`'s
  fields (`StopSSE`, `StartSSE`, `StartSync`, `SseDidStop`, `SyncDidFinish`,
  `HandleSSETalkException`, `TokenRefreshDidFinish`), because they call each
  other; `Become` turns the change of the fields into the threads they start
  and the stop flag they set. `MainStep` performs the oldest posted selector.
* `StreamConnect`, `StreamOp`, `SaveLocalRev`, ... are the stream's thread,
  with the callback's database commit and the cursor's save as separate steps.
  The SSE client and the native poller differ in framing and request, and in
  whether a `talkException` ends the loop; both outcomes are allowed. The native
  poller may also end by itself in silence, with nothing latched or posted:
  `StreamUnread` (no identity, no token) and `StreamIgnored` (a `fullSync` or a
  refusal whose handler failed) leave the thread in `quit`.
* `SyncBegin` ... `SyncAck` are the sync: capture, account data, messages, media,
  cursor, acknowledgement. A failed request ends the account and messages
  phases; the media step (read receipts, decryption, sticker catalogue,
  downloads) only ends the sync when the database fails. What a phase stores is
  at least as new as the captured revision. `sync_phase_messages` asks for the
  last 50 messages of a box (`MESSAGES_PER_CHAT`); older ones are outside
  `applied` and outside `NoGap`.
* `Crash` ends the process and launches it again.

Abstractions: the effect of an operation is one member of `applied`, whatever
its type; revisions are consecutive; the partial-sync maps have one category;
the account has an access token when the engine starts; saving the link toggle succeeds; the token
protocol itself is `TokenRefresh`. LINE re-sends a partial request on a
connection whose `lastPartialFullSyncs` is older, and `fullSync` when it no
longer holds the operation after `localRev`.

`OrderedDelivery` says what this amounts to: operations take effect as a
growing prefix of LINE's log and the cursor moves forward within it.
`ImplementsDelivery` is its specification under `log <- head`,
`done <- applied`, `cursor <- localRev`.

### Runs

| Run | Constants | Shows |
|---|---|---|
| `engine_safety` | 3 operations, 1 partial request, 1 fault, 1 user action, 1 credential save, 1 exit | `NoGap`, `AckAfterData`, `OneWriter`, `ImplementsDelivery` (1.1 million states) |
| `engine_live` | 2 operations, 1 partial request, 1 fault, 2 user actions or timer firings | `CaughtUp` and `LiveIsStreaming` under fairness (0.48 million states) |
| `gate_reopened` | 1 fault, 1 credential save | **violated**: see findings |

Three operations let one be applied, one saved and one arrive late; a second
slot for stream clients exists only so that an overlap would be seen. Deadlock
is not checked: with its bounds used up and nothing left to deliver, the engine
rests.

Fairness is weak and per thread: the run loop performs posted selectors, the
stream, sync, joining and refreshing threads keep running, and LINE delivers
what it holds. User actions, timers, faults, purges and exits are never fair,
and faults are bounded, i.e. the network is not down for ever. `Told` counts a
red health row and the states in which the bar says that the user must act.
Both liveness properties leave out a native poller that has quit in silence
(`Quit`), since the code then keeps neither promise: section 11.

### Proofs (`AccountEngineProofs`)

For every number of operations, requests, faults, user actions, saves and
exits: `TypeCorrect`, `SingleWriter` (`OneWriter`), `CursorOverEffects`
(`NoGap`), `AcknowledgedAfterData` (`AckAfterData`) and `EngineDelivers`
(`Spec => ImplementsDelivery`, the refinement of `OrderedDelivery`). The
inductive invariant has two parts:

* `Protocol` is about the main thread. A stop is a token: the slot being
  joined, or the one `sseDidStop` the joining thread has posted; `sseStopping_`
  is true exactly while it exists. A sync is one as well: its thread, or the
  selector that announces its end. `Consistent` says that a stream and a sync,
  or a stream and a stop, exclude each other. `OneWriter` follows, but is not
  inductive: nothing in it forbids a second `sseDidStop` in the queue, which
  would start a stream beside a running sync. Each lifecycle method is shown to
  move from consistent fields to consistent fields (`ClientMoves`,
  `StartSyncMoves`, ...), `Become` to turn such a move into threads that still
  fit the tokens, and every posted selector to end no stop or sync.
* `DInv` is about the data. `StreamView`: a live stream carries the saved
  cursor, and what it is about to save is applied and at most the next
  operation. `SyncView`: a sync's captured revision lies between the cursor and
  LINE's, its requests are among LINE's, and after a phase the database holds
  what the phase fetched. `Prefix`: the effects are an initial part of LINE's
  log that reaches the cursor.

Liveness (`CaughtUp`, `LiveIsStreaming`) is out of the prover's reach and stays
with TLC.

## 5. MessageStore

One chat in the database and everything that writes it. LINE is `msgs` (the
messages) and `ops` (the operation log); a fetch answers from them.

* `MessageUpsert`, `MessageBoxUpsert`, `LiveMessage`, `MarkSeen`,
  `SetPeerRead`, `SetGroupReader`, `ReactionsUpdate`, `MarkDeleted`, `SetText`
  are the SQL statements of `enil_db.c`, as functions of the table.
* `StreamInsert`, `StreamRollback`, `Backfill`, `StreamCheck`, `StreamDecrypt`,
  `StreamDone` are the handler of a message operation: savepoint, metadata
  fetch, decryption and cursor are steps of their own, since another thread's
  statement on the same sqlite connection may fall between. `StreamSeen`,
  `StreamRead`, `StreamReaction`, `StreamDestroy`, `StreamChatUpdate` are the
  other types. Each may lose its cursor and then runs again (`Saved`).
* `SyncBegin` ... `SyncFinish` are the phases of a sync; each reads LINE anew,
  so operations between two phases are seen by the later one only.
* `StoreSent` is the sending thread's row; `RemoveChat` and `ChatDelete` the
  removal of a chat, with its RPC and the local delete apart.

`enil_db_message_upsert` decides by `sqlite3_changes` whether its insert was
ignored, and the count belongs to the connection, which all threads share. Another
thread's write between the insert and a test makes it read non-zero, so which of
the two tests (`Tests`) read zero is chosen for every row of a fetch. `raced` is
a history variable: the rows whose stale reactions the last sync therefore left.

A message is its kind (clear, end-to-end encrypted, other) and whose it is;
text is present or not. Ids, revisions and times are positions, so later means
greater. The worker's decryption is a choice.

| Run | Setups | Shows |
|---|---|---|
| `store` | `Replay`: encrypted one-to-one chat, 3 messages, 4 operations, seen marks, unsends. `Converge`: group of two others, window of one message, reactions, receipts, renames. `Remove`: a chat that is removed. Each with one sync, one failure | `CountedOnce`, `StreamCounts`, `Converges`, `DeletedSticky`, `ReadNeverBack` (4.7 million states) |

A setup is chosen in `Init`, so one run covers the three. Three messages allow
one counted, one seen and one in flight; a window of one is the least that cuts
a message off. One failure gives one redelivery of any operation, one sync one
replay of all of them. Deadlock is not checked: LINE stops at its bounds.

### Proofs (`MessageStoreProofs`)

For any members, message kinds, operation types, fetch window and bounds, from
`StoreAssumption` (the setups fit their type, and a chat that is no group has
one other member): `TypeCorrect`, `NeverCountedTwice` (`CountedOnce`),
`StreamNeverLosesCount` (`StreamCounts`), `Converged` (`Converges`),
`UnsentStays` (`DeletedSticky`), `MarksForward` (`ReadNeverBack`). That is
every property of the run. Beyond the properties, the inductive invariant says:

* `LogInv`: LINE announces every message once and in order, before any
  operation about it; a seen mark is about the newest message.
* `Turns`: the stream and the sync exclude each other. Inside the savepoint of
  a message only rows of sends are added, so the undo is what the handler read
  before it, and a rollback takes back no more than the handler did.
* `Cached`: what LINE announced up to the cursor is stored, as far as the fetch
  window reaches; once a sync has fetched the messages, so is everything up to
  the revision it captured, to which the cursor will go.
* `NotTwice` bounds the unread count from above and `Streamed` from below, by
  which incoming messages are cached, unsent and after the seen mark. Both speak
  of the box and of its undo, since a rollback returns to the latter, and of the
  message whose savepoint is open, which is counted before it is stored.
* `Shown`: what a row shows of a reaction, and the chat's name, is what LINE had
  after some operation at or after the cursor. The replay of the rest of the
  log then ends with LINE's state. A sync reads LINE ahead of the cursor, so
  this is said of the captured revision too. It is not said of the reactions of
  rows in `raced`: nothing overwrites them before the next fetch.

`DeletedSticky` and `ReadNeverBack` are step properties. They follow from the
invariant and one lemma per SQL statement (`UpsertRows`, `DecryptRows`,
`FetchedRows`, `SetReadFacts`), which says what the statement leaves in a row.

## 6. OptimisticSend

The sends of one chat from the temporary bubble to the confirmed one, and the
page.

* `SendText`, `SendInlineSticons`, `SendSticker`, `SendImageAtPath` draw the
  bubble and queue its id; `DetermineFlow`, `LineSend*`, `Upload*`, `PostPlain`,
  `SendOneToOne`, `SendGroup`, `SendReply`, `FinishSend`, `ConfirmTempId`,
  `FailTempId` are the sending thread. A request may fail before LINE took the
  message or after.
* `MatchEvent`, `ProcessEvent`, `ConsumeEvent` are `sse_event_cb`: which bubble
  the message replaces is decided before it is stored and acted on after.
* `RunMain`, `FlushCoalesced`, `Reload` are the main thread: posted
  JavaScript, the coalescing timer and the rendering of the page from the
  database. `AppendMessage`, `UpdateMessage`, `FailMessage`, `SetSeenMarker`
  are the page's functions.

Temporary ids are send numbers, message ids positions in LINE's log. Ciphertext,
layout, reactions and receipts on the page are left out.

| Run | Cases | Shows |
|---|---|---|
| `sends` | `Calm`: two texts, one at a time, a peer's message, a retried event. `Mixed`: text and sticker. `Overlapping`: two texts at a time. `Lossy`: a group send whose reply or row is lost, a message of the telephone, a rendering. `Replayed`: events retried and redelivered, a rendering | `SwapsOwnBubble`, `PageConverges`, `NothingLost`, `FreshSequence`, `BubbleSettles` (0.39 million states) |

Two sends are the least that can be confused; the request number starts one
below its modulus, so both ends of its range occur. Fairness is weak: each
send's thread, the stream, the main queue and the flush timer keep running. The
user, faults and other senders are not fair. `Undisturbed` (no overlap, loss,
replay or second device) is the precondition of the properties about matching;
section 11 says what happens without it. `NothingLost` has no precondition.

### Proofs (`OptimisticSendProofs`, `OptimisticPageProofs`)

For any number of sends, cases, start and modulus of the request numbers, from
`BoundsAssumption`: `TypeCorrect` (`TypeOK`), `Delivered` (`NothingLost`),
`EchoesMatch` (`SwapsOwnBubble`), `NoNumberTwice` (`FreshSequence`),
`PageSettles` (`PageConverges`). The inductive invariant says:

* `LogInv`: a send knows the id of its message exactly when LINE took it, and
  the other way round; a confirmed id is the one LINE gave.
* `QueueInv`: sends start in order and the queue of temporary ids holds them in
  that order, which is why an id is in it once. `NumbersInv` bounds the E2EE
  number by the sends LINE answered.
* `StreamInv`: what the stream has passed is stored, and a peer's message it has
  passed is on the page, in the buffer or in the main queue (`OnItsWay`). The
  buffer is flushed by a fold; `Runs` says by which steps, so that a bubble once
  there stays (`WayKept`), and a rendering shows every row of the database.
* `Alone`: of sends that do not overlap only the last runs, their messages have
  the order of the sends, and a send whose echo was consumed has left the queue.
  `Waiting`: undisturbed, a send whose echo is still to come is in the queue. So
  the send an echo belongs to is the first one there (`Matched`).
* `NumberInv` (for `NoNumberTwice`): the running send loaded the numbers its
  predecessor saved, and those are above all that LINE has.

`NoNumberTwice` has the hypothesis `NoWrap`: the sequence neither reaches its
modulus nor starts from a clock of 0. Past the modulus a number does come back
after 2^31 sends, so there it is no theorem; the run starts one below the modulus
and shows the step over it. `BubbleSettles` is liveness and stays with TLC.

`PageSettles` adds an invariant about the page and the scripts that wait for it,
buffer and main queue taken as one sequence (`Pipeline`). One step of the main
thread or of the timer takes scripts out of it; `RunOne` says what running one
script, not always the first, does to everything below, and `FlushRuns` carries
that through the whole flush (`Carries`):

* `SettleInv`: a bubble that looks as if it were being sent is in the queue of
  temporary ids or a script that settles it waits. When all is quiet no script
  waits and, by `Alone`, the queue holds no confirmed send.
* `OnceInv`: no id and no temporary id is twice on the page or in the waiting
  scripts, an update finds its bubble, and every message before the next event is
  in one of the two.
* `SeenInv`: the last script that moves the Seen line agrees with the database,
  or its event is still to come, or LINE has not answered a confirmed send's
  mark. A buffered line finds its bubble (`Founded`); one posted by a confirmed
  send need not, which is why that send's answer has to move the line again.

`OnceInv` and `SeenInv` hold undisturbed and not rendered anew, `SettleInv`
always.

## 7. LoginStore

A QR login from the login window to the active account.

* Window and delegate: `OpenWindow`, `BeginLogin`, `Retry`, `StartNewQR`,
  `GoBack`, `CloseWindow`, `FinishFailed`, `HandoverRejected`, `Activate`,
  `RetireConsumed`, `LogOut`, `OpenAccount`.
* Native flow: `Select` picks a durable directory by `Matches`; `NativeLock`
  takes its lock, `ReadAttempt` reads the saved attempt under it and routes to the
  saved step; `Handshake`, `MarkStarted`,
  `SendRequest`, `TokenReply`, `SaveReply`, `SaveResult`, `Unwrap`,
  `RecoverKeys`, `Stage` follow, each one save. The lock is held from
  `NativeLock` to the exit on every path (`Leave`), also when the tokens were
  saved before.
* Chrome flow: `ChromeScan`, `ChromeIssue`, `ChromeProfile`, in staging only.
* `Crash` ends the process: threads, windows and locks go, files stay.

A session is the fields the login reads or writes; a token is the order in
which LINE issued it and the account that scanned. A window may be closed while
its thread is inside a request; the thread runs on beside the next window's.
macOS and iOS run the same actions, except that iOS adopts a wrong account
without asking.

| Run | Setups | Shows |
|---|---|---|
| `logins` | `Resumed`: one account, three native logins, an exit anywhere. `Unwritten`: two logins, an exit and a failed write. `Scanned`: an installed account, a second that may scan, both clients. `Chrome`: a failed write in a Chrome login | `AskedOnce`, `SavedReplyResumes`, `KeptForRecovery`, `LocksReleased`, `GenerationForward`, `RetiredSilent`, `LoggedOutStays` (2.8 million states) |
| `login_resurrect` | one account, two logins, one exit | **violated**: see findings |

Two windows and three durable directories let a late thread meet its successor;
three logins let an old attempt, an active login and a new one coexist. An
attempt that is put aside, overtaken and then taken up again, which the baseline
in `Matches` is there for, needs a fourth: that case rests on the proof. Windows
and directories are symmetric. `GenerationForward` is about logins that were
asked for their account, and Chrome's; `LoggedOutStays` leaves out behaviours
with an exit or a failed write, and tokens whose directory another thread had
locked when it was to be retired, and `KeptForRecovery` the Chrome flow: section
11. `handed` and `unretired` are history variables: the native tokens whose
activation reported a failure, and no success since; and the tokens whose
directory `RetireConsumed` could not retire because its lock was held.

`SelectFails` leaves out one thing a failed write may leave: a new durable
directory that staging does not name. It has no token and is not started, so no
login ever matches it.

### Proofs (`LoginStoreProofs`)

For any accounts, windows, durable directories and setups, from
`LoginConstants` (the setups fit the constants) and `AbsentIsNoSession` (the
mark of a missing file is no session). Every property of both runs is proved:

| Theorem | Property |
|---|---|
| `TypeCorrect`, `RequestedOnce`, `NoLockLeft`, `RetiredAsksNothing` | `TypeOK`, `AskedOnce`, `LocksReleased`, `RetiredSilent` |
| `ReplyFoundAgain`, `FailedActivationKept` | `SavedReplyResumes`, `KeptForRecovery` |
| `NewerLoginStays`, `LoggedOutNotBack` | `GenerationForward`, `LoggedOutStays` |

They rest on two inductive invariants. `IInv` (`Inductive`) is about one
directory at a time. It adds to the properties what a thread has behind it
(`ThreadSound`): from the scan to the last save it holds the lock of its
directory, which is not retired; before the request the directory is not marked
as started and nothing was asked for it; once it is marked, the mark is on
disk, so a thread that comes later takes another route. `Pages` ties the
windows to their staging directories and `Files` each file to the one it was
copied from. All steps under a lock go through one lemma (`LockedMove`), which
asks only what a step leaves in the thread and in the directory.

`JInv` (`LoginsInductive`) is about which login a file is, across directories,
windows and accounts; its steps use `IInv` before and after.

* `Lineage`: login ids grow, files with one id have one client, and a login has
  the client of the login it replaces. `Matches` compares clients, so without it
  a saved reply need not be found by the next login of its account.
* `OneAttempt` and `ActiveSound`: a login has one durable directory that is not
  retired, and an account's active login has that directory's token. `Unused`
  says that a staged native login before its copy (`Begun`) has no tokens
  anywhere, `Copied` that one to be activated is its directory's.
* `Ordered`: a login that replaces another was staged when the other had its
  tokens (`Follows`), so its own are later (`After`). Hence `GenerationForward`.
* `Distinct`: no token is in two directories, nor still in a thread's hands when
  it is on disk. `SpentRetired`: without exits and failed writes a directory
  whose token has been active is retired, or in `unretired`, or is about to be
  retired by the one open window (`OneWindow`). Hence `LoggedOutStays`.
* `ThreadBound` and `StagingSound`: what of this a thread's step and a window's
  page take for granted. A staged login is what its window shows. Nothing says
  that its directory's lock is free when the login is handed over: the thread of
  a closed window may have it, which is why `unretired` is needed.

Most steps change one of a durable directory, a staging file, a page or an
account, and each kind has its lemma (`ThreadMove`, `StagingMove`, `WindowStep`,
`AccountStep`). The steps that carry a login from one to the next are proved one
by one: `SelectJ`, `StageCopyJ`, `NewLoginJ`, `ActivateJ`.

## 8. StatusQueue

The status row of one window. `HandleStatusNote` is a post performed by the
main thread (`UpdateCurrent`, `UpdateWaiting`, `Enqueue`), `PromoteTimerFired`
and `Tick` are time, `SetFailure`, `ClearFailure`, `PostGate` the health gate
(flag first, post after), `StartSync` ... `SyncDidFinish` the sync's thread and
its end on the main thread, `EngineState` the other state changes. `painted` is
what the view last drew, `Snapshot` what it would draw now. A row is its key,
progress and error flag.

| Run | Constants | Shows |
|---|---|---|
| `status` | one thread, one activity or one state change (which may fall inside the sync), one sync of one phase, two failures, one clear | `PaintedCurrent`, `StaleRowsGone`, `DwellKept`, `RowsAdvance`, `WorkerFailureSeen` (0.89 million states) |

With one activity, a phase, the completion rows and an error, up to four rows
compete for the display, so each can wait behind and overtake each other. Two
failures let a gate be closed again while the post of its clear is due.
Fairness is weak: main run loop, promotion timer, clock, sync thread and posts
already due. User, faults and engine moves are not fair. `StaleRowsGone` is for
syncs without a state change inside, `RowsAdvance` for behaviours in which no
gate is cleared, `WorkerFailureSeen` for those in which no failure is latched
while a clear's row is still to be posted (`Overtaken`): section 11.

### Proofs (`StatusQueueProofs`)

For any posting threads, phases, rows and bounds, from `KeysAssumption` (a
sync's rows have keys of their own, and no row has the key of an empty screen)
and `BoundsAssumption`: `TypeCorrect`, `ShowsCurrent` (`PaintedCurrent`),
`NoRowLeftBehind` (`StaleRowsGone`), `MinimumTime` (`DwellKept`). What is
needed beyond the properties:

* `QInv`: no row waits behind an empty screen, and outside a sync nobody posts
  a sync's rows.
* `Drawn`: what is painted differs from what would be painted only while the
  screen is empty and a post is under way. Each method of the queue that
  changes what is shown draws it (`Redraws`).
* `SyncOrder`: the main queue is first in, first out, so every row of a sync is
  performed before its end; there is one end.
* `NoneStale`: while the engine has not left the sync early, the state is
  Syncing during a sync, and outside one no row of a sync is current or waits.

The run leaves `TypeOK` to the theorem. `RowsAdvance` and `WorkerFailureSeen` are
liveness and stay with TLC.

## 9. MediaCache

The pictures of an account. `file` is what is on disk under an asset's two
names, `row` its row in `messages_v2`, `stickers_v2` or `sticons_v2`: absent,
pending, or naming both files with their dimensions. What a file holds is
abstracted to missing, being copied, damaged, complete with other dimensions
than announced, or good.

* Full sync: `SyncBegin` (messages stored, packages to enrich noted, catalogs
  fetched), `PrepareSticker`, `PrepareSticon`, `Expand`, `PrepareRest`, `CatchUp`,
  `Enrich`, `PrepareDone` are `sync_phase_preparing`; `Reconcile` is
  `enil_asset_cache_reconcile`, where an attachments-only sync starts
  (`AttachBegin`).
* Photos: `MediaPick` ... `MediaStamp` are `download_media_entry`, one action per
  file operation, request or statement.
* Items: `ItemsBegin`, `ItemJob`, `ItemApply`, `ItemsEnd` are the four lists of
  `download_sticker_list`. The jobs of a list fit one batch here.
* Stream: `LivePhoto`, `LiveSticker`, `LiveSticon`, `LiveMeta`, `LiveResolve`, then
  the same actions for one picture.
* Image send: `SendPost`, `SendStore`, `SendRemove`, `SendCopy`, `SendCopied`,
  `SendStamp`, beside the worker.
* Any request may fail, any statement may fail, and `Crash` ends the process
  between any two steps.

A rename publishes a complete file, so a download is one step; a copy is two. The
temporary file an exit leaves behind is never looked at and is left out. So are
avatars (`download_if_missing` keeps whatever file there is), the removal of a
chat's rows, and texts with sticons of several packages.

`suspect` is a history variable: rows found wrong at the start and not looked at
since, and rows of a send whose unchecked copies or late exit left them wrong.

| Run | Setups | Shows |
|---|---|---|
| `media_cache` | a photo of earlier runs; a sent photo, sealed or not; a sticker, and a package of two sticons, owned or not, of earlier runs; an owned package of which nothing is stored; a photo beside a sticker | `NamedFilesWhole`, `CleanSyncComplete` (0.3 million states) |

Pictures do not share files, so one or two of each kind meet every case; two
sticons of one package make an expansion of one that is partly there. Files and
rows start in every condition an earlier run or build may have left.
`CleanSyncComplete` asks nothing of a photo whose send was under way during the
sync (`sure`), and nothing of a package whose catalog or metadata was not fetched
(`told`), because the code does not count those as unavailable. No fairness: both
are safety properties.

### Proofs (`MediaCacheProofs`)

Assumption: `AssetAssumption` (finitely many assets, photos apart from items,
every item in one package, every package of one shop). The theorems hold for any
photos, stickers, sticons and packages and for any set of setups: the bounds on
what a behaviour refers to are the run's only.

The inductive invariant `IInv` has two halves. `DiskSound` is what is on disk:
the types and `NamedFilesWhole`. It is inductive only with `WorkerSound`, since a
step of the worker relies on what an earlier step saw and on what the thread of a
send may have done since:

* `Shape`: which fields each place of the worker uses.
* `PhotoSound`: a photo is fetched and rendered only under a row that does not
  name it, unless the thread of a send has just published the row; a photo that
  is stamped is whole, or is still moved by a send, or is in `suspect`.
* `ItemSound`: an item in a list is pending until its job is applied, and what
  the job found is still what the files hold.
* `Ahead` is what the worker has not been through (its lists, the jobs not yet
  applied, the lists to come). `Counted`: there are at most as many errors as
  assets outside `Ahead`, which bounds the counter. `Clean`: without an error,
  each photo and item the sync answers for is ahead or complete.
* `Stock`: each owned package is stored with all its items or still to be, if
  catalog and metadata were all fetched.

At the end of a sync `Ahead` is empty, so `Clean` and `Stock` give
`CleanSyncComplete`.

* `Inductive`, `TypeCorrect`, `RowsNameWholeFiles`, `CleanSyncLeavesNothing`:
  `IInv`, `TypeOK`, `NamedFilesWhole` and `CleanSyncComplete` hold in every state.

Every property of the run is proved.

## 10. Findings

* `poll_inherits`: `enil_session_patch` stores the poller's revisions without
  comparing logins, so a login activated between the reply and the patch
  inherits the previous login's sync state.
* `obs_inherits`: `enil_line_acquire_obs_token` loads the snapshot after the
  request, so the login check of `enil_session_save` compares the new login
  with itself and the old login's OBS token is stored.
* `gate_reopened`: the stream ends when a gate is latched. Saving worker
  credentials clears the worker gate and shows "Reconnecting", but nothing
  starts the stream, and the state stays Live until a toggle, a retry or a
  restart.
* `login_resurrect`: an exit after the active session is written and before the
  durable directory is retired leaves the directory eligible. The account's own
  `loginId` and source prevent a replay only while its directory exists: after
  Log Out the next Add Account finds the consumed reply and activates it
  without a scan. `enil_login_store.c:310` says "The active loginId/source
  already prevent replay if retirement fails or the process stops here", and
  `tests/login_recovery.c:154` "A removed account must not be silently
  resurrected from consumed tokens."

## 11. What else the models show

No property denies the outcomes below, and the preconditions of some exclude
them. TLC reaches each one when the precondition named is dropped or, where none
is, when the opposite is stated as a property of the run; where larger bounds
are needed, they are given. They are consequences of the code as it is; whether
they matter is a question for its authors.

Event stream (`AccountEngine`; `Quit`):

* The native poller leaves its loop in silence when the identity or the token
  cannot be read (`enil_native_poll.c:51`, `57`), and after a refusal or a
  `fullSync` whose handler could not do its work, because the result of the
  dispatch is not looked at (`90`-`99`, `106`-`110`, `149`). No gate is closed and
  nothing is posted. The bar goes on reading Live, although `ENILAccount.h:53`
  promises otherwise of a stream that is down, until a token refresh, the link
  toggle, a wake, a sync or a restart joins the thread (`CaughtUp`,
  `LiveIsStreaming`).
* A failure to save `needsReauth` (`ENILAccount.m:420`) is not noticed: the state
  is ReauthNeeded until the program ends, and not after it (`MainStep`).

Database (`MessageStore`):

* A sync's overwrite of a row's reactions, by which the fetch is "the source of
  truth" (`enil_db.c:2045`), is skipped when another thread writes through the
  shared connection between the ignored insert and the test of
  `sqlite3_changes`. The row then keeps its stale reactions until the next fetch,
  since the cursor has passed their operations (`Converges` without `raced`). The
  fill of a missing text (`2061`) is skipped in the same way.
* A message that arrives between the box and the message phases of a sync is
  cached but not counted: its operation is replayed, but its row exists. The
  chat may then say 0 unread with its newest message unseen. `CountedOnce`
  bounds the count from above only; from below `StreamCounts` does, for a
  behaviour without a sync.
* A sync that fails after the boxes counts replayed messages again, until the
  next sync (`torn` in `CountedOnce`); so does the replay of a counted message
  outside the fetch window or unsent between boxes and messages.
* The text that a sending thread stored is overwritten by a failed decryption
  of the same message's echo that looked the row up earlier
  (`enil_sync.c:1177`, `1711`): no property covers it.
* A message that arrives between the removal's request and the local delete
  (`ENILAccount.m:1440`, `enil_db.c:3025`) is deleted with the chat; if its sending
  thread then stores it, it comes back without the reactions LINE has
  (`Converges` without `removals = 0`, with reactions in `Remove`).
* The removal of a group keeps its reading times (`enil_db.c:3020`, whose
  comment says "Delete every local trace"): `Converge` with one removal.

Sends and page (`OptimisticSend`; `Undisturbed`):

* Of two overlapping sends the faster echo replaces the bubble of the slower
  (`ENILAccount.m:1648` takes the first queued id), whose own bubble may then
  stay pending. A message sent from the telephone does the same.
* Two overlapping sends carry the same request number (`FreshSequence`), and
  with a third a slower send takes the saved number back (three sends).
* A reply lost after LINE took the message marks a delivered message failed.
* A page rendered while an append is buffered shows the message twice
  (`reloads` in `PageConverges`).
* A confirmation moves the Seen line to a row that is not on the page yet, and
  the line disappears until the next rendering.

Logins (`LoginStore`):

* A retry, once tokens are saved, still holds the directory's lock from
  `enil_native_login.c:344` to its end. If its window is closed meanwhile, the next
  window can find the tokens, activate them and fail to retire the directory
  (`enil_login_store.c:80`, `LOCK_NB`), which is only logged. After Log Out the
  next Add Account then brings the consumed tokens back, with no exit and no failed
  write (`LoggedOutStays` without `unretired`).
* A wrong-account scan that is adopted may replace a newer login of that
  account (`enil_login_store.c:167`; `GenerationForward`).
* So may an Add Account: its reply was saved and the program ended before it was
  decoded, so the directory has no mid and `enil_login_store.c:153` asks nothing
  of the account; a reauthentication follows; the next Add Account takes the old
  reply up, decodes it and activates it over the newer login. It takes four
  logins and an exit; `GenerationForward` says nothing of it.
* Tokens whose activation failed may be activated after all by a later login, and
  their directory is then retired: `KeptForRecovery` ends there.
* A wrong-account scan that is declined is a saved reply like any other: by
  `SavedReplyResumes` later reauthentications take it up again, without showing
  a code.
* A Chrome login whose activation fails is lost when the window closes, though
  the log line says "staging kept for recovery" (`AppDelegate.m:751`;
  `KeptForRecovery`).

Status row (`StatusQueue`):

* An error row superseded by a post of its own key gets no timer, because
  `ENILSyncStatusQueue.m:319` tests the flag that line 310 has overwritten; the
  rows waiting behind it are not shown (`RowsAdvance`).
* A state change during a sync flushes the queue early, and the sync's last
  rows stay (`StaleRowsGone`).
* A LINE failure is never red in the steady display: the main thread binds no
  account's gate. `WorkerFailureSeen` is about the worker's.
* A gate's flag and its post are two steps (`enil_health.c:61`-`73`): a failure
  and a clear that post in the opposite order leave a red row over an open gate.
  A clear that posts after a second failure has closed the gate again and posted
  its row turns that row into "Reconnecting", which `ENILSyncStatusQueue.m:319`
  neither promotes nor times: the gate stays closed without a red row, though
  `enil_health.h:36` posts it "so the failure is visible to the user"
  (`WorkerFailureSeen` without `Overtaken`).

Pictures (`MediaCache`; `suspect`):

* The thread of an image send checks neither its removals nor its copies and then
  names the files (`ENILAccount.m:1290`); a copy cut short, or an exit before the
  row is written, leaves a row that names damaged files until a sync looks at it.
* A download begun for the echo of a photo may end after the send has published
  it, and replace it by bytes that are not sealed and not checked first.
* A sticon of an animated package first seen live is stored with its still
  picture, though the comment at `enil_sync.c:1230` says that "Animation variants
  are left to full sync": its row is no longer pending, and full sync lists
  pending rows only.
* A package whose catalog entry gave no type is stored with type 0, which the
  back-fill never replaces (`sticonResourceType IS NULL`, `enil_db.c:460`).

## 12. Not modelled

* Worker client and Cloudflare worker. Thrift and the rest of the TalkService
  codecs. Planned where they keep state (section 2). Avatars.
* Cryptography, HTML and message formatting, JSON mapping, request
  construction, keychain, the remaining views: pure functions or I/O, without
  state that these properties depend on.
* The installation's device certificates; the preparation of a second client in
  one login window; reactions and receipts on the page; status posts of other
  accounts' threads; partial-sync maps with more than one category.
* Several accounts in one process are seen only through the shared worker gate
  (`OtherFails`, `SaveCredentials`).
* Liveness under fairness, and what a recursive definition computes for every
  input, are out of the prover's reach and stay with TLC.

## 13. Running

    tlc -workers 2 -config MCTokenRefresh_crash.cfg MCTokenRefresh
    tlc -workers 2 -config MCAccountEngine_safety.cfg MCAccountEngine
    tlc -workers 2 -config MCAccountEngine_live.cfg MCAccountEngine
    tlc -workers 2 -config MCMessageStore_store.cfg MCMessageStore
    tlc -workers 2 -config MCOptimisticSend_sends.cfg MCOptimisticSend
    tlc -workers 2 -config MCLoginStore_logins.cfg MCLoginStore
    tlc -workers 2 -config MCStatusQueue_rows.cfg MCStatusQueue
    tlc -workers 2 -config MCMediaCache_cache.cfg MCMediaCache
    tlapm TokenRefreshProofs.tla
    tlapm AccountEngineProofs.tla
    tlapm LoginStoreProofs.tla
    tlapm StatusQueueProofs.tla
    tlapm MessageStoreProofs.tla
    tlapm OptimisticSendProofs.tla
    tlapm OptimisticPageProofs.tla
    tlapm MediaCacheProofs.tla

The runs of the findings end with a counterexample: `MCTokenRefresh_poll.cfg`,
`MCTokenRefresh_obs.cfg`, `MCAccountEngine_gate.cfg`,
`MCLoginStore_resurrect.cfg`.

# Verification of codex-web

codex-web is a Go client for the Codex App Server, with an HTTP handler and a
browser front end. This directory models the parts of it whose failures are
hardest to test: processes that share a ledger of submissions, a connection that
many goroutines share, questions answered by several parties, files that move
from one format to another, a recorder that survives crashes, a utility call
that must not claim too much, and a page that must not fall behind.

## The system

| part | code | modules |
|---|---|---|
| submission ledger: send records, queue attempts, deletion intents | `codex/client.go`, `submission_database.go` | `SubmissionLedger` |
| message delivery: send, reconcile, prepare, discard, acknowledge, retire | `client.go`, `send_delivery.go` | `Delivery`, `SubmissionPermit` |
| native queue: add, delete, recover deletions | `client.go` | `QueueDelivery` |
| App Server (not in the repository) | as `client.go` uses it | `AppServer`, end of `QueueDelivery` |
| migration of the ledger from JSON files to SQLite | `submission_migration.go` | `Migration`, `ReceiptStore` |
| connection: Ensure, requests, reader, Close | `client.go` | `Connection`, `Link` |
| prompts: offers, claims, answers, snoozing, event streams | `client.go`, `prompt_response.go`, `conversation/handler.go` | `Prompts` |
| subscriptions of watched threads | `client.go` | `Watches` |
| activity recording | `activity_recording.go`, `activity_store.go`, `activity.go`, `activity_snapshot.go` | `Activity`, `ActivityRecord` |
| ephemeral (utility) turns | `ephemeral.go` | `EphemeralTurn`, `EphemeralSink` |
| browser synchronisation and the lane of questions | `conversation/assets/sync.js`, `conversation.js` | `PageSync`, `PageLanes` |

`PROJECT.json` lists every part with its sources, also those left out, the
source lines of every definition, and the hazards of the code.

### How the parts interact

A client has one connection, dialled and initialized by whoever needs it first.
A reader per connection hands replies to waiting calls and passes notifications
and questions on. A lost connection is replaced under a new generation number;
watched threads are then resumed, and questions of the old one are void.

A message operation holds the client's lock of the thread. It reads the ledger,
may resume the thread and ask for the active turn, reserves the identity
(`prepared`), and draws a claim under the writer lock (`submitting`) just before
the request is written. A reply or a message in history makes the record
`accepted`. Only an explicit refusal, or proof that nothing was handed to the
socket, takes it back to `prepared`. Other processes have their own locks and
share only the ledger, so they interleave between any two of these steps. The
server does not suppress duplicates, and its history lags behind what it
accepted.

The page learns of changes by hints on an event stream, and reads. Hints are
lost with the stream, and reads are cancelled, fail, and answer late.

## Modules

One action models what runs between two points where somebody else can act; its
comment names the function. Variables keep the names of the code.

- **SubmissionLedger**: `send`, `queued` and `deletions` are the three maps of
  one thread. Each operator is one transaction. `claims` numbers the random
  admission identities. `retired` is a history variable: the newest claim when
  the record of an identity was last removed. With the JSON backend the model
  keeps a record's claim as history only; no guard reads it.
- **AppServer**: requests on the wire, replies, accepted messages and the part
  of them history shows. Requests and replies are lost, delayed and reordered.
- **Delivery**: `pc[c]` is the point a client is at, `op[c]` its locals,
  `outcome[c]` its result. Every ledger write can fail before or after it takes
  effect. `Crash` drops a client's locals. **SubmissionPermit** is what it
  implements with the SQLite ledger: a protocol of permits with no client and no
  network. A claim is a numbered grant of an open permit, and the removal of a
  record a retirement that marks the identity, so neither can pass for a stutter.
- **QueueDelivery**: the queue operations beside all of Delivery. A reading of
  the native queue is one step; `ListQueue` asks for it in pages, which are one
  page for the few entries of the runs.
- **Migration**: JSON clients and SQLite clients on the same two paths, with
  locks, backups, import journal, fences and the ready mark; a client may stop
  between any two of them and the machine may restart and lose volatile files.
  **ReceiptStore** is what it implements: one set of receipts.
- **Connection**: callers inside `Ensure` and `requestOnAdmission`, the readers,
  the writer lock and `Close`. **Link** is what it implements, and all that
  Prompts and Watches know of it.
- **Prompts**: the entry of one request id, its claims and answers by browsers,
  applications and timers, notices, and the revision the event streams compare.
- **Watches**: watchers, one goroutine per restored connection, the goroutine
  that leaves a thread, and `RefreshThreadSubscription`, all under the watch lock.
- **ActivityRecord**: accrual of working and waiting time into the record of a
  turn. **Activity**: connections, messages, the observation, the writer and its
  files, loading, closing, reads that reconcile with history, crashes.
- **EphemeralSink**: the methods of `ephemeralSink`, as functions on sinks.
  **EphemeralTurn**: the call around it, from connecting to joining the reader.
- **PageSync**: the variables of `createConversationSync` as one record; its
  inner functions are operators on it, its handlers actions. **PageLanes**: the
  lane of pending questions that follows it.
- **...Proofs**: theorems. **MC...**: instances for TLC.

Definitions named `Fault...`, or introduced as a mutant or a fault, are faulty
variants of the definition that follows. No specification uses them; they show
that the properties notice the fault.

## Runs

| run | instance | states | shows |
|---|---|---|---|
| `delivery_sqlite` | 1 identity, 2 clients, 2 claims, resent | about 400,000 | at most once, deliveries remembered, receipts and not-sent true, what is given back unsent; implements `SubmissionPermit` |
| `delivery_json` | the same with JSON, 2 texts, not resent | 560,094 | at most once until a record is removed; a submitted record is removed only for a message the server has |
| `queue` | 2 identities, 2 clients, 2 claims | about 510,000 | one submission per record, one for all time if only queued, remembered, never reported unsent while queued; a completed deletion never starts; intents outlive crashes |
| `live` | 1 identity, 2 clients, lagging history | 39,343 | every message and queue operation returns |
| `migration` | 2 receipts, 2 JSON and 2 SQLite clients, 2 restarts | 177,069 | a database in use is fenced; implements `ReceiptStore` |
| `connection` | 2 callers, 3 requests, 2 connections | 66,566 | no call without an answer, the reader never blocks, Close is final, everybody gets through Ensure; implements `Link` |
| `session` | 2 offers, 2 watchers, 2 connections, 2 versions | 1,082,923 | questions answered once, claims held, snoozes kept, streams current; subscriptions as watched; the page keeps up |
| `ephemeral` | 2 turns, 3 notifications, 2 kept | 3,082,495 | answers, retries and interrupts only with proof; buffering cannot be observed; nothing waits past the deadline |
| `activity` | 2 turns, 2 connections, 1 read, 1 crash | 1,139,901 | no time counted twice or unobserved, what was shown survives, a flush that succeeds has saved |
| `queue_lag` | 1 entry, lagging history | | violated, see Findings |
| `connection_orphan` | as `connection` | | violated, see Findings |

`session` and `activity` do not check for deadlock: their bounded servers and
clocks stop, and nothing in the code has to go on then. Where a count is given
as about, it varies a little from run to run: the `VIEW` keeps one of several
states that differ only in what no step reads.

### Bounds

- Two clients let one claim-holder race one other process, and two claims let an
  old claim meet a new one. That this is enough for sends is not argued but
  proved: the theorems about `AtMostOnce`, `DeliveryRemembered`,
  `RestoredIsUnsent`, `NotSentIsUnsent`, `ReceiptIsDelivered`,
  `RemovedIsDelivered` and `FollowsPermits` are for any number of clients and
  claims. One identity is enough for sends: a transaction
  touches the records of its identity only, except the cleanup of a thread, which
  removes all alike. The queue is an order of entries, so its operations are
  checked with two.
- In `queue` and `live` a behaviour offers one of several sets of calls
  (`Offered`); what a call does once it began is never restricted. Behaviours
  that all clients act in use one identity; behaviours of queue calls alone also
  put both identities into the hands of one client (`used` and `using` in
  `MCQueueDelivery`). The proofs restrict neither.
- The `VIEW`s of the delivery and queue runs drop the results of operations,
  which no step reads; the properties see them in the step that returns them,
  and `ReceiptIsDelivered` also later. In `connection` a caller takes the first
  request id that nothing refers to, and the `VIEW` drops channels and
  generations that are replaced before they are read again.
- Two connections let anything of an old one meet the new one. The proofs cover
  any number.
- `session` takes one of its three components in every behaviour (`focus`). They
  share only the link, which none restricts, so a behaviour of all is a
  behaviour of each. Its `VIEW` drops what is never read again: revisions are
  only compared with the present one, and an offer that was answered or retired
  only counts if it is answered twice. A stream has one broadcast due at a time
  (`MaxHints`); the proof covers any number.
- `activity` has behaviours of six kinds (`focus` in `MCActivity`), each with
  the time, turns, crashes and messages its question needs. A second is two
  units of the clock, so that times within one second differ.
- The limits of the code (20 notices, 32 kept notifications, 8 pages, pending
  summaries) are constants that the instances reach.

### Fairness

- `QueueFairness`, in `live`: a client's own steps are weakly fair. A request
  waits for its reply as long as its caller's context lasts; `Client.Request` sets
  no deadline itself, the HTTP handler does (`conversation/handler.go` 294 and
  602-606). Ledger transactions have a ten-second timeout and the history lookup
  after a failure a two-second context, so for such callers a step that waits has
  an alternative that does not. A library caller without a deadline can wait for
  ever on a server that never answers. Nothing is assumed of the server, of
  history or of others.
- `Fairness` of Connection: goroutines that can run do; a waiter for `ensureMu`
  gets it in the end (strong fairness, as Go's mutexes hand over to a waiter
  that starves); the ten seconds of `initialize` pass; a reader notices a closed
  socket and delivers what it has. A reply may never come.
- `DeadlineReturns` of the ephemeral call needs no fairness: past its deadlines
  some step of its own is always enabled.

### Assumptions of the queue runs

A queue attempt has no claim. The documentation asks every managed writer to
hold the application's fence (`docs/reference.md` 232-234), so one client queues
at a time (`Fenced`). A thread is retired when nobody is queueing. `Resend` is
FALSE: an identity is used once, as the documented callers do. `queue` lets
history show a started entry at once (`Lag` FALSE); `queue_lag` shows what
happens otherwise.

## How long the ledger's promises last

A promise about an identity rests on its record. `Live` says which submissions it
covers, and what it leaves out is left out on purpose:

- **SQLite**: the submissions claimed since the record was last removed, by an
  acknowledgement, a discarding or the cleanup of the thread. An identity that is
  sent again after that is a new message to the ledger.
- **JSON**: all submissions until a record of the identity was removed for the
  first time, and none later (`Kept`). This ledger stores no claim, and
  `restoreRejectedSendClaim` compares claims only for SQLite
  (`codex/send_delivery.go:66`), as `docs/submission-storage.md:23` says. After a
  removal three Sends under way suffice to break a promise: one whose request was
  refused still has to give its claim back, its record is removed by an
  acknowledgement of an earlier delivery, a third Send records, claims and writes,
  and then the first resets the record of the third to `prepared` and reports that
  nothing was sent. Retirement of a thread needs no quiet clients in the model.
- **Queue**: `SubmittedOnce` likewise ends with the record, and
  `finishAbsentQueueDeletion` clears it for an entry that has started. A Send of
  the same identity that had already looked for a queue attempt then finds none
  and delivers the message again. It takes a Send and a queueing of one identity
  at the same time. For an identity that is only queued, `QueuedOnce` excuses
  nothing.

`DeliveryRemembered` compares texts only: a request carries no action context, so
the server has none to compare.

## Theorems

They hold for arbitrary sets of clients, callers, browsers, watchers, identities
and records, and for arbitrary bounds, under the named assumptions of the
modules: limits are naturals, and names that must differ do. Those marked * also
assume `SQLite = TRUE`, those marked + `Resend = FALSE` (an identity is used for
one message), and the one marked # `Lag = FALSE` (history shows a started entry
at once; without it the theorem is false, see `queue_lag`).

| module | theorems | about |
|---|---|---|
| `DeliveryProofs` | `TypeCorrect`, `ClaimsAreExclusive`, `DeliveredAtMostOnce`, `DeliveriesAreRemembered`, `RestorationIsSafe`, `NotSentIsTrue` | delivery, with either ledger |
| `PermitProofs` | `ReceiptsAreTrue`, `RemovalsAreProven`, `ImplementsPermits`* | receipts, removals, and the refinement of `SubmissionPermit` |
| `QueueProofs` | (lemmas) | the control, the types and the numbers of the queue operations |
| `QueueSubmissionProofs` | `OneSubmission`*+, `SubmissionsRemembered`*+, `NotSentMeansUnsubmitted`*+ | submissions, sent or queued |
| `QueueCancelProofs` | `IntentsOutlive`, `CancelledStaysCancelled`# | deletions of queued messages |
| `RecoveryProofs` | `UsedMeansFenced`, `ImplementsStore` | migration |
| | `RecordsAreTrue`, `WatchedGetSubscribed`, `UnwatchedGetLeft` | subscriptions |
| `ThreadProofs` | `AnswersAreUnique`, `ClaimsHaveHolders`, `SnoozedIsLeftAlone`, `StreamsCatchUp` | questions |
| | `ShownIsKept`, `FlushMeansSaved` | activity |
| `StreamProofs` | `NoCallIsForgotten`, `ReaderNeverBlocks`, `CloseIsFinal`, `ImplementsLink` | the connection |
| | `PageInViewKeepsUp` | the page |

None of the properties is inductive. The invariants that carry them:

- **Delivery**. `AtMostOnce` says nothing of requests on the wire or of clients
  about to write. `DeliveryProofs` gathers all three in `Submissions`.
  `ExclusiveClaims` is about claims alone: drawn once, held by one client,
  carried by one request or message, and by none while its holder may still
  write or is about to give it back; it holds with either ledger. `Ownership`
  ties claims to the ledger: the record of an identity answers for every
  live submission of it, and all of them carry one claim. For SQLite this needs
  the comparison of claims in `restoreRejectedSendClaim`. For JSON it needs that
  no record was removed: the submitting record a refused client finds is then
  still its own (`RestoredClaim`). An action that moves no claim is a
  `QuietStep`, treated once.
- **Receipts and permits**. `Receipted`: what history and replies show the server
  accepted (`Answers`), a request under a held claim is of the holder's message
  (`SameMessage`), and whoever is about to record, has read or has returned a
  receipt names a turn the server accepted (`Knows`, `LedgerKnows`). It needs no
  comparison of claims, so receipts are true with either ledger. `Walked`: a
  client about to remove a record has seen an accepted message of its identity,
  text and turn, whatever became of the record since. The refinement adds
  `Ownership`, and shows every action to be a step of the permits or none.
- **Queue**. `QueueTyped`: types, and which call a client runs at which label.
  `QueueBase` adds `ExclusiveClaims` for the larger system, and that the number
  of an entry, on its way, in the queue or in a deletion, belongs to one entry
  and to no direct send. Two invariants rest on it. `SubmissionInv`: one client
  queues at a time; the record of an identity answers for its submission until
  that is queued, and the queue attempt does from then on (`Remembered`,
  `Traced`); there is one submission of an identity (`OneEach`); and a client
  that is about to queue an identity finds nothing of it (`NewToQueue`).
  `CancelInv`: an entry whose deletion is completed, or is about to be, is
  `Closed`: it has left the queue, nothing of it is on its way and no message
  carries its number. A client reaches the callback on two ways, the server's
  reply to the deletion or an absence from queue and history, and `Awaited` and
  `Cancelling` say what it knows on each. `Finished` says the same of a client
  about to clear an intent.
- **Connection**. `CallsHeld`: a call's id is its own, registered while its
  connection is attached, and once it is on the wire the loss of the connection
  has left an answer. `AskedOnce` and `ReadersHold`: an answer that is to come, or is in a
  reader's hand, is the only one of its call. `CloseSees`: Close saw the connection
  that is attached after it.
- **Prompts**. `OffersHold`: offers are numbered, one is there at a time, and an
  answered one no longer is. `HeldOnce`: nobody answers two offers, no two answer
  one, and a timer answers its own once it fired. `StreamsHear`: a stream that has not noted the present
  revision will hear of it; one that has, and has read since, shows it.
- **Watches**. `LockHeld` and `LeavesAlone`: who holds the watch lock for what.
  `Granted`: what a resume of this connection has achieved. `Serving`: a watched
  thread is subscribed, or excused, or somebody is at work on it, or no watcher
  relies on it yet. `Ending`: a subscription nobody uses has somebody to end it.
- **Migration**. `LocksHeld` and `Stages`: a client's stage agrees with the locks
  it holds and with the phase of the database, and what it has treated is fenced. `Untouched`, `Imported` and `Ready`: what the phase of the
  database says of the files. `JsonSafe`: a JSON client at work found no fence,
  or started before the import. `Kept`: backups keep what vanished. The refinement maps the store to the
  content of whichever file or database is in authority.
- **Activity**. `DiskInv` follows the sequence of a record from memory to the
  files. `Held`: what the writer takes for saved is in the checkpoint, and memory,
  like the snapshot being written, replaces the checkpoint with the help of the
  summaries. `Retained`: a watch or a read keeps the records loaded. `Flushing`:
  what a flush waits for is in memory, then in the writer's hands, then on disk.
  `Survives`: what was shown is on disk. In memory a sequence only grows, the
  writer drops a record only when its summary is as new, and a snapshot is never
  older than the checkpoint it replaces.
- **Page**. `Reading` orders what is shown, read and announced. `Attended`: what
  is due has a timer or a read. `Told`: a version that is not shown has a hint on
  its way, or a read that will see it. `LaneGood` and `LaneTold` say the same of
  the lane. A handler is shown to leave a page that is only `Fair` in a state that
  is `Good`, because it ends in `scheduleRefresh`.

Only model-checked: liveness and `DeadlineReturns`, which state fairness or
`ENABLED`; the ephemeral turn, whose `Bind` folds over the kept notifications,
so that its proof would be an induction over data; that the activity recorder
counts no time twice (`NoOvercount`, `OnlyObserved`), a sum over the intervals of
a turn; the types of the queue and of the activity recorder as TLC checks them,
which bound a length and a clock (the proofs have `QueueTyped` and `Held`
instead); and `QueuedOnce`.

## Findings

- `queue_lag`: `finishAbsentQueueDeletion` (`codex/client.go:5031`) completes a
  deletion when the entry is neither queued nor in history. A message that was
  started and is not yet visible is thereby reported cancelled, which
  `codex/client_test.go:4950` calls a failure.
- `connection_orphan`: when the context ends before the `initialized`
  notification is written, `Ensure` leaves a connection attached that nobody
  initializes (`codex/client.go:1034`). Later calls fail as "still
  initializing" (`client.go:988`) until the server closes the socket.

One exception is written into a property instead. A summary that was saved before
any time was counted has `FirstMS` and `ThroughMS` zero. `seedCurrent` decides by
them whether it may continue the summary (`codex/activity_snapshot.go:24`), and
cannot tell such a summary from one it has not seen. The time of such a turn may
be counted again, though `docs/reference.md` 628-629 and 637 count observed time
only. `hollow` in `Activity` is the set of turns this happened to, and
`NoOvercount` and `OnlyObserved` hold for all others.

## Abstractions

- **Delivery**: texts, contexts and identities are tokens; a thread is one
  thread; `clearQueueAttempt`, `CompactAcceptedSendOptions` and the reader's
  validation of a stored ledger are left out.
- **Migration**: a file is its content and a digest is the content. Checks of
  permissions, sizes and encodings refuse files no client of the model writes.
- **Connection**: what runs under `connectionMu` and `pendingMu` is one step.
- **Prompts**: one request id of one thread; a question is its kind.
- **Watches**: one thread. A second `unsubscribeThread` that waits beside the
  first would find the same state.
- **Activity**: one thread. A file is replaced in one step, as it is renamed into
  place. History that was read is what the cache holds. A `thread/closed`
  notification has the effect of a lost connection. The totals and the live
  state a snapshot displays are left out, and so is paged history.
- **Ephemeral**: options, policies and catalogues are acceptable or not. Frames
  the decoder refuses are one kind of frame.
- **Page**: the page is live and has a stream. Clocks are choices at the moment
  the code looks, and a recovery that is debounced does not happen. Warnings only
  display. A hint arrives no earlier than what it announces can be read.

## Not modelled

Code without state that several steps share: text conventions of asynchronous
questions, citations, decoding and paging of history, transcripts, timestamps,
diagnostics, policy tables, and the example program. They would be pure
functions over strings.

Single guarded requests: continuation of failed turns, initial messages,
`StartQueueWithPolicy`, thread lifecycle and thread settings. What they check
before the request is history, rollout files or settings, of which these models
have no notion; what they send is a Send or one request. Operation markers of
the ledger belong to them.

Reading of rollout files along a thread's ancestors, and headless turns: file
access by one goroutine.

The observer client restores threads by the path modelled in Watches, with a
queue and slots of its own. The context mutex is a channel of capacity one,
whose exclusion Delivery and Connection take for granted. The handler's
mutations run under `MutationLock`, which `Fenced` stands for. Uploads handle
files.

In the browser: the durable sender, whose retries repeat a Send with one
identity, which Delivery shows safe; the display of questions, retries and
refresh notices; the lane of the queue, which has the shape of the one in
`PageLanes`; and the lane that repairs earlier history, which depends on paging.

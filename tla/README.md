# Verification of the transfer server

TLA+ models of the fast-file-upload server (`src/app`) and of the parts of its
browser client (`src/web/js`) that carry behaviour of their own. Every module
is written from the source; documents are quoted only where the code is held
against them.

Modelled are the life of a resumable upload, the locks and the admission in
front of it, its progress events, the event stream each device follows, and the
library of files with whole-file uploads, deletion and purge. The browser is
modelled as far as it holds the stream's cursor.

## 1. Inventory

| component | source | state it keeps | operations |
|---|---|---|---|
| resumable upload session | `app/upload_service.py` | writers per session, completions running; the session's lock | put_part, control, cancel, complete, recover, expire |
| session rows | `app/upload_repository.py` | `upload_sessions`, `upload_parts` | create_or_get, begin/confirm/invalidate part, transition, cancel, begin_completion, publication states, finalize, reconcile, expire |
| chunk files | `app/chunk_storage.py` | `.resumable/<id>/{incoming-*, part-*, final.uploading}` | write_part, assemble, pending_from_session, reconcile, cleanup |
| anchored removal | `app/safe_fs.py` | none | remove_tree_anchored, quarantine_verified_file |
| lock pool | `app/main.py` | entries with locks and user counts | reserve, hold, run |
| startup and maintenance | `app/main.py` | the worker task | lifespan, maintenance rounds |
| progress publisher | `app/events.py` | last sent, pending, timers, generations, terminal marks | publish, discard, mark_terminal, reset, close |
| event log and streams | `app/events.py`, `app/event_store.py` | `events`; cursor, replay flag and pending events per device | append, trim, replay, queue_live, backfill, resync |
| messages and purge | `app/repository.py`, `app/storage.py` | `messages`, `files`, purge claims | create, delete, restore, purge, take over a claim |
| whole-file upload | `app/main.py`, `app/repository.py` | `upload_reservations` | process_upload, recover_upload_reservations |
| legacy import | `app/repository.py` | `migration_imports` | import_legacy_files |
| sessions and limits | `app/auth.py`, `app/main.py` | failed logins per client, request buckets | is_limited, record_failure, enforce_rate_limit |
| batch download | `app/main.py` | registry of temporary archives | create, stream, cleanup |
| upload coordinator | `web/js/upload-coordinator.js`, `upload-persistence.js` | tasks, workers, generation, IndexedDB records | add, pump, pause, resume, cancel, retry, reconcile, destroy |
| event connection | `web/js/api.js` | cursor, reconnection timer | connectEvents |
| timeline and library | `web/js/timeline.js`, `library.js` | cards of messages and uploads | mergeEvent, loadInitial, loadOlder |

How they interact. A request handler runs as an asyncio task; blocking work is
a thread it waits for. Handlers of one upload share the lock of that upload and
hold it around each read-check-write of rows, but neither while a body is
received nor while the file is assembled. Every change of a row commits with its event;
the handler then hands the event to the hub, which feeds each device's stream.
The maintenance worker calls the same service under the same locks. The
database and the upload directory are the only things that survive the process,
and no transaction spans both: publication is a chain of states
(`assembling`, `assembled`, `file_published`, `published`) between which the
process may die.

What is hard, and what would make each part correct:

* *session*: requests overtaking each other between two lock-protected
  sections; death between a file operation and its row; errors in cleanup and in
  recovery. Correct when acknowledged chunks stay, the published file is exactly
  the confirmed chunks, a withdrawn session leaves nothing, and every session
  gets somewhere in the end.
* *lock pool*: entries created and dropped around waiters. Correct when one key
  never has two locks and a full pool still serves the keys it holds.
* *admission*: idempotency and two limits in one transaction. Correct when the
  bytes promised to active sessions never exceed the budget.
* *progress publisher*: a delayed flush against a state change. Correct when no
  progress of an old generation follows it and the rate is kept.
* *streams*: events from many tasks, replay and retention at once. Correct when
  a device passes over no event, or is told to resync.
* *purge*: deletion, undo, lease and crash. Correct when a restored message has
  its file, and a deleted one loses it in the end. That two purges of one file may both
  report it is not covered.
* *whole-file upload*: death between reservation, rename and message. Correct
  when recovery finishes or takes back.
* *coordinator*: adoption of remote state against local controls and
  destruction. Correct when at most nine files transfer, cancellation wins, and
  nothing happens after destruction.
* *timeline*: pages, snapshots and events in any order. Correct when one
  transfer is one card and nothing older overwrites something newer.

`PROJECT.json` lists all components with what is modelled of each, and under
`hazards` the places where this code is hard to test, each with the properties
that watch over it or the reason why none does.

## 2. Modules

| module | what it is |
|---|---|
| `UploadPromise` | what an upload promises its client, in three variables |
| `ResumableUpload` | one session in detail: rows, files, requests, maintenance, crashes |
| `MCResumableUpload` | symmetry sets for TLC; instances are the `.cfg` files |
| `ResumableUploadProofs` | inductive invariant and the safety theorems |
| `ResumableUploadFaultFreeProofs` | what holds when only crashes happen |
| `UploadPromiseProofs` | `ResumableUpload` implements `UploadPromise` |
| `KeyedLocks` | the pool of locks per key, its waiters, threads and cancellations |
| `UploadAdmission` | `KeyedLocks` with creations, texts and whole-file uploads that run under it, and the sessions that write meanwhile |
| `KeyedLocksProofs`, `UploadAdmissionProofs` | mutual exclusion, exactness of the pool, one operation per id, the active limit, room on the disk |
| `UploadProgress` | the progress publisher and the routes that stop and restart it |
| `UploadProgressProofs` | inductive invariant, quiet after a change, the mark and what leaves it, the shutdown |
| `EventFeed` | what the stream promises a device |
| `EventStream` | the log, one connection, the wire and the browser's cursor |
| `EventStreamProofs` | inductive invariant, the limits of a connection, `EventStream` implements `EventFeed` |
| `FilePurge` | deletion, restoration and purge of files, claims and leases |
| `FileLibrary` | `FilePurge` with the whole-file upload that makes the files, its recovery and the legacy import |
| `FileLibraryProofs` | inductive invariant and safety theorems of both |
| `MC...` | symmetry sets and operators for TLC |

How they meet. `ResumableUpload` takes from `KeyedLocks` that one section runs at
a time (its `LockFree`), and starts with the session that `UploadAdmission` admits; in
`UploadAdmission` the life of a session is cut down to what limits and disk space
depend on. `UploadProgress` sees of a session only whether it takes progress, and
ends where an event is committed; `EventStream` begins there. The final file of
a session is one that `FileLibrary`'s import could find, which
`ResumableUpload` models itself (`ImportLegacy`).

### ResumableUpload

Sessions share only admission and the lock pool, so the module has one.

| variable | in the code |
|---|---|
| `status`, `publication`, `fileSha`, `expiry` | columns of `upload_sessions`; time is only "expires_at has passed or not", and no longer matters once the session is terminal |
| `rows` | `upload_parts`: the digest confirmed for each chunk, `None` without a row. A digest stands for the bytes it was computed from |
| `filesRow` | the `files` and `messages` rows of `<id>_<name>`: none, made by the publication, or made by the legacy import |
| `dir`, `part`, `incoming`, `temp`, `final` | the session directory, its chunk files, files being received, `final.uploading`, the published file |
| `put` | each chunk request: its step and what it carries; not `idle` is `_writers > 0` |
| `pc`, `listed`, `bad` | each completion and the maintenance: its step; the rows a completion read; the chunk an assembly found damaged. A completion that is not `idle` is in `_completing` |
| `duty` | whether maintenance has to go on to expiry after a recovery |
| `phase` | down, recovering at startup, importing legacy files, serving |
| `env` | what is left of the bounds on crashes, errors and losses; `lost`: the chunks whose file a loss has hit since they were confirmed (not in the code) |

Each action is one lock-protected section, or one file operation outside the
lock. The lock itself is not a variable: it is held while some actor's `pc` is
in `Locked`, and `LockFree` guards every other section. `put_part` is
`PutBegin` (lease), `PutOpen`, `PutLink` or `PutFail`, `PutConfirm` (the second
section) and `PutLeave` (the `finally` section). `complete` is `CompleteEnter`,
the decision under the lock (`CompleteRefuse`, `CompleteStart`,
`CompleteRestart`, `CompleteResume`), the assembly outside it, and a second
section that either drops the file or goes through the publication phases.
Publication is one action per durable step, shared by completions and by the
recovery, because a crash can fall between any two. `Recover...` are the
branches of `_recover_locked`, called at startup, for a due verifying session
and for residual directories; `ExpireRecovered` and `ExpireIdle` are
`_expire_locked`.

A failure of an operation is an action or a disjunct of its own. `Fault` marks
those that need a transient `OSError` or `sqlite3.Error`; a failed request body
needs none. Where several things can fail in one section, each outcome is
modelled, a partially removed directory included.

Definitions named `X_Y` in front of `X` are `X` with a plausible bug; no
specification uses them. They document the sensitivity of the properties: with
`X` replaced, the run named in `PROJECT.json` finds the property violated.

### UploadPromise

`Confirm`, `Lose`, `Forget`, `Publish`, `Close`: chunks are acknowledged once and stay,
unless their own files were lost or altered or the session was withdrawn; the file appears
whole, in the step that ends the session; the end is final. The refinement
mapping in `ResumableUpload` calls every active status "open", takes `rows` for
the chunks, `env.lost` for the losses and shows the file once the upload's own message exists.
`lost` grows only by `Damage`, one chunk at a time, so `Forget` may take nothing else back
from an open session; a chunk sent again whose file is whole leaves it.

### KeyedLocks

| variable | in the code |
|---|---|
| `pool` | `_entries`: the entry of each key |
| `key`, `entry` | what a request has reserved; `users` of an entry is the number of requests with it |
| `queue` | the holder and the waiters of an entry's `asyncio.Lock`, first come first served |
| `pc`, `thread` | where the request is, and the operation `run` has started in a thread |
| `cancels` | how often the request's task was cancelled |

What the event loop does between two awaits is one action; only threads run
beside it. `Arrive` is `reserve` and the first `hold`; `Release` and `HoldAgain` are
`put_part`, which gives the lock away while it keeps the lease; `Leave` and the
cancellations end both. A cancelled waiter leaves the queue; a request whose
thread runs waits for it (`CancelRunning`), until it is cancelled again
(`CancelDraining`).

### UploadAdmission

Each thread step is a transaction or a read: `CreateLook` (replay, free space),
`CreateCommit` (`create_or_get`), `TextCommit`, `UploadLook`, `UploadReserve`,
`UploadIndex`. Keys are client request ids. The unit of disk space is one file,
which is also one chunk; `stored`, `confirmed` and `copied` say which parts, rows
and copies exist. `Free` is what the reserve leaves, and can be negative: a chunk is written
without a look at the disk, and two completions that both found room for one copy
make two. `late` is not in the code: it records how much was written between a
creation's look at the disk and its transaction.

The lock is held neither while a body is received nor while a file is assembled. `put`
and `assembly` are what goes on then. `PutBegin` is the last look at the session's status before
`PutReceive` writes; `PutEnd` links the part and takes the lock again. `Verify` opens an
assembly, `Assemble` writes the copy, and only `Publish` sees what has become of the
session meanwhile. `Withdraw` is the row alone: the files stay until `Cleanup`, which waits for
the last chunk request (not for an assembly) and may fail.

### UploadProgress

One upload. `muted`, `gen`, `fresh`, `pending` and `timer` are its entries in
`_terminal`, `_generation`, `_last_sent`, `_pending` and `_timers`; `sender` are the calls of
`_send_if_current` under way, one per chunk request and one for the timer; `op` are
requests that change the status, with the marks they set and take away around it, and with
what the route is told (`Answers`): the status it has brought about, a refusal it has a handler
for, or an exception it has none for. `aborted`, not in the code, says that the last of them
ended in such an exception. What
the publisher does under its `_lock` is one action; `_send_lock` is held while a
sender is at `persist`. The status is changed by threads at any time. `Evict` is
another upload taking the place of this one in full tables. The publisher's `close`
is three actions.

### EventStream and EventFeed

An event is its sequence number. `latest` and the retention limit determine the
log. `unsent` are committed events whose request has not called `broadcast` yet,
`arriving` those that wait for the connection's `send_lock`, in any order: requests
overtake each other in both. `link`, `last`, `pending`, `overflow`, `target`, `page` are
the connection and its handler; `channel`, `applying`, `stale`, `seen` the socket and what
the browser makes of it; `known` what the device shows and `cursor` its
`lastAppliedSequence`. An action is what happens under one hold of the `send_lock`.
A resync makes the browser read a snapshot, which shows at least what was committed when
the reading began (`seen`).

`EventFeed` is the promise: the cursor moves forward only, and over nothing the
device does not show. The mapping is the identity on three variables.

### FilePurge and FileLibrary

| variable | in the code |
|---|---|
| `row`, `shown` | `purge_state` of the `files` row; the message's `deleted_at` against the undo window |
| `final`, `temp` | published files, staged `.uploading` files |
| `stale`, `knows` | claims older than the lease; who knows the token in the row |
| `job` | what each running purge is about to do with each file |
| `reservation`, `owner` | the `upload_reservations` row and the message of the client request id |
| `attempt`, `used` | the attempt under way, and the file ids given out |
| `phase` | down, recovering, importing, serving |

A purge claims files in a transaction, unlinks without one and finalizes in
another; the route and the maintenance worker may do so at once, and the
worker first takes over claims whose lease has passed. An upload stages,
reserves, renames, and indexes; each is an action, any of which may fail, and
between any two the process may die. Startup resolves reservations, removes
orphaned temporary files and imports what no row names.

## 3. Runs

| run | bounds | what it shows |
|---|---|---|
| `upload_crash` | 2 chunks, 2 contents, 2 chunk requests, 2 completions, 2 crashes | nothing published behind a withdrawn session (`WithdrawnUnpublished`), nothing unfinished downloadable (`IncompleteUnavailable`) |
| `upload_faults` | the same with 1 error and 2 losses | `TypeOK`, the published file is the confirmed chunks (`PublishedWhole`), acknowledged chunks stay unless their own file was lost (`ConfirmedOnDisk`, `PromiseKept`), writers are undisturbed (`WriterUndisturbed`), expiry is quiet (`ExpiredQuiet`) |
| `upload_expiry` | 1 chunk, 2 chunk requests, 1 completion, 2 crashes, 2 errors, fairness | a due session is renewed, completed or expired, or its file was imported (`DueUnlessImported`); directories of ended sessions go (`TemporaryRemoved`) |
| `event_stream` | 4 events, log of 2, pages of 1, 2 pending, 1 silent event, 1 fault, fairness | `TypeOK`, `PendingBounded`; the cursor promise (`FeedKept`); a live event brings what precedes it (`LiveEventDelivered`); the device catches up (`CaughtUp`) |
| `upload_progress` | 1 chunk request, 2 requests, 3 operations | `TypeOK`; no progress after a state change (`QuietAfterChange`); an upload that goes on reports again, unless its last request ended in an exception without a handler (`UnmutedUnlessAborted`); the last value is sent at shutdown (`CloseFlushes`) |
| `file_library` | 3 files, 2 purges, 2 deletions, 3 errors, 2 crashes, fairness | `TypeOK`, `RestorableOnDisk`, `VisibleDownloadable`, `ImportedOnlyAfterText`, `NoLeftovers`, `OneFilePerRequest`; expired files are purged (`ExpiredPurged`) |
| `upload_admission` | 2 requests, 2 ids, 2 locks, 1 cancellation each, 2 chunk requests, 2 active sessions, disk for 3 files | `TypeOK`, two requests never work under one key (`KeyExclusive`), the pool holds the keys in use (`PoolExact`), an id is one operation (`OneOperation`), what is admitted fits (`SpaceKept`) |
| `incomplete_download` | 1 chunk, 1 crash, 1 error | a disagreement, see section 6 |
| `never_expires` | the same, fairness | a disagreement, see section 6 |
| `recovery_stuck` | 2 files, 2 crashes, fairness | a disagreement, see section 6 |
| `stays_muted` | as `upload_progress` | a disagreement, see section 6 |
| `lock_released` | 3 requests, 2 ids, 1 lock, 2 cancellations | a disagreement, see section 6 |

Why the bounds are enough. Two chunk requests can race for one chunk with equal
and with different bytes and can be the last and the last but one writer. Two
completions make the mutual exclusion matter. Two chunks are needed to have one
confirmed and one missing. Two
crashes let one fall into the recovery of the other. One error in each place
decides which handler runs. In `upload_faults` the second chunk is the one that must stay when
the first is lost. The runs on one chunk keep every error path, and all are
exhaustive. Chunks, contents and requests are interchangeable, so the safety
runs use symmetry; the runs that check liveness do not. The theorems of
section 5 remove the bounds.

*Stream.* With a log of two events and four commits the log forgets while a page is
sent, while live events wait and while the device is away; pages of one put a
commit between any two pages; a limit of two makes both a dropped event and a
backfill that does not reach the end possible. One fault is a lost socket, a failed
application or a crash at any moment; `MaxSilent` adds an event nobody broadcasts.
*Progress.* Two requests overlap in every way, three let one come before
and after a reset; the second sender beside the chunk request is the timer.
*Library.* A file id is used up by each attempt, so three ids are three attempts; two
purges exclude each other, and the third error strikes after two have led into
recovery. *Admission.* Two threads decide at once about the same id or about different ones.
Two sessions may be active, and two chunk requests write for one of them or for both,
so that a withdrawn session's writer meets a session admitted meanwhile; three files are too
few for two sessions that write twice each. The limit on active sessions would need a third
id, and a pool that refuses a third request; `ActiveIsBounded` and `PoolIsExact` prove
both for every number.

`CHECK_DEADLOCK` is on for `ResumableUpload`: a session that has ended still has
the maintenance and the environment. The other runs turn it off because their systems
may stop: the bounds on events, operations, deletions and file ids are used up, the
publisher is closed, all sessions have ended.

## 4. Fairness

`FairSpec` is weakly fair to each open chunk request and each open completion
(asyncio runs ready tasks, and a body ends or its connection does), to the
maintenance (the worker comes round after every interval) and to the restart of
a dead process. It is not fair to anything a client may choose to do. Errors and
crashes are limited by the bounds, so they stop.

Both liveness properties have the premise `<>[]Quiet`. Recovery and expiry skip a
session with an open request, and a client may keep one open at every
round; the code promises nothing to a session that is never left alone. What is
shown is that a session which is left alone does not stay as it is. `DueResolved`
without the exception for an imported file is what `never_expires` refutes.

`EventStream` is fair to the tasks of the server that are ready (broadcasts, the
handler of the connection) and to the browser, which handles every message and
reconnects after a delay; not to commits. `CaughtUp` excludes behaviours with an
event that nobody broadcasts: such a gap is closed by the next event only.

`FileLibrary` is fair to the startup, to the steps of the maintenance worker on each file
and to time. It is not fair to clients, nor to a purge they have requested, whose
claim the worker takes over. `ExpiredPurged` allows the one other way out, a
restoration that read the clock in time.

`UploadProgress` states no fairness. What eventually happens there depends on the first
come, first served order of `asyncio.Lock`, which the module does not model.
`UploadAdmission` and `KeyedLocks` state safety only.

## 5. Proofs

The theorems are listed in `PROJECT.json`. They hold for all values of the
constants that satisfy the assumptions of the modules: bounds are natural
numbers, limits positive ones, and values like `None` are told apart from those they stand beside.

### ResumableUpload

All for any number of chunks, contents, requests, crashes, errors and losses.

`Invariance` proves the inductive invariant `IInv`; TLC checked the same
formula first. `PublishedWhole` is far from inductive: that the file is whole when
`finalize_publication` commits depends on who assembled it, from which rows,
and on nobody having touched either since. `IInv` adds:

* `OneCompletion`, `MaintAlone`, `DownIdle`: at most one completion runs,
  maintenance and a completion never meet, a dead process has no tasks. These are
  the mutual exclusions the code builds from `_completing` and the locks.
* `AssemblyInv`: while a completion assembles an unchanged session, the rows it
  has listed are the rows there are, all of them.
* `PublicationInv`: between two phases under the lock, status and publication
  state are what that phase left, and the bytes are in `temp` or `final`.
* `DigestInv`: a recorded digest is the digest of all rows.
* `CompleteInv`: a complete session has its rows, its digest and its file, and
  nothing rewrites them.
* `IntactInv` and `MaintNoWriters`: files of rows and of open writers are there,
  but for chunks that were lost behind the server (`env.lost`).

From it: `TypeCorrect`, `CompleteIsWhole`, `AcknowledgedStays`, `WriterSafe`,
`ExpiryIsQuiet`. `ResumableUploadFaultFreeProofs` adds the invariant of a
server that crashes but meets no error: an interrupted publication exists only
before the recovery has seen it, or in the hands of the one that holds the lock.
From it: `CrashesPublishNothing` and `CrashesLeaveNoFile`. `UploadPromiseProofs`
shows every action to be a step of `UploadPromise` or to change nothing it
mentions (`ImplementsPromise`).

### KeyedLocks and UploadAdmission

`LocksInv` says that a request uses the entry its key has in the pool
(`EntryInv`), that no two keys share an entry and a key in the pool has a user
(`PoolInv`), that a request is in the queue of its entry exactly when it holds
or waits (`QueueInv`), that a thread runs only under the lock of its request
(`ThreadInv`), and, if requests are cancelled at most once, that a request that
is gone has left no thread behind (`OnceInv`). `PoolExact` follows for every
number of cancellations. `KeyExclusive` needs `OnceInv`: two that hold the lock
are heads of one queue, and a thread has its request at the head. Its premise
`MaxCancels <= 1` is the one `lock_released` shows to be needed.

`UploadAdmission` takes these over by showing that each of its steps is a step of
`KeyedLocks` or leaves the locks alone (`AdmissionUsesLocks`). `IdsNameOneOperation` then
rests on the exclusion: between a thread's look at the rows of an id and its
last transaction no other thread works on that id, so a reservation made is
still there when it is indexed. `ActiveIsBounded` is an
induction over the sessions' statuses.

`AdmittedFits` (`SpaceKept`) is proved in another form. A part on disk of an active
session, and a copy of one that is active or complete, leave as much free as they take off what is
still to be written, so the inequality holds exactly when twice the active sessions and one file for each
complete one are at most `Disk + late` (`Fits`). That form is disturbed by nothing but a creation:
a chunk request or an assembly, of whatever session, does not appear in it. A creation adds
two, and `create_or_get` compares its own sum, so the proof has to relate the two:
`CommittedIsEnough` says that the sum of the SQL statement is at least what is to be
written. That needs `FilesInv`: a confirmed part of an active session is on disk, an assembled
session has its copy, and a session that was never created has no files. Finite sets
are counted with the library's theorems. Neither it nor `AdmissionTypeCorrect` has a premise
about cancellations.

`Temporary` and `late` are not slack added for the proof. Without `Temporary` the bound is not
true of the code: on a disk for two files, a session whose chunk request is under way is
cancelled, another one is admitted on the free space there is, and the first one's bytes
still arrive; until they are removed the second does not fit. The server lets this
happen; `complete` looks at the disk once more before it assembles.

### FilePurge and FileLibrary

`RestorableOnDisk` is not inductive: a release after a failed unlink is safe
because only the purge that owns the claim can have unlinked. `LibraryInv` adds:

* `ClaimInv`: whoever is about to unlink or has unlinked works on a claimed or purged
  row, and a purge that has not unlinked yet and knows the token in the row is the only
  one, with the file still there.
* `AttemptInv`: at each step of an attempt, where its bytes are and which
  reservation names it.
* `RequestInv`: at most one file is published or indexed for the request,
  and it is the reserved one until it has a message.
* `TempInv`: staged bytes are of the reservation or of the attempt.

From it all six safety properties of the run `file_library`, for any number of
attempts, purges, crashes and errors.

### EventStream

That the device's cursor passes nothing the device does not show says something
about the browser; what makes it true happens in the server, with a socket in
between. `StreamInv` therefore follows the messages on their way:

* `ChannelInv`: the messages in the channel form a chain. Each follows the one before it
  (`Follows`: an event is the next one, a resync skips forward, the end of a replay is
  announced where it is reached); the first follows where the device will stand when it has
  dealt with the message in hand (`Start`), and the last is where the connection stands.
* `ConnectionInv`: what is kept back lies ahead, is at most `PendingLimit` and could not be
  sent at once; the rest of a page is what comes next, without a hole.
* `DeviceInv`: all up to the cursor is known, a snapshot has seen what its resync skips,
  and the message in hand follows the cursor unless its connection is lost.

`Chain...` lemmas say what appending, taking the head and concatenating do to a chain, for
sequences of any length, and `FlushStep` and `ResyncStep` what the two ways of sending
do. `FlushEnd`, a greatest element, exists by the library's well-founded
ordering of finite sets. From it `PendingIsBounded`, `LiveEventsAreDelivered` and `ImplementsFeed`:
every step moves the cursor over known events only or is a stutter of `EventFeed`.
The theorems hold for every retention, page size and pending limit from one up.
`NoMessageAssumption` tells `None` apart from the messages.

### UploadProgress

`ProgressInv` adds to the types:

* `QuietInv`: while no two requests overlap, a request under way keeps the upload muted, and
  once it has had the `send_lock` nobody stands between check and commit; so whoever commits
  saw the status that is still there (`ProgressIsQuiet`).
* `ResumeInv`: an upload that goes on is muted only while some request is still to take the mark
  away (`Unmutes`, by its step and result) or after one that ended in an exception
  without a handler, so no other is left behind (`UploadingIsUnmuted`).
* `ClosingInv`: after `close` has begun nothing else is under way, and what it sends carries
  the current generation (`CloseSendsTheRest`; a mark left by such an exception still
  stops it).

### Only model-checked

`DueUnlessImported`, `TemporaryRemoved`, `CaughtUp` and `ExpiredPurged`, since the
prover does not treat fairness. Every safety and action property of the passing
runs is stated by a theorem; for `KeyExclusive` and `PoolExact` in the run `upload_admission`
these are the theorems of `KeyedLocks` with `AdmissionUsesLocks`.

## 6. Where code and documents disagree

1. *An unfinished file can become downloadable* (`incomplete_download`). The
   process dies after `final.uploading` was renamed. At the next start the
   recovery of that session meets one transient error; `_run_isolated` logs it
   and the lifespan goes on to `import_legacy_files`, which looks for files
   without a `files` row and finds this one. `design.md:274`: "Files in
   incomplete sessions remain unavailable through download routes."
2. *The session is then stuck* (`never_expires`). The publication's own
   `INSERT INTO files` violates the unique storage name each time, the
   `IntegrityError` is not among those `_recover_locked` handles, and expiry of
   a verifying session goes through the recovery. `requirements.md:120` asks
   that the maintenance expire it.

Without errors neither can happen: that is what `CrashesPublishNothing` proves.

3. *A reservation is recovered only once* (`recovery_stuck`). The recovery commits
   `reservation_state = 'recovery'` and then publishes and indexes. If the process
   dies in between, or either of them fails, the next start lists only `'staged'`
   reservations and passes it by; the legacy import passes the file by because it is
   reserved. Until the client repeats the request, the file is in neither place. The
   design (`2026-07-17-transfer-assistant-hardening-design.md:36`) says
   that recovery reconciles these states "independently from a client retry".
4. *A second cancellation releases the lock* (`lock_released`). `run` shields its
   thread from a cancellation and waits for it, but not shielded; cancelled again, it
   leaves while the thread works on, and the next request enters.
   `tests/test_files.py:188` states the opposite and cancels twice, but looks before
   the event loop has got there.
5. *An upload can stay muted* (`stays_muted`). The complete route marks the upload
   (`app/main.py:1142`) and has no handler for a lock pool that is full, which control and
   cancellation have, nor for an `sqlite3.Error`, which none of them has. The session goes on
   uploading, and its progress is dropped until another request resets it. `requirements.md:90`:
   "WHILE bytes arrive, the event service SHALL broadcast confirmed or in-flight
   aggregate progress". `UnmutedUnlessAborted` says that nothing else leaves an upload muted.

Not listed as a finding, because no document speaks of it: when a publication
failed after the rename and the session is resumed, completed again and
cancelled during the assembly, the publication state is `assembling`, and
`_discard_unpublished_final` leaves the earlier final file where it is. Only
`upload_crash`, which has no errors, checks `WithdrawnUnpublished` for
this reason.

Seen while modelling, without a run of their own:

* Progress can be sent twice in one interval: `publish` sends at once when the
  interval is over, also when a timer that is due has not run yet.
* `complete` keeps the event of an abandoned assembly that it puts back to uploading until its own
  state change (`app/upload_service.py:368`); if the check of the disk or `begin_completion` raises
  in between (394-408), nobody broadcasts it, and devices learn of it with the next event
  (`CommitSilent` in `EventStream`).
* Admission reads the free space before its transaction. What a chunk request
  writes and confirms in between is counted twice in favour of the new session; `SpaceKept`
  states the bound with that amount (`late`) added.

## 7. Limits of the models

`ResumableUpload`:

* The process dies, the machine does not: what was written stays written, so
  missing `fsync` of directories is invisible.
* `Damage` hits chunk files at any time and assembled files while the server is
  down. A file that changes between its verification and the transaction right
  after it is outside.
* Error codes, `confirmed_bytes`, messages' contents and events are left out.
* `finish_published` cannot be reached (`published` and `complete` are set in
  one statement) and `claim_expired` has no caller; neither is modelled.
* A session starts as `create_or_get` leaves it. Directories without a session,
  paths and symbolic links are left out.
* Cancelling a handler's task inside a lock-protected section, and errors of the
  legacy import, are left out. Startup expiry, which runs just before requests
  are served, is an ordinary maintenance step of the serving phase.

`KeyedLocks` and `UploadAdmission`:

* The guard that binds a pool to one event loop is left out.
* A session has one chunk, its size is the unit of space, and only sessions write to
  the disk: whole-file uploads and files deleted by the user change the free space between
  any two reads of it, and the code takes no account of them either.
* A failure after the publication state is `assembled` is left out. Such a session keeps that
  state, admission counts nothing for it, and resumed it assembles once more
  (`app/upload_repository.py:149`); `SpaceKept` does not speak of it. `Finalize` in the model
  is retried until it succeeds or the session is withdrawn.
* A part that is lost behind the server is not modelled here. The link of a part and
  the last section of its request are one step (`PutEnd`), as if the request got the lock at
  once; the part of a session that became complete meanwhile is linked although its directory
  may be gone, which the code cannot do.
* Only `KeyedLocks` itself has the second hold of a lease and second cancellations.

`UploadProgress`:

* Other uploads appear as `Evict`. Tables full of uploads with values kept back, which
  make the publisher drop a value, and evictions while a request is under way (they need a full
  table whose other uploads all sent later) are left out.
* When two requests overlap, the reset of the one takes away the mark of the other;
  `QuietAfterChange` excuses what follows until both are over (`overlap`). The status is
  asked again before each event, so what is left is the time of one commit.
* A broadcast that fails, and errors of `persist`, are left out.

`EventStream`:

* A cursor beyond the log (`reset_cursor`), authentication and reconnection delays
  are left out; a backfill is one action with the flush after it, and it reads at most
  `PendingLimit` events.
* `finish_replay` does not ask the log for gaps: an event that was never
  broadcast waits for the next one. `CaughtUp` is stated for the others.

`FilePurge` and `FileLibrary`:

* One client request id, retried as often as there are file ids. A failure of
  `FileStorage.discard` itself is left out.
* `restore` reads the clock before its transaction, so a message whose window has
  passed meanwhile is still restorable in the model.
* The purge at startup runs just before requests are served and is part of the serving phase.
* The claim of resumable sessions on the same id is in `UploadAdmission`.

### Not modelled

* *Login limiter, request buckets, session cookies*: sequential tables and pure
  functions without a second actor; unit tests reach their limits.
* *Batch download*: a temporary archive is written by one thread and removed by one task.
* *Schema migration, configuration, path checks, symbolic links, audit log*: pure input and
  output, or decided once at startup.
* *Upload coordinator, timeline, library view of the browser*: a client with
  concurrency of its own, as large as the server. What the server owes it is
  stated by `UploadPromise` and `EventFeed`.

## 8. Plan

1. `UploadCoordinator`: tasks, pump, controls, adoption and destruction, with
   `UploadPromise` as the server it talks to.
2. `TimelineProjection`: pages, snapshots and events, fed by `EventFeed`.
3. `UploadProgress` over `EventStream`, to state end to end what a device
   sees of an upload.

Modules that are proved about use no `RECURSIVE` operator.

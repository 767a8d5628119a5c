# Verification of the Matrix SDK for iOS

TLA+ models of the parts of this SDK that keep state across threads, requests and
restarts, the TLC configurations that check them, and TLAPS proofs. Every module is
translated from `src/MatrixSDK`; `PROJECT.json` maps each definition to the lines it
models, lists the hazards of the code, the runs, the mutations that show that each
property can fail, the disagreements between code and documentation, and the theorems.

## The system

A client application opens a session (`MXSession`) on an account. The session opens its
store, then runs one loop: a `/sync` request to the homeserver, the handling of its
response, the next request. The response feeds everything else.

| Component | State | Operations | Hard because |
|---|---|---|---|
| `MXFileStore` | live objects, lists of what changed, a serial queue of write blocks, files, a backup folder named after a sync token | open and repair, store and delete rooms, set the token, commit, close | the process may die between two file operations; blocks archive live objects while the main thread changes them; commits are dropped at a limit |
| `MXSession` sync loop | state, `eventStreamRequest`, the blocks of resume and background sync, `preventPauseCount`, caches of responses | start, pause, resume, backgroundSync, reconnect, close, handling of responses and of errors, retries | callbacks of several requests interleave with the application, and only test that *some* request exists |
| `MXDeviceList` and pools | tracking status per user, latest download per user, current and next query pool, `deviceSyncToken` | track, invalidate, download, cancel, refresh after a sync | downloads overlap with changes; part of the state is saved, part is not; two threads |
| `MXCrypto`, Megolm encryption and decryption | outbound and inbound sessions, pending encryptions, shared-with lists | encrypt, share, rotate, decrypt, retry of pending events | membership and devices change while keys are being shared |
| Key requests, secret sharing | request states, timers | request, cancel, resend, accept, ignore | duplicated and late to-device messages |
| Key backup | state machine, version, keys not backed up | check and start, back up in chunks, restore | another device replaces the version meanwhile |
| Key verification | transactions, requests | request, accept, SAS steps, cancel, time out | two parties, crossing messages |
| Calls | call state machine, invite timer, selected answer, call stack | invite, answer, reject, select an answer, hang up, expire | several devices answer, answers and hang-ups cross, requests fail, the invite has a lifetime |
| Background sync service | cached responses and their metadata, `bgCryptoStore` | sync for a push, cache, merge, mark outdated; the session handles and deletes | a second process on the same account and the same files, without a lock |
| Rooms and timelines | state, ordered operations, pagination tokens, local echoes | send, redact, paginate | encryption and upload reorder messages |
| HTTP client, async queue, media, scan manager, spaces, aggregations, summaries, identity, third party ids | see `PROJECT.json` | | |

How they interact: the session calls the store on the main thread and the store writes on
its own queue; the session hands device list changes and the end of each sync to crypto,
which runs on `cryptoQueue`; crypto has its own store, so that the session's token and the
crypto data reach the disk independently; the background sync service leaves responses in
files that the next start or resume handles first; the application's blocks are called in
the middle of the session's code and may call the session back.

What makes each component correct is listed with the runs below; the hazards behind each
property are in `PROJECT.json` under `hazards`.

## Modules

| Module | Models | Composes with |
|---|---|---|
| `FileStore` | `MXFileStore`, down to single file moves, with crashes | a homeserver that sends what the token does not cover |
| `FileStoreProofs` | theorems about `FileStore` | extends it |
| `SessionSync` | the life cycle and sync loop of `MXSession` | the application, the network, the background sync service |
| `StreamReader` | the abstract specification that an orderly session implements | instantiated by `SessionSync` |
| `SessionSyncProofs` | theorems about `SessionSync` | extends it |
| `DeviceList` | `MXDeviceList`, its pools and operations, the hooks of `MXCrypto` | the session's two threads, the homeserver |
| `DeviceListProofs` | theorems about `DeviceList` | extends it |
| `RoomMessages` | the messages an application sends to a room, in the order of its calls | extended by the next two |
| `OutgoingMessages` | the sending half of `MXRoom`: `orderedOperations`, local echoes | hands its messages to `MegolmEncryption`, which ends in one of two blocks |
| `MegolmEncryption` | `MXMegolmEncryption` of a room and its hooks in `MXCrypto` | relies on the order `OutgoingMessages` checks; its list of devices is what `DeviceList` promises |
| `OutgoingProofs`, `MegolmProofs` | theorems about `OutgoingMessages` and `MegolmEncryption` | extend them |
| `Calls` | `MXCall` and `MXCallManager`, on several devices | sends its events one at a time, as `OutgoingMessages` checks |
| `BackgroundSync` | `MXBackgroundSyncService`, `MXSyncResponseFileStore`, the session that consumes the cache | the session's loop of `SessionSync` and the commit of `FileStore`, one step each |
| `KeyBackup` | `MXKeyBackup`, its state machine and its markers | the crypto store, the homeserver, another device |
| `CallsProofs`, `BackgroundSyncProofs`, `KeyBackupProofs` | theorems about `Calls`, `BackgroundSync` and `KeyBackup` | extend them |
| `MCFileStore`, `MCSessionSync`, `MCDeviceList`, `MCMegolmEncryption`, `MCOutgoingMessages`, `MCCalls`, `MCBackgroundSync`, `MCKeyBackup` | symmetry sets and the feed of the instance for TLC | extend the eight |

### FileStore

A sync token is the set of server positions it covers, and a room file the set of
positions whose events it holds: then "no event is lost" is the inclusion of the room's
timeline, cut at the durable token, in the files. `live` is what the main thread sees,
`dirty`, `stateToCommit` and `toDelete` the lists of `roomsToCommitFor...`, `queue` the
blocks of `dispatchQueue`. A commit queues one block per kind of file and an end block,
as `saveDataToFiles` does. A block takes several steps (`BackupFile`, `LabelBackups`,
`WriteFile`, `DeleteFolder`, `SkipFile`), so that a crash or a step of the main thread can
fall between the move to the backup, the reading of the token and the write. A room has three
files: messages, written from the live room store (as receipts are); state, written from the
listed snapshot (as account data is); and outgoing messages, written from a live store of their
own, which `StoreOutgoing` changes at any time, and which `deleteRoom` forgets neither in
memory nor in its list. `Outboxes` is what they can be. `Recovered` is what
`checkStorageValidity` makes of the files. `NoEventLost` and `NoGhostRoom` are about messages and
state, `DurableAtRest` and `BackupBeforeWrite` about all files; of a room that was left, the
outgoing messages may have a file or not (see Disagreements).

Abstractions: a single file is written atomically (`archiveRootObject:toFile:` writes a
temporary file and renames it). A backup folder that has been emptied and not yet removed
counts as absent; the code resets the store when it finds one, which loses no event.
`CrashInWipe = FALSE` excludes a crash inside `deleteAllData`, where the outcome depends on
the order in which the file system removes a tree. `Overlapping` says whether a response
may be stored while a commit runs: the code does not prevent it. The block of the outgoing
messages comes right after that of the messages and takes the same steps: they are one block here.

### SessionSync

A *job* is one pass of the loop, from the request to the callbacks its answer leads to; its
`stage` says which callback comes next. Code that runs without a return to the main queue
but calls a block of the application in the middle is split at that call (`bgDone`,
`resumeDone`, `running`, `bgFail`), because the block may call `pause`, `resume`, `close`;
between the split parts no other callback runs (`MainFree`). `request` is
`eventStreamRequest`: as in the code, callbacks only test that it is not nil. `Cancelled`
is the cancellation of a request that is still on the network; its outcome is delivered
later, and an answer may win the race. Soft logout counts as `UnknownToken`. The end of
`handleSyncResponse` and the removal of the initial sync cache when the store has been
committed are one step, and so are the profile request and the start of crypto.

`Orderly = TRUE` is an assumption on the application: it acts while the session waits for
the network, starts something new once the old is over, and does not leave cached
responses for a resume that finds a request on its way. `Orderly = FALSE` lets it act
between any two callbacks and inside its own blocks. `Interruptions` lets the system
cancel requests, and `Bursts` says which responses hold so many to-device events that the
session goes on catching up.

### DeviceList

The devices of a user are the position at which they changed last. `queue` is
`cryptoQueue` as far as order matters: blocks put there by the session and the delayed
success and failure blocks of a pool. `status` and `saved` are the tracking status in
memory and in the store. `latest` is `keyDownloadsInProgressByUser`. A pool's query is
`sent`, `answered` (the homeserver has read the devices, the client has not seen them) or
`dead` (cancelled in a way that never calls back). `Allowed` selects what may happen
besides the plain course; each run names its set. Malformed user ids, the validation of
each device and cross-signing trust are left out, and so is the cancellation of an operation
whose pool has already answered (its block is on the queue: the code drops its callback).

### MegolmEncryption

A session is an id and the index of its ratchet; a key is the index from which a device can
read, `keys[d][s]`. Every call, one per message and one for `ensureEncryptionInRoom`, works on
a copy of the session unarchived from the store, so that two calls under way at once see
different indices: `calls[c]` is what the blocks of a call have captured, with a `stage` that
says which callback comes next. `pending` is `pendingEncryptions`, `claiming` the devices of
`ensureOlmSessionsInProgress`, `shared` what the store keeps of whom a session was shared with.
`overlapped` remembers that calls were under way at once, `unmarked` the keys that were delivered by a
request whose answer was an error. The disturbances (`MaxEvents`) are changes of members,
failed requests, missing one-time keys, a discarded session, a cancelled message,
a reshare, a restart.

Abstractions: one room, one device per user; `processPendingEncryptions` is one step; a
cancellation in the device list that drops the callbacks is left out, as `DeviceList` covers it.

### OutgoingMessages

`ordered` is `orderedOperations`; `starting` the operations whose block has been dispatched to
the main queue; `stage[m]` how far that block has come (upload, encryption, request).
`echoes` is `outgoingMessages`, `timeline` the homeserver's order, `inFlight` the requests it may
still handle, which includes those whose answer was lost. A text is its body, because a local echo is
recognised by event id or else by content; `early` remembers the events that came with a
/sync before the answer to their request. Replies, redactions and state events take the same path.
`refreshOutgoingMessages` runs with the restart. A message that failed is sent again as a new message.

### Calls

One call, on the device of a caller and on each device of the user called. A device reads
the events of the signaling room in the order of the room (`inbox`), its own included, and
sends its own one after the other (`outbox`). `stack` is what the call stack is doing, `link` the party
to which the caller's stack is connected; `timer` is `inviteExpirationTimer`; `known` says whether
the manager still has the call. With `Encrypted`, an answer first ensures the encryption of the
room. The application is one without `call:didEncounterError:reason:`, so that errors hang up.
`hungUp` remembers that a user hung up, `overtaken` that an answer was read before the answer
to the request of the invite.
Left out: an invite that is too old when it is read, hold, transfer, candidates, conferences,
a second call, CallKit.

### BackgroundSync

`Feed` fixes what each position of the stream holds: a message, whether a key comes with it, and
where the key of the message is. `files` and `meta` are the response files and the metadata of
`MXSyncResponseFileStore`. Nothing locks them: the writing of a response, a deletion of one and each
write of the metadata are steps of their own, and each process may be killed between any two. A
response is written atomically (`MXSyncResponseFileStore.swift:130`), the metadata are not
(`:167`): a write of them is two steps, one that truncates the file (it is then read as empty
lists, 143-154) and one that writes it. `RemoveSyncResponse`, `ReadMetaData`, `AppTruncates` and
`DeleteSyncResponseId` are the four steps in which the session deletes a response. Reads that
follow each other without waiting for anything are one step, with the step they lead up to: the
metadata read by `addSyncResponseId` with the write of the response before it, which is a new file
that nobody lists yet. `app` is the session (in memory; `disk` is what its
store has committed), `bg` a run of the service. `acked` is the position the homeserver knows the device
to have, after which it forgets to-device messages. Three histories mark where the properties end:
`raced`, the service had a response or metadata to write while the session handled or deleted the
cache; `torn`, the service was killed between the truncation of the metadata and their content (in
the session's own deletion that loses nothing: what it deletes it has handled); `undone`, the
session wrote back metadata that the service had changed since it read them, or the service wrote
a response that the session had deleted, or wrote the metadata, or looked up where to go on, while
the session was writing them. `MergedAll`, the response that `mergedSyncResponse`
makes of a list, is stated in closed form instead of as the loop of the code; the theorem
`ResponsesAreFolded` says that the loop, with `Merged` as its body, gives the same.

Left out: account data (one more write of the metadata, of the same kind), push rules and profiles; rooms left and joined again; automatic acceptance of
invites; write failures; several instances of the service; the events cached in memory. The copy of
the session's crypto store that the service reads (`copy`) is made when the service resets.

### KeyBackup

The methods of `MXKeyBackup` call each other on `cryptoQueue`, so each is an operator on the record
`backup` (state, the version in memory, the version and the markers in the crypto store, timers,
requests), and the actions are what the queue is given: calls of the application, timers, answers.
Requests are a bag, processed and answered in any order. The homeserver (`created`, `live`,
`stored`) follows its API: a new version replaces the last, sending to another version is refused.
Another device may create, fill and delete versions; this one may delete any version, of which
only the one in use concerns its state. `Refused` are the keys for which `encryptGroupSession` returns
nothing (an imported key without claimed keys, say): `Body`, what a request has, is without them, and
the success block marks them with the rest of the chunk, as the code does.
`late` is the set of keys that came while others were being sent; `overtaken` remembers the answers
that came after what they were about had changed. `Orderly` says whether the application creates
versions as `MXRecoveryService` does, when the state allows it; the run keeps to it.

Left out: private keys, passphrases and the secrets behind them, invalid authentication data, the
observers of `backupAllGroupSessions`. `usable` only grows: `trustKeyBackupVersion` can also be called with
`trust:NO`, but nothing in the SDK calls it so; a device that is unverified again is left out too (the code calls
`checkAndStartKeyBackup`, which does nothing while the backup is enabled, so that it goes on with the version, and
`SentToItsVersion` says only that a version was trusted once). Requests the homeserver has not
processed when the process ends are dropped. `createKeyBackupVersion`'s change of state and the
block it dispatches are one step.

## Runs

| Run | Instance | Shows |
|---|---|---|
| `file_store` | 2 rooms, 3 positions, one outgoing message, one response at a time | `NoEventLost`, `NoGhostRoom`, `BackupBeforeWrite` with crashes between any two file operations |
| `file_store_overlap` | 1 room, 2 positions, an outbox that is empty or not (two live files in one block), responses stored while commits run | `DurableAtRest`, `CommitsAcceptedAgain` |
| `session_racy` | 2 passes, 2 positions, any application, interruptions, bursts | `NoSyncGap`, `PassesCovered` |
| `session_orderly` | 2 passes, 3 positions, 1 pause preventer, orderly application | `OneSyncLoop`, `PausedIsQuiet`, `NotStuck`, the refinement `ReadsTheStream`, `SyncEnds` |
| `device_list` | 2 users, 2 operations, 3 positions, unreachable servers, restarts | `Fresh`, `InProgressHasQuery`, `DownloadsEnd` |
| `device_all` | 2 users, 4 operations, 1 position, failures, cancellations, chunks, joins, departures, a reset session | `OperationsAsked`, `NextWaitsForCurrent` |
| `megolm` | 2 other devices, 2 messages, 4 sessions, 3 disturbances | no index is used twice (`NoIndexReuse`), no device that was not there reads a message (`NoLeak`), those that were there do (`Decryptable`), no message waits for ever (`EncryptionEnds`) |
| `outgoing` | 3 messages (one text body, reactions, media), 2 disturbances | `SentInOrder`, `EchoesSettled`, `QueueMoves` |
| `calls` | a caller, 2 devices of the user called, an encrypted room, 1 hang-up or failure | one device talks (`OneTalks`), a conversation is not missed (`NoLateExpiry`), nothing rings for ever and a hang-up ends the call everywhere (`CallsResolve`) |
| `background_sync` | 4 positions, a key that comes after the first message it opens, timelines of 1 message, 2 response files, 1 kill | the session's store has no gap it does not know of (`NoSilentGap`, unless `undone`), a room key stays somewhere until the session has it (`NoKeyLost`, unless `raced` or `torn`) |
| `key_backup` | 3 keys, one of which cannot be exported, two per request, 2 versions, 2 timers, 2 requests at a time, 2 calls, sends that may fail | marked keys that can be exported are in the version in use (`NoKeyForgotten`), a backup at rest waits for nothing and is complete (`ReadyIsUpToDate`, until an answer came too late), keys go only to the trusted version they are encrypted for (`SentToItsVersion`) |
| `key_backup_stuck` | 1 key, nothing fails but what the homeserver refuses | must fail: see Disagreements |

Each module has one type invariant, `TypeOK`, checked with the rest.

Bounds. Two rooms, because a commit interrupted between two rooms is the interesting case
and further rooms repeat it; three positions give a first sync, an incremental one and one
that overlaps. With overlapping commits the interesting case is two files of one block that
change at different times, and one room has two, its messages and its outgoing messages. Two passes are enough for every race of two callbacks; with three the
session module repeats the same races. Two users share a query and differ in its outcome;
three operations are one per pool and one in a delayed block, a fourth lets a caller join.
One position is enough where the property is about pools and not about versions.
Two messages and a call of `ensureEncryptionInRoom` give every overlap of two calls with a third that
joins; four sessions let a session be discarded or rotated by each disturbance. Three messages put one
between two others in the queue, so that its failure or cancellation can disturb the order. Two
devices that are called make one that talks and one that must not; one disturbance crosses it with
everything else. Four positions make two responses that merge and one that is limited, for a key that
comes between two messages; the constraint `Claimed` stops where neither `NoSilentGap` nor
`NoKeyLost` claims anything any more. Two versions make one that replaces the other; three keys, two
of them there at the start, with two per request make a full chunk, which is followed by another, and
one that is not, which ends the backup (`MXKeyBackup.m:324`), with a version change or a new key
between them; one of the first two is refused, so that a chunk is sent in part.
A bound on disturbances is spent by the environment only: what the code does of itself is never
blocked by one, except that `MaxSession`, `MaxTimers` and `MaxRequests` are guards, and
their instances are large enough for the cases named.

Fairness. `FileStore`: the dispatch queue runs its blocks and the main queue the blocks
dispatched to it. `SessionSync`: requests end, if only by the client's timeout, main queue
callbacks run, timers fire, and the network comes back; nothing is assumed of the
application or of the homeserver. `DeviceList`: `cryptoQueue` runs its blocks, and queries end;
in the run of `DownloadsEnd` failures are not allowed, so that this assumes that the homeserver answers
them (with a failure, a timeout included, the users stay in progress: see Disagreements). What it leaves
unanswered is the part of a query that concerns a user of an unreachable server. `MegolmEncryption`: the same for the requests of a call.
`OutgoingMessages`: the main queue runs its blocks, uploads, encryptions and requests end; every
wait is for one message. `Calls` and `KeyBackup` state what must eventually happen as safety at
rest (`AtRest`): when no timer, request, event or stack has anything left to do, nothing waits. In
`Calls` this is where the system's steps lead, as they have no cycle. In `KeyBackup` a send that goes
on failing is retried for ever, and the property says nothing of a backup that never rests.

Deadlock is not checked where the model may stop: a closed session, a device list or a cache that
has caught up with a stream at its bound, messages that are all sent, a call that is over, a
backup that is ready. `FileStore` is checked for it, as a store can always be opened again.

## Disagreements

One is kept as a run that must fail, with a finding in `PROJECT.json`:

- `key_backup_stuck`: a backup under way when its version is deleted fails, and the failure block of
  `sendKeyBackup` sets WILL BACK UP again whatever has happened since; the check that was to
  follow the deletion is not made, the timer finds no version, and the state says WILL BACK
  UP ("waiting a random duration", `MXKeyBackup.h:59`) with no timer, for ever.

Others were met by TLC on these modules, with the constants named, and are not kept as runs.

`FileStore`:

- One room, three positions, `Overlapping`, `NoEventLost`: `saveMetaData` archives the live
  metadata when its block runs (`MXFileStore.m:1615`), not the snapshot the comment at
  `MXFileStore.m:106` speaks of. A response stored before it runs has its token written before
  its messages, and a crash then loses them.
- `Overlapping`: a commit ignored with two pending (`MXFileStore.m:719`, "we are sure that it
  will be done on the second pass") when both have already taken their snapshots: the change
  waits for a later commit, or is lost to a crash together with its token, which is safe.
- `Overlapping`: `backupEventStreamToken` (`MXFileStore.m:1611`) set from a token newer than the
  metadata just written. The next process then finds a folder whose name is not the token of the
  metadata, and resets the store; so it does after a crash while a backup is being removed, with
  the metadata file gone from it first, `Overlapping` or not. Nothing is lost by a reset.
- `deleteRoom` (`MXFileStore.m:372-387`, `MXMemoryStore.m:102-115`) keeps the outgoing messages of the room, in
  memory and in `roomsToCommitForOutgoingMessages`, and `saveRoomsOutgoingMessages` (1497-1542), after
  the deletion, makes the folder anew with that one file, against "Erase a room and all related
  data." (`MXStore.h:115`). With `MXFileStorePreloadOptionRoomMessages`, which is not the default,
  `preloadRoomsMessages` (1218-1250) then finds a room without messages and resets the store.

`SessionSync`:

- `Orderly = FALSE`, `PausedIsQuiet`: a pause while `start` fetches the profile does not stop the
  initial `/sync` (`MXSession.m:883`).
- `Orderly` and `Interruptions`, `NotStuck`: a retry cancelled by the system in the state `SyncError`
  leaves the session in that state for good (`MXSession.m:1606`); `resume` does nothing either, as
  `eventStreamRequest` is set.
- A burst in the initial sync (`Bursts` with "initial"): the passes that follow keep the
  failure block of `start`, so a failure after the first response shows `InitialSyncFailed`;
  the next `start` finds a token and `eventStreamRequest` still set, does not resume and stays in
  `SyncInProgress`.
- Not orderly: `reconnect`'s own cancellation arrives when the new request is set, and
  `handleServerSyncError` pauses the session; a pass under way at `close` sets `Running` after
  it; the failure block of a background sync that has succeeded stays set and is called by
  a later failure (orderly too); a resume in the states `isResumable` allows breaks the
  assertion at `MXSession.m:1946`.
- `Interruptions` with a pause preventer: a session held by `retainPreventPause` stops on a
  cancelled request and shows `PauseRequested` with nothing running.

`DeviceList` (words in quotes are members of `Allowed`):

- "failure", one user, two operations, `InProgressHasQuery`: after a failed query the users stay
  `inProgress` (`MXDeviceListOperationsPool.m:306`), where the diagram at `MXDeviceList.h:41` goes
  back to `PENDING_DOWNLOAD`.
- "join", one user, four operations, `Fresh`: a caller that joins the current pool after a newer
  download was queued becomes the user's latest operation (`MXDeviceList.m:223`), against the comment
  at `MXDeviceList.m:113`, and the older answer marks the user up to date.
- "lag" with "crash": the session's token is durable before `cryptoQueue` has saved the
  invalidations it covers; after a restart outdated devices are up to date.
- "leave" with "crash": `stopTrackingDeviceList` is not saved by itself.
- "reset" with "crash": `onSyncCompleted` overwrites `deviceSyncToken` before the answer of
  `/keys/changes` from the old one has been handled.
- "cancel" with "chunk": a query in chunks whose last operation is cancelled never completes,
  and the next pool is never launched.

`MegolmEncryption`:

- `EncryptionEnds` without its clause on `Orphaned`: a call that fails because the claim of another
  call failed leaves its own claim of one-time keys without an observer; every later call for
  those devices waits for ever.
- Without `overlapped`: `cancelSendingOperation` lets the next message start while a share is under way, and
  two calls that restored the same session encrypt with the same index, or hand a leaver the
  session of a share begun before.
- The rotation after `sessionRotationPeriodMsgs` never happens: the use count is rebuilt with the session
  at each call. A share with no target is not recorded, so that a reshare is refused.

`OutgoingMessages`:

- An event that comes with a /sync before the answer to its request leaves its echo there until
  the next start (`MXRoom.m:554`); this is why `EchoesSettled` says `early`.
- A match by content may remove the echo of another message of the same text that failed.
- An operation cancelled while it waits is skipped without any callback. A media message that is
  cancelled keeps its echo or loses it according to the step that sees the cancellation.

`Calls`:

- A plain room, no disturbance: `onCallAnsweredElsewhere` and `onCallDeclinedElsewhere` leave
  `inviteExpirationTimer` running and `expireCallInvite` (`MXCall.m:1672`) looks at no state, so that a call
  answered elsewhere is reported as missed; a pause is then released twice.
- A callee that is ensuring the encryption when the invite expires goes from `Ended` back to
  `Connecting` (`MXCall.m:363`); so does a caller whose `select_answer` is sent after a hang-up
  (`MXCall.m:1202`), against "set the final state" at `MXCall.m:1710`. `Live` calls that are `over` are
  those, and `CallsResolve` leaves them out.
- An answer read before the answer to the request of the invite: the block of that request starts the
  timer in a conversation (`overtaken`).
- A reject of another device that comes late ends a call in conversation; the hang-up of this
  device, read back before its request is answered, ends the call twice; a hang-up while
  the local media are awaited may be followed by the invite.

`BackgroundSync`:

- Without `torn`: `saveMetaData` writes with `data.write(to:)`, not atomically. If the service is killed
  between the truncation and the content, `readMetaData` returns empty lists: the files of the responses are
  there and no list has them, with keys that the homeserver has been told of and has forgotten.
- Without `undone`: a response with a gap vanishes from the list, and its successor is handled
  without being marked as limited. The session reads the metadata, the service adds a response, the session
  writes the metadata back without it (`MXSyncResponseFileStore.swift:184`); or the service extends a file the session
  has deleted; or it writes or reads the metadata between the two steps of the session's write, and
  syncs from its own token what it has cached already. TLC finds such gaps when the exemption is dropped.
- Without `raced`: a response written while the session handles or deletes the cache may be deleted
  unread, with keys the homeserver has forgotten; metadata read before the deletion and written
  after it list a file that is gone.
- A kill between the writing of a response and the handling of its to-device events keeps the key
  in the cache but never gives it to `bgCryptoStore`.
- "If there is no cached sync responses, it means they have been consumed by MXSession"
  (`MXBackgroundSyncService.swift:623`): they may also have been marked as outdated.

`KeyBackup`:

- A failed `createKeyBackupVersion` leaves the state `Enabling`, where the diagram in the header goes to
  `DISABLED`.
- A key stored while a backup is under way stays unsaved in the state READY ("All keys have been
  backed up") until the next key is stored (`late`).
- `FirstKeys = {}`, `ReadyIsUpToDate`: a timer that finds nothing to send sets READY before the
  sanity check (`MXKeyBackup.m:243`), so that a backup whose version is being deleted is ready, and
  when the deletion is answered no check is made. The next key puts it in WILL BACK UP for good.
- An answer that comes after what it is about has changed is taken as it is (`overtaken`): a check
  resets a backup under way, a success marks keys that the new version does not have, and so does a
  restore from a version that is not trusted.
- A key that `encryptGroupSession` refuses is left out of the request (`MXKeyBackup.m:280-282`) and marked with the
  rest of the chunk (322), against "Mark inbound group sessions as backed up on the user homeserver."
  (`MXCryptoStore.h:399`): it is in no version and is not tried again. `NoKeyForgotten` leaves these keys out.
- A version deleted by another device (`OtherDeviceDeletes`) makes the backup retry every few seconds, for
  ever. A session replaced by a better one, with a lower index, stays marked.

## Proofs

A proof module has one invariant that is inductive, one lemma per action (or group of actions)
that says it is kept, and short theorems that combine them with PTL. The bounds (`MaxPos`,
`MaxMsg`, `MaxEvents`, ...) are arbitrary there: the only assumptions on them are the named
ones of the modules, which say that they are numbers and that constants differ.

### FileStoreProofs

`FileStoreTypeCorrect` (`TypeOK`) and `FilesAreLiveAtRest` (`DurableAtRest`) hold for every value of
the constants. For the first, commits that have finished are counted against those pending
(`Counted`), which bounds both. For the second, "nothing listed, nothing queued" says nothing of
the states before it; the invariant is `Flow`: every live file is listed, or queued so that the
last block that has it will write the live data, or on the disk as it is (`Delivery`). It needs
that a room whose files are to be deleted is never read again (`Deletions`, which is why tokens
must be known to grow), that the state listed is the live state (`StateListed`) and what is in the
hands of the first block (`Writing`). The outgoing messages of a room that was left are the one
exception, in the property and in the invariant: their live store outlives their file.

With `Overlapping` false, `OldContentIsBackedUp` proves `BackupBeforeWrite`, which TLC refutes with
`Overlapping` true (the label of the backups is then newer than what is in them: the third item
under Disagreements). The invariant is `Structure`: while a commit runs the live data stand still,
so the operation queued for a file is the one its live content calls for (`QueueFits`, `OpFor`),
each file is in one block, in the order of `saveDataToFiles`, and backups bear the token of the
files on the disk until the metadata is written (`Named`, `BackedUp`). The outgoing messages are
again the exception: one commit may move their file away with the folder of the room and write it anew.

With `Overlapping` and `CrashInWipe` false, `NothingLost` and `NoGhosts` prove `NoEventLost` and
`NoGhostRoom`, for the messages and the state of the rooms. `Sound` is added: the live data fit the live token, a file in a backup fits the
token in the name of its folder, and a file on the disk fits the token the next process would
find beside it (`Fits`). The two assumptions cannot be dropped: the first item of Disagreements is
a run that loses events with `Overlapping`, and a crash inside `deleteAllData` may leave metadata
without the rooms. The code guarantees neither; they say when the store is safe.

### SessionSyncProofs

`TypeOK` (`TypeCorrect`), `NoSyncGap` (`NoGap`) and `PassesCovered` (`Covered`) of `SessionSync`, for any
length of stream, any number of racing passes and of pause preventers. `NoSyncGap` alone is not inductive: handling a response moves the
token to the response's end, and the store is then without a gap only if the response began at a
position the store had already reached. The inductive invariant is therefore
`Inv == TypeOK /\ NoSyncGap /\ PassesCovered`, the last saying exactly that of every pass under way and
of every cached response. The argument: only `EndHandling` and `HandleCached`
change the store, and their cases (in `HandleKeepsInv` and `StartupKeepsInv`) use `PassesCovered`
directly; for every other action `FramedStep` reduces the goal to the well-formedness of three
groups of variables (`StreamGood`, `BlocksGood`, `CachesGood`), which the lemmas on `pause`,
`resume`, `serverSync` and the cache give.

For an application that waits for quiet moments (`Orderly`), `OneLoopRuns` proves `OneSyncLoop`,
`PausedStaysQuiet` proves `PausedIsQuiet`, and `ImplementsReader` that every step is a step of
`StreamReader` or leaves it alone: the safety part of `ReadsTheStream`. That there is one pass at
most says nothing of why the next will be alone; the invariant `OrderlyInv` adds that the request the
session remembers is that of the pass (`WhoseRequest`), that its state tells what is under way
(`StateFits`), and for the refinement that what a pass brings begins at the token (`InStep`) and
that nothing but the start takes the cached first response (`CacheAwaits`).

`NeverStuck` proves `NotStuck` under two more assumptions: no `Interruptions`, and no burst in the
initial sync. It adds `GoesOn`: a retry is waited for in the states that announce one, and passes made by
`start` end with it. Both assumptions exclude behaviours in which the code does get stuck: see
Disagreements. That a store has no token while a pass of `start` is under way is part of the
invariant; a start that fails after its first response breaks it, for it finds a token and an old
request and resumes nothing.

### DeviceListProofs

`TypeOK`, `OperationsAsked` and `NextWaitsForCurrent` of `DeviceList` (`DeviceTypeCorrect`,
`PoolAsksForItsOperations`, `NextPoolIsBehindAnother`), for any sets of users and operations, and
whatever is in `Allowed`. The three are inductive together:
`OperationsAsked` survives a join because `downloadKeys` lets an operation into the current pool only
if its users are among those of the operations there already, which are asked for; it survives the
launch of the next pool because the query is made for the users of that pool's operations.
`DownloadKeysIsGood` and `CompleteIsGood` are these two facts, and every action that goes through them
cites them.

`DownloadsHaveQueries` proves `InProgressHasQuery` if no query fails or is cancelled: the code leaves
the users of those in progress and looks no further. The invariant `AskedFor` adds that a
pool without a query has no operation (`PoolsIdle`).

`UpToDateIsFresh` proves `Fresh` if `Allowed` has none of "join", "leave", "lag" and "reset"
(`Undisturbed`): failures, cancellations, queries in chunks, unreachable homeservers and crashes may
happen. With the first two the code is wrong, and with the others a crash takes the store back behind
the token (see Disagreements). What makes a mark fresh is where it came from: a user whose last
change is not in what a query may bring is not marked by it. So the invariant `FreshInv` follows a
change: from the answer of `/keys/changes` to the queue (`QueueShape`), from the queue to the query that
is made for it, which is behind any older one (`DownloadKeysAsksAnew`), to its answer and to the block
that marks (`AnswerFresh`, `BlockFresh`), and the same for what the next process will read
(`SavedFresh`, `SavedSoon`).

### MegolmProofs

`TypeOK` (`MegolmTypeCorrect`), `NoIndexReuse`, `NoLeak` and `Decryptable` of `MegolmEncryption`. The invariant
has three layers. Whatever calls are under way, sessions are numbered as they are created, a
device has a key only if that was recorded or the request failed (`Given`), and a call that is
ready has shared with its devices (`Sharing`). Unless two encryptions have been under way at once,
the ratchet of the call that encrypts, and the stored one when the session is the same, are ahead
of every message encrypted and of every key shared (`Ratchets`). Unless any two calls have been, only
one can give a session to anybody, so a device that is not among those of a call has no key
from before it (`Private`). `NoIndexReuse` alone is not inductive: a copy of the session captured
by a call says nothing of the messages encrypted since. `TypeOK` needs the count of messages
(`Count`), as the index of a ratchet is bounded by the messages handed over.
An earlier form of `Decryptable` had no clause on overlapping encryptions; the proof did not go
through, and TLC then found with four messages that two overlapping encryptions put the ratchet
back, so that the next message has an index from before a key that was shared meanwhile.

### OutgoingProofs

`SentInOrder` of `OutgoingMessages` (`MessagesSentInOrder`). Only the first of the queue runs (`FirstRuns`), the
queue is in the order of the calls (`QueueInOrder`), and when the request of a message leaves, every
earlier message has ended for good (`EarlierEnded`) unless it was cancelled, so that what comes to
the room later is later (`RoomInOrder`). A request whose answer was lost may still reach the room,
but the application was not told it was sent (`ToldInRoom`).

`TypeOK` and `EchoesSettled` (`OutgoingTypeCorrect`, `EchoesAreSettled`) need `EchoInv` beside that invariant: a
message has at most one echo (`OneEach`); the application is told at the end of an operation, and
an event of the live stream that comes before is noted as early (`ToldAtTheEnd`); the echo of a message
that was sent is recognised by its event id (`EchoesOfSent`); that of one that failed is kept where
no other message has the same content (`EchoesOfFailed`). What a restart leaves is the queue in its order
without the echoes that were sent: that there is one increasing enumeration of any set of its
positions is shown by a minimal counterexample, with no induction (`AscendingExists`, `AscendingFacts`).

### CallsProofs

`TypeOK`, `OneTalks` and `NoLateExpiry` of `Calls` (`CallsTypeCorrect`, `OnlyOneTalks`, `NoConversationExpires`), for
any number of devices. A callee in conversation is the one to which the caller's stack is linked
(`ConnectedByLink`), as at most one `select_answer` for an answer is ever on its way (`OneSelected`).
The timer of the caller is stopped or its call is over once an answer is selected, unless that
came before the answer to the invite's own request (`TimerAccounted`); this needs that no callee knows of
the call before the invite leaves (`QuietBefore`, `InviteFirst`). Each action changes one device by a
`Steady` step, and does to the caller's queue one of six things; the conjuncts of the invariant
are shown of these kinds of step, not of each action again.

`CallsAreResolved` proves `CallsResolve`. `AtRest` spells out that no step of `System` can be taken, guard by
guard, and not with ENABLED, of which TLAPS proves nothing; TLC found the two the same in every
state of the instance of `calls`, in a check that is not kept as a run. Beside the invariant above it takes `Resolving`:

- a call on its way out (`Ending`) is over or has what ends it in its outbox, and stays so; hangupWithReason
  sends nothing only when the call is `Ended`, which is over (`Begun`);
- a callee that is not in conversation has its timer on (`Timed`), and a device that has not been
  called is idle, with nothing to read but the invite and what follows it (`New`);
- something takes the caller to its next state: the stack, the invite in its outbox, the timer, the
  `select_answer` in its outbox, the connection (`OnItsWay`);
- the answer of a callee is in its outbox or in the caller's inbox until the caller has taken one, or
  leaves (`Followed`). For that the caller's manager must have the call when an answer or a hang-up
  comes: the invite comes to all callees at once, and to none before it is in the timeline (`Uncalled`, `Called`);
- after a hang-up each device is on its way out or has the hang-up to read, or else the caller is.

A step of one device keeps it if the device `Goes`, which is shown of each action; only
`HomeserverAccepts` changes the inboxes of several devices, and is shown of the event that it takes (`Takes`).

### BackgroundSyncProofs

`TypeOK`, `NoSilentGap` and `NoKeyLost` of `BackgroundSync` (`TypeCorrect`, `GapsAreRecorded`, `KeysAreKept`)
for any stream, limit of a timeline, number of response files and of kills. The assumption is that of
the module: the key of a message is at a position of the stream that has one, and `Chunks` is finite.

- `TypeInv`: no token is ahead of the homeserver (`Bounded`); a response that is to be registered is
  in no list yet (`Unlisted`), and one that the session is deleting is at the head of what it has
  to delete (`Deleting`), which keeps each listed once although the metadata is read and written
  back in separate steps.
- `GapInv`, beside the types, for `NoSilentGap`, holds until `undone`. There are up to three lists:
  those in the metadata file, those the session is about to write back and those the service is.
  `Follows` says of metadata, wherever they are, that what can be read of their list is its end
  and has no gap, and `InFile` applies it to the file and to what the session is writing into it; what
  the session has read starts at its token (`ToRead`). Metadata that the service writes back
  may list what the session has deleted meanwhile, but the session deletes in the order of the lists
  (`ToDelete`, `Behind`), so that only the beginning is missing. A response about to be written continues the last
  one that is listed, or the file it is merged with (`ToWrite`).
- `KeyInv`, for `NoKeyLost`, holds until `raced` or `torn`: keys below any token that somebody has are in the
  crypto store or in a file that is listed, in the metadata file or in what is about to be written into
  it (`Known`, `Tokens`), what the service is about to write adds to them (`Written`), and what
  the session is about to delete it has handled (`HandledSoFar`).

None of the three histories can be forgotten (`HistoryStep`), so that a step that does not set one
may assume that it was not set before.

`ResponsesAreFolded` is about the closed form of `MergedAll`. Its lemmas also say what `RemoveFirst`, the
last response of a list, and the first and last of a set of numbers are (`RemoveFirstFacts`, `ListFacts`,
`LeastIn`, `GreatestIn`).

### KeyBackupProofs

`TypeOK`, `SentToItsVersion`, `NoKeyForgotten` and `ReadyIsUpToDate` of `KeyBackup` (`KeyBackupTypeCorrect`,
`KeysSentToTheirVersion`, `NoMarkedKeyForgotten`, `RestingIsUpToDate`), the first three for an orderly
application or not. Each method takes the record `backup` to
another one; `Fits` says of a record that its requests are about versions that exist, that a
request to send is for the version its keys are encrypted for, which is trusted, and that what
a request was answered is true of the homeserver. Each method is shown to keep it, and so
is the homeserver's growth. `Marks` (marked keys, without those that are refused, are in the version of
the crypto store) holds until an answer to a send or a restore came too late (`MarksFit`).

`ReadyIsUpToDate` speaks of a backup at rest; its invariant `RestFits` of one that is not. Both say nothing
after an answer that came too late (`overtaken`): `key_backup_stuck` is what may happen then. What the
state announces is under way (`Going`): a check, a request to send, a timer. A key that is not
marked is in a request, or in a chunk that is full and so followed by another, or a timer
runs (`Covers`). An enabled backup has its version and key, and one that is not has no timer
left for a version of the crypto store it has not looked for (`Keyed`): this is what makes the sanity
check of `sendKeyBackup` never leave WILL BACK UP behind. Two assumptions: the application is
`Orderly` (one that creates a version while a backup is under way may have a key that nobody sends, if
the creation fails), and `FirstKeys` is not empty: see Disagreements.

### Only model-checked

Liveness is beyond TLAPS: `CommitsAcceptedAgain`, `SyncEnds`, `DownloadsEnd`, `EncryptionEnds` and
`QueueMoves`. Every invariant of a passing run is proved. The refinement `ReadsTheStream` is checked with its fairness, and proved without it.

## Plan

1. Done: the store, the session and the device lists; the Megolm encryption of a room and the queue
   that feeds it; calls; the background sync service and its cache; the key backup.
2. Proofs: those of the safety properties are done; next are the in-order channel and the
   checkpoint store of 4.
3. Modules that could follow: key verification between two parties; the state machine of room key
   requests; pending events of the decryption; pagination of a timeline.
4. Abstract specifications: an atomic checkpoint store that `FileStore` implements when
   `Overlapping` is false; an in-order channel that `OutgoingMessages` implements.

## Not modelled

Every component is listed in `PROJECT.json` with its status and the reason. Requests and parsing
(`MXRestClient`, JSON models), platform I/O (CallKit, audio, logging), databases (Realm, Core Data)
and cryptography (libolm) are external to these models. Push rules, aggregations, threads and
summaries are data derived from the events of a room by functions without a history of their own;
identity, third party ids, secret storage and cross-signing are short chains of requests. Key
verification, room key requests, decryption, spaces and media keep state of their own and are not
written.

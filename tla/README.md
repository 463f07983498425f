# A verification project for MiyooFin

MiyooFin is a Jellyfin client for a handheld (C++17, SDL). Its own code is under `src/` of the
repository; paths below are relative to that directory. This project keeps TLA+ models of its
concurrent and durable parts, TLC runs over small instances of them, and TLAPS proofs of what holds
for every instance.

## 1. Inventory

| Component | State | Operations | Interacts with | Hard behaviour | Correct when |
|---|---|---|---|---|---|
| Downloads: manager (`download/DownloadManager.cpp`) | items, owed work, busy counts, load state, all under `m_mutex` | enqueue, pause, resume, redownload, erase, configure, snapshot, flush | UI threads call it; storage, transfer, reconciler and planner threads share its state | disk work outside the lock; failures retried; account switches in the middle | what the user did is durable, nothing comes back, nothing is lost |
| Downloads: store (`download/DownloadStore.cpp`) | manifests, index, segment files, root marker | readLibrary, saveManifest, saveIndex, createIndexExclusive, removeItem, removePartialBytes, reconcile | called by the storage thread and the transfer | crashes between files, storage that is not there, damaged files | a library that cannot be read is never taken for an empty one |
| Downloads: transfer worker (`DownloadManagerTransfer.cpp`) | the transfer in progress | playlist, segments, validation, completion | items under `m_mutex`, segment files | pause, delete, account change and source change while it runs | bytes of one source only; complete means validated |
| Downloads: reconciler (`DownloadManagerReconcileWorker.cpp`) | the ids of its pass | check each item's source at the server | items, removals | its snapshot is old when it acts | an item never mixes two sources |
| Downloads: planner (`DownloadManagerPlanning.cpp`) | plan jobs and plans | enqueue, cancel, confirm a plan | library coordinator | results of a superseded generation | a plan belongs to the account that asked |
| Library coordinator (`library/LibraryCoordinator*.cpp`) | one atomic operation slot, requests and results, catalog generation | startup, population, safety reconcile, live changes, hierarchy | LibrarySync, CatalogDb, Home screen | five workers compete for the slot; results outlive it; cancellation | one mutation at a time, generations only grow, no request starves |
| Library sync (`library/LibrarySync*.cpp`) | sync cursor, staged pages | incremental and full passes | HTTP, CatalogDb | interrupted passes | a pass is committed whole or not at all |
| Catalog database (`catalog/CatalogDb*.cpp`) | command queues, scope and epoch, SQLite file | one worker thread runs commands | every reader and writer of the catalog | bounded queues, scope changes, shutdown with commands queued, migration | every promise is fulfilled once; nothing is written to another account's file |
| Live events (`net/JellyfinLibraryEvent*.cpp`) | bounded coalescing queue, overflow flag | push, pop, mark catch-up | socket thread, coordinator | overflow, lost connection | a lost event always leads to a catch-up |
| Watched outbox (`net/WatchedSync.cpp`) | pending file | enqueue, send, forget | UI and sender thread, server | crash, account switch, change of mind in flight | the last choice for an item reaches the server |
| Session, routes, HTTP, API (`net/`) | session, last route | requests with LAN then public route | all network users | fall-back | one answer per request |
| Offline playback journal (`playback/OfflinePlaybackJournal.cpp`, `app/AppPlayback.cpp`) | journal file, result file | ingest, sync, discard | UI, sync thread, server | two writers of one file, crash after a push | a position is pushed at most once and never silently dropped |
| Music player (`music/MusicPlayer.cpp`) | queue, play state, engine process, fetch and report jobs | controls, poll | UI, two worker threads, engine process | late fetches, dead engine | what plays is the current track |
| Music downloads and plays (`music/MusicDownloads.cpp`, `music/PlaysJournal.cpp`) | wanted set and queue files, plays file | add, remove, flush | UI, worker, report thread | the journal's limit, failures | a play is reported once |
| Screens (`ui/`), screen stack (`app/ScreenStack.cpp`), worker slots (`ui/WorkerSlot.hpp`) | screens, one background run each | push, pop, retire; start, cancel, reap, join | SDL thread, workers | a screen leaves while its worker runs | no worker outlives its screen |
| Image cache (`cache/ImageCache.cpp`) | image files | read, write, janitor | artwork workers | files written in place | the cap holds, a reader gets whole files |
| Telemetry (`diagnostics/TelemetryRing.hpp`, service, writer) | lock-free ring, counters | enqueue by any thread, dequeue by one | all threads | 32-bit wrap, stalled producers | records are neither duplicated nor torn |
| Updater (`update/UpdateInstaller.cpp`, `UpdateManager.cpp`) | application files, backup, staging | install, roll back | a worker, the UI, the file system | failure and crash between two files | one release is installed, never a mixture |
| Application shell, input, image decoding, data, player engine, tools | | | | | not protocols; see section 7 |

`PROJECT.json` lists the same components with their sources and status, and the hazards at their
lines.

## 2. Plan and where it stands

Order: what a user can lose first.

| Step | Modules | State |
|---|---|---|
| Downloads on disk, and every thread that touches them | `DownloadStorage` | checked; types and the busy count proved, and for one account what the disk holds |
| The library: slot, cold start, live changes, checkpoint, hierarchy requests, and Home as their client | `LiveEvents`, `LibraryCoordinator`, `Filtering`, `LibraryHierarchy`, `HomeLibrary` | checked; all its safety properties proved: types, the slot (one owner, never lost), the open sync, the cold-start demand and its order, no change lost |
| Outboxes: what the user did and the server has to hear | `OutboxSession`, `Filtering`, `WatchedOutbox`, `PlaybackOutbox`, `Outboxes` | checked; all its safety properties proved: types, the account pairing, the latest choice, the kept position |
| Over-the-air update, and the transaction it promises | `UpdateFiles`, `UpdateTransaction`, `Updater` | checked; types, two invariants, one action property and the refinement proved |
| The catalog database: scope, queues, opening and migration, the walk and what it commits | `CatalogDb` | checked; types, five safety properties proved |
| The catalog's hierarchy writes, series reconcile and seed | | not done (section 7) |
| The inside of one transfer, the music player, the telemetry ring | | not done (section 7) |

Composition: `HomeLibrary` extends `LibraryHierarchy`, that `LibraryCoordinator`, that `LiveEvents`: one
state, one thread per module. `Outboxes` extends both outboxes, which share `OutboxSession`: one main
thread and one account. `LibraryHierarchy` and `WatchedOutbox` share the operator of `Filtering`, what an
erase-remove loop leaves of a list; it is a recursive function and not `SelectSeq`, of which the provers
know nothing. `Updater` and `UpdateTransaction` share `UpdateFiles`; `Updater` implements
`UpdateTransaction`. `CatalogDb` is the inside of what one worker of `LibraryCoordinator` takes for a
step: there a call of the catalog is atomic, here it is queued, refused, retried and answered, and the
account changes under it. The other compositions and `DownloadStorage` share no state in the code that
one changes and the other reads, except the account, which each has in its own way.

## 3. Model and code

### 3.1 DownloadStorage

Memory is the authority. Interface threads change `m_items` under `m_mutex` and request disk work;
one storage thread (`persisterLoop`) takes everything owed in one swap and runs a pass in a fixed
order, releasing the mutex for every disk operation.

| Model | Code |
|---|---|
| `scope`, `items`, `loading`, `fresh`, `lateScan`, `indexedIds`, `deleteRequested` | `m_scope`, `m_items` (with `counted`: whether `hlsSegmentCount` is known), `m_loading`, `m_scopeFresh`, `m_lateScanOwed`, `m_indexedIds`, `m_deleteRequested` |
| `owed` | `m_storageFinalWrites`, `m_storageRemovals`, `m_indexPatches`, `m_asyncPersistIds`, `m_rescanIds`, `m_rescanAllDue`, `m_asyncIndexDue`, `m_storageLoads` |
| `busy` | `m_storageBusy` |
| `p` | the local variables of one pass of `persisterLoop`; `p.current` and `p.load` say whether the generation and the load token it holds are still the current ones |
| `job` | the disk operation the storage thread is between the two critical sections of |
| `xfer`, `reconciled` | the transfer worker's locals; the reconciler's `changed` list |
| `manifest`, `index`, `bytes` | `manifest` files, the index file, segment files, per account and id |
| `away` | storage that was not mounted at start-up |
| `library`, `forgotten`, `leftover` | history: what the user put in and did not erase; the deletions of running transfers that a change of session dropped; the ids whose files outlived the removal of the item |
| `used` | what has been consumed of the four bounds |

An action is one critical section together with the disk operation before it. That is sound for
manifests and the index because only the storage thread writes them. Reads of segment files
(`RescanRead`), which the transfer writes too, are steps of their own; so are all steps of the
transfer between which something can happen to it.

| Stage | Actions | Code (`DownloadManager.cpp` unless said) |
|---|---|---|
| requests | `Configure`, `Enqueue`, `Pause`, `Resume`, `Redownload`, `EraseRunning`, `Erase` | 80-126, 813-942 |
| reconciler | `ReconcileChanged`, `ReconcileEnd` | `DownloadManagerReconcileWorker.cpp` 64-128 |
| transfer | `TransferStart`, `TransferDiscover`, `TransferSegment`, `TransferValidate`, `TransferEnd` with its seven outcomes | `DownloadManagerTransfer.cpp` 246-366, 438-813 |
| take work | `TakeWork` | 606-651 |
| 1 final writes | `FinalBegin`, `FinalManifest`, `FinalIndex` | 652-681 |
| 2 removals | `RemoveBytes`, `RemoveManifest` (`RemovalDone`, `HoldBack`) | 531-561, 682-694, `DownloadStore.cpp` 806-884 |
| 3 other accounts' index | `PatchIndex` | 697-712, 231-250 |
| 4 loads | `TakeLoads`, `RunLoad` | 714-729, 131-227 |
| 5 rescans | `RescanCopy`, `RescanRead`, `RescanMerge` | 565-604 |
| 6 manifests | `PersistCopy`, `PersistWrite` | 387-426 |
| 7 index | `IndexCopy`, `IndexWrite`, `IndexLook`, `IndexCreate`, `IndexLateScan` | 428-526, `DownloadStore.cpp` 419-459 |
| end | `EndPass` | 749-781 |
| environment | `Reappear` (storage is mounted), `Crash` | |

The removal of a whole item (`removeItem()`) is modelled as it is: it looks for the segments the manifest on disk
counts, none if the item was never written since its playlist was read (`Counted`), does not mind what it
cannot unlink, and succeeds once the manifest is gone. What stays is in `leftover` until a later removal
takes it. The removal of the bytes alone (`removePartialBytes()`) lists the folder and reports failures.

Abstractions: a download has one segment (a manifest that counts too few of them is one that counts none);
a source is one value (media source id and etag);
the states `WaitingForNetwork`, `Unauthorized` and `Failed` are one (`Failed`); finals and removals
are queued per account, and per account and id, because the code never compares their order across
those keys; the generation and the load token are only compared with the current values, so a flag
that a change lowers stands for each. Back-off, the wait of `flushPersistence`, playback pauses and
error texts are left out: they delay work and decide nothing about it; so is `m_segmentsVerified`, which saves a
read of the files. A failing write leaves the old
file (temporary file and rename), a failing exclusive creation may leave a damaged index, a failing
removal may have removed the manifest.

### 3.2 LiveEvents, LibraryCoordinator, LibraryHierarchy, HomeLibrary

Everything that changes the catalog of one account passes through `LibraryCoordinator`. Five threads
(startup, population, safety, live, hierarchy) compete for one slot; Home's fetch thread asks for the
first two and waits, Home's interface thread takes what the others publish.

| Model | Code (`library/` unless said) |
|---|---|
| `op` | `m_operationState`: kind and phase of the slot |
| `seq` | the cold-start sequence: `m_startupSequenceReserved`, `Claimed`, `Handoff`, the owner's token, the demand that defers live work |
| `offline`, `stopped`, `gen` | `m_manualOfflineMode`, `m_stopped`, `m_catalogGeneration` |
| `disk` | the stored checkpoint: which times are known, and its generation |
| `txn` | the worker whose top-level sync the catalog has open |
| `missed`, `hidden`, `excused` | the catalog, as what it lacks: items whose last change it has not; of these the ones a catch-up will not find; history of the changes nobody could queue |
| `source`, `queue`, `batch`, `barrier` | the event queue of `LibrarySync`, that of the live worker, what it works on, `m_liveChangeDrainPendingCatchUp` |
| `run`, `cancelled` | each worker's locals and its cancellation token |
| `startup`, `updates`, `ready` | the retained results |
| `hier` | the hierarchy worker with its own mutex: queue, active request, accepted, tokens, results |
| `fetch`, `home` | `HomeLibraryController`'s fetch thread; the flags of `HomeScreen` |

| Actions | Code |
|---|---|
| `RequestStartup`, `RequestPopulation`, `RequestSafety`, `Admitted`, `Launch` | the `request*` functions and `serializedOperationAdmittedLocked()`; `start*Sync()` joins the previous thread first (`run.pc = "join"`) |
| `ReadStartup` ... `CatchUpMark`, `WalkBegin` ... `WalkMark` | the startup policy, `LibrarySync`'s catch-up and authoritative walk, one call of the catalog or the server at a time |
| `LiveDrain`, `LiveClaim`, `LiveGet`, `LivePut`, `LivePublish` | `LibraryCoordinatorLive.cpp` |
| `GiveUp` | a failure, or a cancellation seen, between any two of those calls |
| `Publish*`, `Take*` | publication under `m_startupMutex`, and Home's takes |
| `HierarchyTake` ... `HierarchyEnd`, `TakeHierarchy`, `CancelHierarchyRequest` | `LibraryCoordinatorHierarchy.cpp` |
| `Fetch*`, `ApplyFetch`, `ToggleOffline`, `CloseBegin`, `CloseEnd`, ... | `ui/screens/HomeLibraryController.cpp`, `HomeScreen*.cpp` |
| `ServerChange`, `SocketDown`, `SocketUp` | the server and `net/JellyfinLibraryEventSocket.cpp` |

A step of a worker is one call of `LibrarySync` or one statement of the catalog: the database's own
thread runs statements one by one and the worker waits for each, so nothing can come between the parts
of one. A failing call costs one of `MaxFaults`.

### 3.3 OutboxSession, WatchedOutbox, PlaybackOutbox, Outboxes

| Model | Code |
|---|---|
| `session`, `main` | `App::m_session`; what the main thread is in the middle of (one thing at a time) |
| `pending`, `path`, `holder`, `nudge`, `courier` | `watched-pending.txt` per account; `m_path`, `m_session`, `m_nudge` of `WatchedSync`; its thread with the change in flight |
| `journal`, `result` | `playback-journal.v1` per account; `playback-result.txt` |
| `syncer`, `wake`, `failed` | the journal's thread, `m_journalWake`, `m_journalFailures > 0` |
| `discarded` | the copy `discardMissing()` is about to write |
| `watched`, `position` | the server |
| `choice`, `owed`, `excused` | history: the user's last choice; the positions somebody still has to hear of; choices the server refused or the card lost or did not take |

| Actions | Code |
|---|---|
| `Enqueue`, `Configured`, `Look`, `Woken`, `Send`, `Answered` | `net/WatchedSync.cpp` 14-182 |
| `Play`, `Ingest` | `app/AppPlayback.cpp` 78-120, 200-349, with the two screens that read the result and the runner script that starts the player |
| `Nudged`, `Rested`, `SyncBegin` ... `SyncEnd` | `app/AppPlayback.cpp` 122-199, `playback/OfflinePlaybackJournal.cpp` 158-194 |
| `DiscardRead`, `DiscardWrite` | `ui/screens/HomeScreenDownloads.cpp` 29, `OfflinePlaybackJournal.cpp` 81-145 |
| `SignIn`, `GoToHome`, `Logout`, `SignedOut` | `app/App.cpp`, `AppSession.cpp`, `AppMode.cpp` |
| `Crash` | a kill at any step: files and server stay |

The watched queue is written as the code writes it: `storeTo()` looks at the stream before its buffer
reaches the card and renames in any case, so a card that is full leaves the queue of before, or the first
of the new entries, or none (`Storable`); `loadFrom()` takes a queue it cannot read for an empty one
(`Readable`). The choices such a failure loses are in `excused`, and only those (`Missing`). The journal is
flushed before its rename, so it is saved whole or not at all; one that cannot be read is not
written over.

Assumptions: a request the client gave up on is not carried out by the server later; a crash is the end of the
program, not of the power, so what was written before a rename is in the file; the session is copied without its mutex (`AppPlayback.cpp` 145), so
`SyncBegin` and `SyncLoad` are two steps; logging out waits for the mutex the sync holds during its
requests (`MutexFree`). `PositionKept` does not hold an entry against the code when the write of the
journal failed or the journal could not be read (`AppPlayback.cpp` 99-100 drops it all the same) or when the result was another account's.

### 3.4 UpdateFiles, UpdateTransaction, Updater

| Model | Code (`update/`) |
|---|---|
| `app` | the application folder, file by file, as the release each is of; numbered by `planPriority()`, the binary last |
| `durable` | what a power cut may leave of each: a rename is certain once its folder has been synced |
| `syncs` | whether the card's file system can sync a folder; if not, `fsyncDir()` succeeds all the same and every rename of the installation stays uncertain |
| `part`, `server`, `version` | partial archives in `update-download/`; the release on offer; `VERSION_STR` |
| `worker` | the thread of `UpdateManager`, with the locals of `installUpdate()`: `done`, `saved`, `failed` |
| `snapshot`, `shown`, `cancelled`, `confirm`, `closing` | `m_snapshot`, the copy of the last frame, `m_cancelled`, `m_confirmInstall`, a destructor in its join |
| `asked`, `broken` | history: confirmed since this check; an undo step failed, or a cut took back a rename on a card that cannot sync a folder |

| Actions | Code |
|---|---|
| `CheckForUpdates`, `ConfirmInstall`, `Close`, `Closed`, `Frame` | `UpdateManager.cpp` and its row in Settings |
| `Start`, `Fetch`, `AwaitConfirmation`, `DownloadBegin`, `Transfer`, `Verify` | `UpdateManager.cpp` 268-527, `net/HttpClient.cpp` 616-788 |
| `StageArchive`, `BackUpFiles`, `Replace`, `SyncFolder`, `Undo`, `Undone`, `RemoveArchive`, `Exit` | `UpdateInstaller.cpp` 526-753, `UpdateInstallPlan.cpp` 172-246 |
| `Cut` | power fails at any step; each file is one of `durable` |

`UpdateTransaction` is what the user is promised: all files of the release or all of before, and the
program says which; a cut leaves the first files of the plan replaced, never later ones alone
(`PowerCut`); a failed roll-back ends the promise, and so does a cut on a card that cannot sync a folder
(`CutScatters`). `Updater` implements it under
`files <- Before, open <- Installing, told <- Told, whole <- ~broken, keeps <- syncs`, where `Before` undoes in
thought what the installation under way has replaced. The refinement is checked (`AllOrNothing`) and
proved (`InstallsAsTransaction`).

Abstractions: an invalid manifest, a minimum version and a wrong checksum are failures that may occur;
the developer's local archive, `update-applied.json`, `m_done` and the second press that arms the
confirmation are left out; a published release is not withdrawn. Where a folder can be synced, that
sync is assumed to make the rename durable.

### 3.5 CatalogDb

One worker thread owns the SQLite connection. Callers put a command into one of several queues and wait
for its answer; a change of account raises an epoch and leaves a scope command, which the worker takes
before anything else and forgets when the epoch has moved on.

| Model | Code (`catalog/` unless said) |
|---|---|
| `requested`, `scopeCommands` | `m_requestedEpoch`, `m_requestedScopeKey`; `m_scopeCommands` |
| `ready`, `db` | `m_scopeConfigured` and `m_scopeReady`, which change together; `m_db` |
| `active`, `staged` | `m_activeTopLevelSyncGeneration`; the TEMP tables of the connection, which a crash or a close empties |
| `queue`, `call` | the queues modelled (queries, checkpoint, media pages, page writes, top-level sync) in the order the worker looks at them; each caller's command and its answer |
| `worker` | the thread, with the command or the scope it is at work on |
| `walk` | the coordinator's thread of a catch-up and an authoritative walk (`library/LibraryCoordinatorMaintenance.cpp` 58-200, `LibrarySyncIncremental.cpp`), with the generations that outlive it |
| `file` | per account: schema version, whether its rows have sort keys, the `.migrating` twin, the pages of its library with the walk each came from, the checkpoint and the last walk it dates |
| `ui` | the main thread: signed out, signed in, stopping the coordinator, destroying the database |
| `owners`, `used` | history: whose each epoch was; what has been consumed of the bounds |

| Actions | Code |
|---|---|
| `ConfigureScope`, `DeconfigureScope`, `StopCoordinator`, `Destroy`, `Launch` | `CatalogDb.cpp` 54-150, `app/AppSession.cpp`, `app/App.cpp`, `library/LibraryCoordinator.cpp` 334-410 |
| `TakeScope`, `TakeCommand`, `WorkerExit` | `CatalogDb.cpp` 205-434 |
| `ProcessScope`, `InspectPath`, `PromoteCatalog`, `EnsureSchema`, `Backfill`, `PublishScope` | `CatalogDb.cpp` 460-580, `CatalogDbSchema.cpp` 42-494, `CatalogDbSchemaOps.cpp` |
| `Read`, `Cancel`, `StartQuery`, `StartMediaPage`, `EndRead` | `CatalogDbQuery.cpp`, `library/LibraryQuery.cpp` |
| `ReadState`, `StartStateWrite`, `EndStateWrite` | `CatalogDbSyncState.cpp` |
| `StartPage`, `AttemptPage`, `CommitPage` | `CatalogDbWrite.cpp` 605-968, with its retries |
| `TopLevelSync` (`Begin`, `Finalize`, `Abort`) | `CatalogDbHierarchy.cpp` 337-448 |
| `StartWalk`, `WalkState`, `WalkCatchUp`, `WalkDated`, `WalkBegin`, `WalkPage`, `WalkFinalize`, `WalkEnd` | the walk's calls, one after the other, each with what it does on every answer |

A row is the page it came in. The code looks at epoch and cancellation before a transaction, in it and
before its commit; the model looks where another thread can have changed something the outcome depends
on. The top-level sync runs its SQL under `m_mutex`, so it is one step. The hierarchy's writes, the
series reconcile and the seed are commands of the same form that touch other rows. A sync's TEMP tables
hold pages of one walk; what a page writes straight into the catalog during a catch-up are changed rows,
which leave the membership as it was. A row that cannot be read ends the backfill of the sort keys as the
last row does (`CatalogDbSchemaOps.cpp` 296), and a stale temporary file that cannot be removed ends the
opening. The walk's last checkpoint carries `LibrarySync`'s own cancellation (`LibrarySync.cpp` 106),
which nothing sets before the walk's thread has been joined (`LibraryCoordinator.cpp` 403-409), so the
model has none there.

## 4. What is checked

Every action and every disjunct fires in at least one passing run. `CHECK_DEADLOCK FALSE` everywhere:
with the bounds used up and nothing owed the program really waits.

| Run | Instance | Shows |
|---|---|---|
| `ds_sources` | 1 account, 1 id, 2 sources, 3 requests, 1 failure | `NoMixedSources`, `StartsClean`: bytes of an old source are never completed or resumed as the new one; `SettledDisk`: with nothing owed a read finds exactly the live items as memory has them; `BusyExact` with removals held back behind one that failed; `EventuallySettled`: owed work ends |
| `ds_switch` | 2 accounts, 1 id that may reappear with the storage, 2 requests, 2 switches | `TypeOK`; `NoOrphans`: with nothing owed no manifest is left that memory does not have; `NoResurrection`: nothing erased is live again (but for the `forgotten`); `BusyExact`: an id is busy exactly as long as removals of it are outstanding |
| `ds_left` | 2 accounts, 2 requests, 1 switch, 1 failure, 1 crash | `NothingLost`: every item is in memory, in an owed final write or in a manifest; `SettledDisk` across switch and crash |
| `lc_all` | 2 items, queues of 1, batches of 1; either 2 changes, 1 lost socket, 1 failure (not two changes with both others), or two of a second fetch, a toggle, a safety reconcile, a screen | `TypeOK`; `Accounted`: a change older than the checkpoint is on its way to the catalog, but for three named exceptions; `Exclusive`, `OwnTransaction`, `SlotHeld`, `DemandOwned`: one mutation at a time, by its owner, and the slot and the cold-start demand always have somebody who will end them |
| `lc_live` | 1 fetch, 1 toggle, 1 change, fair threads | `ColdStartFirst`: no live batch ahead of the cold start; `WaitsEnd`, `LiveServed` |
| `up_install` | 3 files, 3 releases of which one has a library more, 2 checks, 2 attempts, 3 failures, 1 cut, a card that syncs folders or not | `TypeOK`; `NeverBehind`: no binary beside older files of its release; `AllOrNothing`: the refinement; `Confirmed`; `JoinReturns` |
| `ob_all` | 2 accounts, 1 item, 2 positions, 3 acts, 1 failure, 1 crash | `TypeOK`, `SessionPaired`, `LatestWins`, `PositionKept`, `WatchedDrains` |
| `cat_worker` | 2 accounts, catalogs missing or old, 2 pages, a queue of 1, 2 attempts, 2 changes of account, 2 reads or walks, 1 failure, 1 launch | `TypeOK`; `ReadyFile`: what is open is the account in use, in a finished file; `OwnAccount`: an answer comes from the account asked about; `LibraryWhole`: a library is one whole walk; `CheckpointBehind`: the checkpoint dates no walk that was not committed; `NotTurnedAway`: no command is refused for the order the worker works in; `NobodyStuck` |

Bounds and why they suffice for what they ask.

- *Downloads.* Each hazard needs one id with a history (added, erased, added again: three requests), an
  account to leave and one to return to, one failure to make work owed again. `MaxRounds` is 2 for the code's 8: a round that is followed by another and the last one.
  The sources are alike, so `FromFirst` fixes which one the first request names. In `ds_switch`
  `LateAtFirst` lets the storage that comes back hold a library of the account the program starts with
  only, which the two switches can leave and re-enter at any point of the late scan.
- *Library.* Two workers that want the slot, one that has it, a screen that joins the hierarchy's turn and
  a teardown at any moment; two items where the limits have to split a set. `Capacity` stands for 512 and
  `MaxApply` for 64: with 1 and 1 the queue is full at once; `lc_found_limit` has them at 2 and 1, the
  code's order. `MaxGen` is out of reach except in `lc_found_limit`, where it makes the loop finite:
  nothing compares generations there.
- *Update.* Three failures: an installing step, an undo step, and one in a second attempt. Two checks: a
  second installation over whatever the first left. Three releases: one that adds a file and one that
  drops it.
- *Catalog.* Two accounts and two changes: one to leave and one that arrives while the other is opened.
  A queue of one is full at once; 32 in the code. Two attempts are the first and the last. Two asks: a
  read beside a walk, or a walk after one that failed or was cut off, which is what mixes pages if
  anything does.
- *Outboxes.* Three acts: a choice, a change of mind while it is in flight, an account switch; or a
  playback, another device, a discard. One crash meets every step; a second meets the same code. The
  accounts are alike, so `MCFairSpec` fixes which one may be signed in at first.

Fairness, always weak, never assumed of the user, the server, the network or a crash:

- `DownloadStorage`: the storage thread. It waits on a condition variable whose predicate is "work is
  owed", every request notifies it, and while it has a step it can be run.
- `HomeLibrary`: each worker, the hierarchy thread, the fetch thread, each take of the interface thread
  (one frame tries them all) and the end of a teardown that has begun. Requests have time limits, so a
  call ends.
- `Updater`: the worker, and the return of a join (`Closed`) once the worker has ended.
- `Outboxes`: the two threads (all waits with a change to send have a time-out), and the main thread once
  it is in the middle of something.

`CatalogDb` states no fairness: what must not happen there is that nobody *can* go on, and `NobodyStuck`
says so as an invariant. Under endless reads the strict order of the queues could starve the later ones;
nothing in the code prevents that, and the program's reads end.

### Disagreements found

Each is a run expected to violate one property; `PROJECT.json` quotes the lines.

- `ds_found_readded`: delete, add again, switch account. The final write is stage 1, the queued
  removal stage 2: the item is written and then removed. `NothingLost` holds in `ds_left`, whose two
  requests do not reach that order.
- `lc_found_limit`: a catch-up batch larger than one call may apply is applied, refused and queued again
  for ever, and the barrier it holds stops the drain. A plain batch that large is dropped (`Accounted`
  names it).
- `lc_found_prefetch`: toggling offline mode cancels Home's season prefetch at the coordinator, and Home
  waits for its result for the rest of its life.
- `cat_found_keys` (a crash and no failure): `ensureSchema()` commits the new schema version and the sort keys are filled in after
  it, row by row (`CatalogDbSchemaOps.cpp` 191, 241; `CatalogDbSchema.cpp` 248-256). A crash or a failing
  statement in between leaves them empty; later openings find the new version, skip the backfill and log
  `schema_has_canonical_keys`. Pages are ordered, filtered by letter and continued by those keys, so
  paging is wrong until a full walk has written every row anew.

Four more are exceptions that a checked property names. Each was seen by dropping the exception, under
which TLC finds the property violated in the same run:

- `leftover` in `NoMixedSources` and `StartsClean`. A removal keeps its id busy "so nothing is built on (or
  next to) the old files", and afterwards "a re-added id is written to a clean slate"
  (`DownloadManager.cpp` 537, 733). Add an item, start it, erase
  it once its playlist is read, add it again with another source: the manifest on disk, if any, counts no
  segments, the removal leaves them, the id is free, and the new transfer starts over them.
- `forgotten` in `NoResurrection`. `configure()` drops the deletions that wait for running transfers
  (`DownloadManager.cpp` 97) and writes their items out as live: erase a running download, switch
  account and come back, and it is there again.
- The card in `LatestWins`. `storeTo()` (`WatchedSync.cpp` 116-125) replaces the whole queue by a shorter
  one when the card is full, and a queue that cannot be read is overwritten by the next change.
- `syncs` in `NeverBehind` and `AllOrNothing`. `fsyncDir()` takes a file system that cannot sync a folder
  for one that has (`UpdateInstaller.cpp` 536-540), and says that the card's is one. A power cut may then
  leave the new binary, which is replaced last so that this does not happen, beside older files.

Met while modelling, without a run of their own:

- An account left twice during one pass owes two final writes; the load reads the second only and drops
  both (`DownloadManager.cpp` 143; `NothingLost` breaks with two items, two requests and four switches).
- Leaving and returning during a late manifest scan brings old copies to life in front of the owed final
  write (`DownloadManager.cpp` 460; `SettledDisk` breaks with one item, two switches and one failure, and
  on the instance of `ds_switch`).
- A final write that fails is owed again (`DownloadManager.cpp` 679, 722) whole, although the removals of
  its account run in the same pass. Add an item, switch away and back, add it again and erase it, all
  before the library is read: the removal is done, and the load then takes the erased item from the final
  write that failed. (`NoResurrection` breaks with three requests, two switches and one failure;
  `ds_switch` has no failures.)
- A correction of an index that fails is owed again (711) and does not look whether its ids have come
  back. Erase an item, add it again during the pass, switch away and back: the final write lists the new
  item, the old correction takes it off the index again, and the next read does not find its manifest.
  (`NoOrphans` breaks with three requests, two switches and one failure.)
- Saving an address (same account) clears the deletions running transfers are to carry out, leaves the
  item of a running transfer `Downloading` with no worker until the next start
  (`DownloadManagerTransfer.cpp` 345), and drops the manifests the reconciler was about to ask for.
- A crash between the index write and a removal leaves segment files nothing lists.
- The result of a playback is meant to be left "for the active screen to consume before its next update"
  (`AppPlayback.cpp` 344). The screens read it on their second update after the button
  (`MovieDetailsScreen.cpp` 260, `EpisodeBrowserPlayback.cpp` 53), while the loading overlay still
  shows and the player has not started: they consume the result of the playback *before*. The last
  result therefore stays, and the next start of the program records it a second time, which may make a
  conflict of a position already pushed or replace another account's entry.
- A crash between a push and the save of the journal makes a conflict of the entry at the next pass. A
  failed pass is not tried again without a wake-up, and a sign-in wakes nobody (`App.cpp` 649-685). A
  change the server fails on keeps the ones behind it waiting.
- The hierarchy checkpoint without a forced reconcile is refused once a reconcile time is stored.
- A device clock that was set back: a catch-up keeps the later of the two times
  (`LibrarySyncIncremental.cpp` 101), a walk writes what the clock says and is refused as regressed
  (`CatalogDbSyncState.cpp` 186-208), so every start walks again until the clock has caught up.
- While Home shows an offline library or the music mode is open nobody takes a live result, and the live
  worker waits with it (`LiveServed` is about the other case).
- The checkpoint of a catch-up is the clock *after* the query was answered and its rows written
  (`LibrarySyncIncremental.cpp` 100), so what changes in between is older than the checkpoint and not in
  the answer. Its live event makes up for it (`Accounted` names the case), unless the connection is down,
  which is when a catch-up is needed.
- A backfill that fails leaves the scope's status `Pending` (`CatalogDbSchema.cpp` 250): nobody learns
  that the catalog will not open.
- `processMediaPage()` takes any result of `sqlite3_step` but a row for the end of the page and answers
  with success, and does not look at its scope again after reading; the connection stays that of the
  account it started with, so the answer is still the right account's (`OwnAccount`).
- A retry of an installation overwrites the backup with whatever the first left; a roll-back that fails is
  the one state `NeverBehind` excludes, and the program says so ("incomplete").

## 5. What is proved

TLAPS checks eight modules, for all values of the constants but what 5.2 assumes.

### 5.1 DownloadStorageProofs

- `TypeCorrect`: `Spec => []TypeOK`
- `BusyAlwaysExact`: `Spec => []BusyExact`

The inductive invariant is `IInv == TypeOK /\ BusyExact /\ QueuesOK`. `TypeOK` alone is not
inductive: `RemovalDone` decrements a count, which stays a natural number only because the removal
just done was counted, so `BusyExact` is needed. `BusyExact` is not inductive without `QueuesOK`: the
removal of an item has two halves, and its second half takes the head of the queue, which must still be
there (`job.op = "unlink"` implies a non-empty queue); and `EndPass` and `TakeWork` replace the pass
record, which loses no removal only if a pass ends with none (`AtIndex`) and an idle thread holds none.

The proof has one lemma per action (`ConfigureInv`, `EraseInv`, `RemoveBytesInv`, ...), each with a
step per conjunct the action can disturb; `QueueFrame` disposes of the actions that leave removals and
counts alone, `RemovalQueued` of those that queue one, `DoneType` and `HeldType` carry the arithmetic of
the two that shorten a queue. `InitInv` and `NextInv` put them together.

### 5.2 OneLibraryProofs

For one account in one life of the process (`OneLibrary`: `Scopes` has one element, no crash, no storage
that was away), and any number of ids, sources, requests, new sessions, failing operations and rounds:

- `NeverMixed`: `Spec => []NoMixedSources`
- `StartsOverNothing`: `Spec => StartsClean`
- `NothingResurrected`: `Spec => []NoResurrection`
- `NoneOrphaned`: `Spec => []NoOrphans`
- `SettlesRight`: `Spec => []SettledDisk`, with one session (`MaxSwitches = 0`)

`NeverMixed`, `StartsOverNothing` and `NothingResurrected` state their properties with the exceptions of section 4
(`leftover`, `forgotten`), which are what the code does. None is inductive: two speak only of moments when
nothing is owed, the others only of ids with no removal outstanding or of what is live. `OneInv`, beside the `IInv` of 5.1, says what the disk may lack while work
is outstanding, and who holds that work:

- `Files`, `Good`, `Awaits`, `Unlinking`: the bytes there, and those a transfer is about to add, are of the live
  item's source, or a removal of them is still to come, or a whole removal has left them there
  (`leftover`). A removal that has seen to the files but not to the manifest is no longer to come
  (`Unlinks`). `BusyExact` makes that usable: a removal done lowers the count to zero only if it was the
  last, and what it did to the files is known (`FilesSeenTo`, `SeenFiles`).
- `Owned`, `Writing`: a manifest, there or being written, belongs to a live item or to one whose whole
  removal is queued (`Going`). So a read of the storage, by a load or a late scan, brings nothing to life
  (`NothingMerged`): what it finds is live or busy.
- `Written`, `Latest`: a live item without an up-to-date manifest is in `owed.ids`, `p.ids`, `p.retryIds`
  or the reconciler's list, or its removal is queued, after which `RemovalDone` asks for it
  (`AddedBack`).
- `IndexRight`, `Loads`, `Working`, `Quiet`: the same of the index and of the load.

One lemma per action again (`OneErase`, `OneRemoveBytes`, ...), most of them by what an action leaves
alone: `FilesFrame`, `SavedFrame`, `ManifestFrame` and `IndexFrame` each carry one group of conjuncts.
`NothingLeft` and `DiskSettled` derive the settled state from `OneInv`; `OnlyStarts` shows that no other
step makes a transfer.

The assumption is needed. With two accounts and a failing operation `NoResurrection` and `NoOrphans` are
false (section 4); a crash forgets the removals that were owed, so `Owned` does not survive it; a new
session of the same account drops the reconciler's list, and with it the write of a `Complete` item it has
just marked `UpdateAvailable`, so with two sessions `SettledDisk` is false.

### 5.3 UpdaterProofs

- `TypeCorrect`: `Spec => []TypeOK`
- `AlwaysConfirmed`: `Spec => Confirmed`, from `FlagInv`: a raised flag is the user's, for this
  check, or a cancellation's, and the worker looks for a cancellation first.
- `BinaryNeverAhead`: `Spec => []NeverBehind`, from `DiskInv`. `NeverBehind` speaks of what a cut *may*
  leave, so it is not inductive without knowing what is still unsynced: the files done are the first of
  the plan, all but the newest are synced, and what was backed up was itself in order (`BaseInv`,
  `OrderInv`). Whatever a cut then picks from `durable` differs from an ordered folder in one file at the
  right place. The synced part (`CertainInv`) holds only where the card can sync a folder. `~broken` is a
  premise: after an undo step that failed, or a cut that took back a rename on a card that cannot sync a
  folder, nothing is claimed; on such a card the theorem is about installations without a cut.
- `InstallsAsTransaction`: `Spec => AllOrNothing`, the refinement. `FailedInv` says a failed undo step is
  remembered as `broken`; one lemma per action shows the step of the transaction it is, or that it
  changes nothing the transaction sees (`CommitStep`, `RollbackFailsStep`, `AdriftStep`, `CutStep`, ...).
  For a cut the witness is the least file of the release that the cut left as it was; on a card that cannot
  sync a folder it is `CutScatters`.

### 5.4 OutboxesProofs

- `SessionAlwaysPaired`: `Spec => []SessionPaired`, from `PairInv`: an outbox that holds a session at
  all holds that of the account whose file it has.
- `PositionAlwaysKept`: `Spec => []PositionKept`, from `KeptInv`. What is not in the journal file may only
  be missing from it for as long as somebody's copy has it: `SyncKeeps` says that what the sync thread
  holds and has not pushed is still owed and will be saved, `DiscardKeeps` the same of the copy a discard
  is about to write, and `ResultIsLast` that a result waiting to be recorded is not older than what is owed.
  The mutex (`MutexFree`) is what makes `SyncKeeps` inductive.
- `LatestAlwaysWins`: `Spec => []LatestWins`, and `OutboxesTyped`: `Spec => []TypeOK`, from `ChangeInv`.
  `LatestWins` alone does not survive a send: it allows a file to hold an older change of an item whose
  latest choice the server already has, and sending that one would undo it. `PendingIsChoice` excludes it:
  what waits for an item is the user's last choice for it, or the card did not take or lost a later one; and a file holds an item once (`ChangeType`). Between the
  send and the answer the user may change his mind: `InFlight` and `SentWaits` say that the change in flight
  belongs to the account it was read from, whose file still holds something for that item while it is sent,
  and `DoneWatched` that an answer `Done` means the server has just this value. So the answer takes the
  change out of the file only if it is the one the server has, or one refused and excused. `PathOf` puts
  the user's changes into the file of the account that is signed in.

### 5.5 HomeLibraryProofs

- `AlwaysExclusive`, `AlwaysOwnTransaction`, `AlwaysDemandOwned`: `Spec => []Exclusive`,
  `Spec => []OwnTransaction`, `Spec => []DemandOwned`
- `AlwaysColdStartFirst`: `Spec => ColdStartFirst`

The inductive invariant is `IInv == Shape /\ SlotInv /\ DemandOwned /\ DemandArmed`. `Shape` is no more
of the types than the steps need. `SlotInv` adds `ReadyIdle` to the two properties of the slot: a
retained live result means that no live batch is under way, without which the take that frees the slot
could free it under the next batch. `DemandArmed` (online, a sequence nobody has claimed keeps the
demand up) is what makes the order provable: a live batch may only be claimed without the demand, so
there is no sequence waiting then.

`WorkStep` and `EndStep` dispose of all the steps of a worker (it goes on, or it gives up the slot),
`TakenSlot` of the ways a slot is taken, `HandedBack` of a sequence that is passed on, `SettledSlot` of
the hierarchy's end of a turn; then there is one lemma per group of actions.

### 5.6 LibraryKeptProofs

- `AlwaysTypeOK`, `AlwaysAccounted`, `AlwaysSlotHeld`: `Spec => []P` for `P` each of `TypeOK`, `Accounted`
  and `SlotHeld`

With 5.5 these are all the safety properties of `HomeLibrary`. There are three invariants, each on top of
`IInv` of 5.5 and of those before it.

*Types.* `Typed` gives every record its full type: the later proofs follow a field through `EXCEPT` and an
element through a queue, and both need to know that the rest is there.

*No change lost.* `Accounted` says where a change is that a catch-up will not find. It is not inductive:
whether storing a checkpoint hides a change depends on what the writer has seen. `AccountInv` says who may
come to write one, and that he only gets there when everything the catalog lacks is on its way (`Whole`):
a walk past its last page (`Walking`), a population that succeeded or a startup that needs none
(`Reported`), the results kept for Home (`Announced`), Home's fetch that ends well (`Fetched`), and the
prefetch request it makes, queued or active (`Prefetched`). A checkpoint that is there already is one of
these (`disk.succ`). `Applied` is the live batch's part: what it has not fetched yet is back in the queue
before the batch is dropped. `Shrunk` and its like carry every step that only brings things to the catalog.

*The slot never lost.* `HeldInv` only speaks of the time before the stop, and says for each kind of holder
who will let go: a startup or population belongs to Home's fetch thread, which does not leave before the
slot is given back (`Owned`), and finds the updates it waits for (`Updated`: pages, and the publication
last); the hierarchy keeps the slot only while it has something to do or to hand over (`Busy`), and every
result has a consumer that is there (`Awaited`). The last two need `Requests`: requests are numbered once (`Numbered`,
`Distinct`), a result belongs to an accepted request (`Expected`), nothing follows a terminal result and one
that is not terminal has a worker at it or a terminal one behind it (`Terminal`), and a request in the queue
has no result yet (`Unstarted`). Without these a take could remove a request's last result and leave the
slot to a request nobody will answer.

TLC found no exception to `AccountInv` on the bounds of `lc_all`, nor to `HeldInv` with two hierarchy
requests and two screens, before they were proved.

### 5.7 FilteringProofs

`RetainedFacts`: `Retained(s, D)` holds the elements of `s` at the positions in `D`, all of them and no
other, in their order. This is an induction over the positions, and the library's induction theorem takes
an operator, which no installed prover instantiates. `UpTo` replaces it for one statement at a time: the
numbers for which the statement holds are a set, and the least one outside it (`LeastNumber`, from the
well-ordering of the naturals) cannot exist. `Recursion` uses it to show that the recursive function is one,
`RetainedPlaces` to say which position each element came from. The watched outbox's proofs and the
hierarchy's cite it.

### 5.8 CatalogDbProofs

- `TypeCorrect`, `FileReady`, `AnswerOwned`, `WholeLibrary`, `CheckpointFollows`: `Spec => []P` for `P`
  each of `TypeOK`, `ReadyFile`, `OwnAccount`, `LibraryWhole`, `CheckpointBehind`
- `NobodyTurnedAway`: `Spec => NotTurnedAway`

These are all the safety properties of the module's passing run. The inductive invariant is
`IInv == TypeOK /\ ScopeInv /\ CallInv /\ Talk /\ Open /\ Kept /\ Data`, in three layers, each of which
needs those before it; TLC found no exception to any part on the run's instance before it was proved.

*Scopes.* `ScopeInv` relates the account asked for last, the command that waits and the file the worker is
opening: while an opening is under way nothing is ready (`InScope`), and a scope command that waits is the
last one (`Waiting`). That makes the worker's second look at the epoch enough for `ReadyFile`.

*Commands.* `CallInv` says who waits in which queue, once (`Queued`), which command the worker is at and
that the open file stays its account's from the last look at the scope to the answer (`Served`: no scope
command can come between, since the worker itself takes them), and that every command and every answer
belongs to an epoch of an account (`Asking`). `OwnAccount` is a part of it.

*The walk.* `Talk` ties the walk's place to the command it waits for; a change of account joins the walk
first, so its epoch is the one in use as long as it runs. `Open` is why a library is whole: from the answer
to `begin` to that of `finalize` the scope stays ready, the sync of the walk is the active one, and the
tables hold the walk's pages up to the last that was answered, and no other row of this sync. A page is
therefore in the tables exactly if it was answered with success, and the walk asks for the commit only
after all were (`Advances`). `Kept` carries the commit to the checkpoint; `Data` adds that walks are
numbered (`Numbered`), without which a new library could be older than the date of the former one.

`WalkMoves` reduces the seven actions of the walk to two forms, it ends or it asks for one thing, and
`ReadEnds`, `AnsweredCalls` and `GoesCalls` do the same for the worker's. `NotTurnedAway` follows because
`Rejecting` shows that a refusal means `~Valid`: the sync of a page or a commit is the active one by `Open`.

### Assumptions

`ScopesAssumption`, `SentinelsAssumption`, `LateAssumption`, `BoundsAssumption` (downloads),
`ShipsAssumption`, `AttemptsAssumption` (updater: every release has a binary; bounds are numbers),
`OutboxAssumption`, `PlaybackAssumption` (the marks for "nothing" are not values), `LimitAssumption`,
`CapacityAssumption` (library: limits are numbers, the queue holds something), `RequestAssumption` (the mark
for "no active request" is no request), `Names` and `Limits`
(catalog: the marks are no accounts or readers; a walk has a page, a queue a place, a page an attempt).
Each is evaluated by the runs of its component. No proof fixes a bound, except where 5.2 says so: the
bounds are constants like the others.

## 6. What is only model-checked

- *Downloads.* The five properties of 5.2 across accounts, crashes and storage that comes back, within the
  bounds of the runs: for larger ones `NoResurrection`, `NoOrphans`, `SettledDisk` and `NothingLost` are
  false (section 4), so there is nothing more to prove about them as they stand.
- *Catalog.* `NobodyStuck`, which is about what is enabled.
- *Liveness.* `EventuallySettled`, `WaitsEnd`, `LiveServed`, `JoinReturns`, `WatchedDrains`: fairness and
  `ENABLED` are beyond the prover.

## 7. What is not modelled

`PROJECT.json` gives the reason for each component. In short:

- *Catalog database.* Hierarchy writes, the reconcile of series, the seed and whole-library reads, and the
  queues of plain jobs (maintenance, used by tests only). They are commands of the same form; what they
  write belongs to other tables. `LibraryCoordinator` takes a call of the catalog for one step.
- *Planner.* A client of the hierarchy requests like the screens in `HomeLibrary`.
- *Music.* What goes wrong in the player costs a song's place. The plays journal is used by one thread.
- *Screen stack, worker slots, telemetry, image cache.* One flag and one thread each, or a cache of what
  can be fetched again.
- *Drawing, navigation, parsing, hashing, the text of SQL*, some 20 000 lines: conversions, or no state
  anybody else sees. The player engine under `player/` (a patched ffplay), the tools and the third-party
  code are other programs; the modules have what they leave behind as inputs.
- *Inside modelled components*: playback pauses, plan and progress bookkeeping, resumption inside a
  segment, sidecar files, the old single-file layout and the root marker (downloads); paging and field
  selection (library); the length of pauses (outboxes).

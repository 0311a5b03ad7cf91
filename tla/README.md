# Formal models of NavSlidesEditor

NavSlidesEditor is a slide editor: a React client, an Express and Socket.IO server that keeps
presentations in JSON files, and an importer and exporter of PPTX packages. This directory holds
TLA+ models of the parts in which order, crashes and failed calls decide whether a user's work
survives, from the save queue of the browser down to the files of the package store, and of the
two kinds of rooms in which several people share one session; the TLC configurations that check
them; and TLAPS proofs about the writer lock, the durable store, the decks, the imports, the save
queue of the editor and both kinds of rooms.

Contents: [1 system](#1-the-system) · [2 modules](#2-the-modules) · [3 runs](#3-the-runs) ·
[4 disagreements](#4-what-the-checks-found) · [5 proofs](#5-what-is-proved) ·
[6 not modelled](#6-what-is-not-modelled) · [7 plan](#7-plan)

Paths are below `src/server/` unless they start with `src/`; `store/` is
`services/pptx-import/package-store/`.

## 1 The system

### 1.1 What holds the state

A *package-backed deck* is an imported PPTX file that can be edited here and exported as the
original package with the edits in place. Its authority is not `presentations.json` but the
**package store**, one directory with a single writer process. Four layers lie on each other:

```
 requests    import job     save (PUT)   edited export   history       permanent delete
                 |              |             |             |                |
 records     heads, owned revisions, retained heads, receipts, compatibility outbox
                 |   mutate()                         |  drain
 store       StateStore.publish()/recover()           v
                 |                              presentations.json (rows)
 files       writer.lock, fencing-epoch.json, indexes/, wal/, state-root.json, high-water file
```

A request changes the records by one `mutate()` of the store, which queues in the same mutation
the write that `presentations.json` needs (the *compatibility outbox*). A *drain* applies the
queued writes to `presentations.json` and then acknowledges them by another mutation. Readers
list rows and overlay the projection of the store on them.

There are two ways to the store. Requests call `withPackageStore()`
(`services/pptx-import/package-store-runtime.js:74-105`), which runs one at a time and reloads the
store when one fails. The validated edited export takes the store from `getPackageStore()` and
calls `mutate()` itself (`mutation-transaction-execution.js:115, 175, 222`): when its call fails,
nothing is reloaded.

### 1.2 Components

Every component, modelled or not, is listed here with its state, operations, partners, what is
hard about it, and what makes it correct.

| Component | State and operations | Talks to | Hard behaviour | Correct when |
|---|---|---|---|---|
| Package store writer lock (`store/writer-lock.js`) | `writer.lock`, `fencing-epoch.json`; acquire, reclaim, assertOwned, release | server processes sharing a data directory; the store asserts it before each write | two starters between any two file calls, crash between lock and epoch, reused PIDs | one holder, who can prove it; epochs grow; a dead owner is taken over |
| Package store durable state (`store/state-store.js`, `durable-fs.js`, `state-migrations.js`) | indexes, root, WAL records, high-water file, the object in memory; publish, recover, reload, migrate | the lock below, `mutate()` above | crash between any two of the five files of a publication, a call that fails half way, a throw after the commit, with a reload (requests) or without one (exports) | nothing acknowledged is lost, the root is readable, memory is the root or the predecessor that a failed export left it with, epochs only grow |
| Package records, retained owners, outbox (`store/lifecycle.js`, `store/index.js`, `compatibility-outbox.js`, `compatibility-view.js`, `package-store-runtime.js`) | heads, owners, retained heads, quarantines, queued writes; commit, retain, quarantine, restore, release, drain | every request on a deck; `presentations.json` | drains work on copies, apply twice, meet deletions, dead-letter a write | rows end as the heads say and never go back |
| Saves and edited exports (`routes/presentations-crud.js`, `generation-safe-save.js`, `mutation-transaction-execution.js`) | the head a request read, its candidate; PUT, export | records, drain, package validators | an export validates for seconds on a head that moves; a publication commits and throws, and the request answers 500 without a drain | no commit is overwritten by work on a stale head; rows catch up with the next drain |
| History (`routes/history.js`, `history-lock.js`) | snapshot files, history owners; snapshot, prune, restore, remove | records; the lock shared with deletion | file and owner change in two steps that fail separately; a restore takes a snapshot first, which prunes | each offered snapshot can be restored, to the generation it shows |
| Permanent deletion (`routes/presentations-crud.js`) | the retained owner of the saga; quarantine, splice, compensation, releases | records, rows, history files | nine awaits, each of which can fail; a retry of a committed step; compensation | a deletion is complete and final, or the deck is as before |
| PPTX import jobs (`routes/pptx-import.js`, `pptx-import-job-manager.js`, `store/import-commit.js`) | job table, stage promises, receipts in the store; admit, cancel, deadline, publish, roll back, reconcile, expire | parser worker, records, drain | abort does not stop a stage: its late result arrives after the job ended | an ended job leaves nothing, a done job a deck; the limit counts late work |
| Creation, duplication, trash, templates | rows, template heads | records, storage | a duplicate made during a save; template heads outlive their deck | a copy owns what it needs |
| JSON storage (`services/storage.js`) | a promise queue per file; read, mutate, atomic replace | all routes | a rejected mutation must not block or skip the queue | critical sections are serial, a file is old or new |
| PPTX blobs and temporary files (`store/blob-store.js`, `retention-dry-run.js`) | content-addressed files, staged files; stage, commit, collect | imports, saves, exports | a blob staged twice, a collector beside an import | a referenced blob exists with its hash |
| Media of imported decks (`media-dedup.js`, `media.js`) | hash index, files, a transaction per import | imports, uploads | a rollback beside an upload that found the same hash | no row refers to an unlinked file |
| Project archive import sessions (`project-import-media-session*.js`) | session records, staged media, a lock per session; create, stage, begin commit, publish, roll back, recover, expire | routes of the project import, storage | a crash between begin and publish, expiry against commit | an import is published whole or gone |
| Live presentation rooms (`live-rooms.js`, `socket-handler.js`) | rooms, roles of sockets, clean-up and presenter timers; join, leave, state updates | Socket.IO clients | a presenter returning inside its grace time, a timer against a join | one presenter, no room removed under a member |
| Game rooms (`game-room-manager-singleton-service.js`, `game-socket-handler.js`) | rooms, players, votes, matching state, capabilities; create, replace, join, answer, end | Socket.IO clients, REST routes | reconnects with a session token, answers after the question | one score for one answer, one host |
| Git synchronisation | job manifest, workspace | git | a push that fails after a commit | a manifest names what was sent |
| Sharing, settings, uploads, plugins, AI routes | one JSON file each | storage | none beyond storage | as storage |
| PPTX parsing and mapping | none kept | import jobs | sequential; may never end | as a translation |
| Journals, planners and validators of exports | none kept | edited export | sequential | as a computation |
| OfficeCLI gateway | admission queue, child processes, workspaces | export validation | capacity at its limit, abort in the queue | weight in use is bounded and comes back |
| Visual oracle | files of a qualification job | outside the server | none | – |
| Server start-up, shutdown, health | readiness flags | store, imports | shutdown during imports | nothing is served before recovery |
| Editor save queue and recovery (client) | pending edits, generation, local recovery copy | PUT | a conflict, a save that is late, a closed tab | no edit is dropped without telling |
| Editor state, canvas, undo (client) | stores, history stack | save queue | undo across a save | undo restores what was there |
| Live and game clients | socket state | rooms | reconnect | as rooms |
| Shared renderers and exporters | none | export, client | none | as a rendering |
| Desktop shell | a child server | server | none beyond start-up | – |

The first seven, the two kinds of rooms and the save queue of the editor are modelled or partly
modelled, the clients of the rooms as far as a room depends on them;
[section 6](#6-what-is-not-modelled) says what is left of them and why the others are left out.
The hazards of the code, each at its line, are listed in `PROJECT.json` with the properties that
watch them.

## 2 The modules

```
 WriterLock     <-- FencedPublication <-- FencedPublicationProofs
 AtomicStore    <-- StateStore        <-- StateStoreProofs
 PackageRecords <-- PackageRecordsProofs
 PackageRecords <-- DeckLifecycle     <-- DeckLifecycleProofs --> PackageRecordsProofs
 PackageRecords <-- PackageImport     <-- PackageImportProofs --> PackageRecordsProofs
 EditorSave     <-- EditorSaveProofs
 LiveRooms      <-- LiveRoomsProofs
 GameRooms      <-- GameRoomsProofs
```

The layers below a save are glued by two facts. `FencedPublication` shows what one writer may assume about
the processes around it, so `StateStore` has one writer. `StateStore` implements `AtomicStore`,
so `PackageRecords` takes a `mutate()` for one atomic action, durable once it is answered. A
mutation whose call failed may be there or not (`FailsAfterCommit` in `DeckLifecycle`). `store.mutate()` and
`reload()` go through one promise tail (`store/index.js`, `mutationTail`), so two mutations of a
process never overlap.

### 2.1 WriterLock

Processes share a directory. Each file system call of `claim`, `acquire`, `reclaimAbandoned`,
`assertOwned` and `release` is one action, and `pc[p]` says which call is next.
`writeDurable()` opens, writes and syncs: between `CreateLock` and `FillLock` the lock file
exists and is empty (`whole = FALSE`), between `TruncateEpoch` and `AcquireReturns` the epoch
file is `Truncated`. `claimed` is the lock's own nonce and epoch, `seen` what a reclaimer has
read. A nonce is a counter, since UUIDs never repeat; a process has one PID for all its
incarnations, so that PID reuse (`ownerIsProvablyGone`) happens. A crash may come anywhere, and
`WriteFails` leaves the file half written with the process alive.

`OneStarterAtATime` is a deployment assumption: acquires of different processes do not overlap.
The single-instance desktop application and one server per data directory satisfy it.
`FilesOK` says that the two values for a file without content are no contents.

### 2.2 FencedPublication

`WriterLock` composed with `acquireWriter()`, `mutate()` and the one write that matters, the
replacement of the root. A root is the set of commits it holds, the fencing epoch and the nonce
of its publisher. `LoadRoot` is the reload after `acquire()`; `BeginPublish` is `assertWriter()`;
`ReplaceRoot` comes later, so a lock may change hands in between.

### 2.3 AtomicStore and StateStore

`AtomicStore` is the promise to callers: a mutation in flight takes effect at one instant or not
at all; what was acknowledged is durable. A mutation whose call failed may have taken effect, and
is then in `doubt` until the store is reloaded or restarted: the next mutation undoes it.

`StateStore` is the code. A *state* is its content (the mutations in it), generation, fencing
epoch, matrix authority epoch and schema; it stands for its own hash, so the index file
`indexes/<hash>.json` of a state is a member of `intact` or of `torn`. `root` names a transaction, a
state and its chain of predecessors. One pc-loop serves start-up, requests and recovery:

| Code | Actions |
|---|---|
| `init`, `recover`, `acquireWriter` | `Start`, `StartRecovered`, `StartFails`, `TakeOver` |
| `finalizeWriterRecovery` | `FinalizeHighWater`, `FinalizeFillHighWater`, `FinalizeWal`, `WriterReady` |
| `mutate`, `advanceMatrixAuthorityEpoch`, of a request or of an export (`Caller`) | `Mutate`, `AdvanceMatrixAuthorityEpoch` |
| `publish` | `PersistHighWater`, `HighWaterRefused`, `FillHighWater`, `WriteIndex`, `FillIndex`, `Prepare`, `ReplaceRoot`, `Install`, `Complete` |
| a call of it that fails | `PublishFault`, `HighWaterRefused` with `Abort`: a start-up gives up, a request asks for a reload, an export goes on with the object as it is |
| a request that fails otherwise | `RejectRequest` |
| `reload` of `withPackageStore` | `StartReload`, then `ReloadRecovered` or `ReloadFails` |

`reloadDue` is a reload that waits in the promise tail of the store: other requests wait for it
(`mutationTail` of the runtime), exports that have called `mutate()` before it do not. The history
variable `abandoned` holds the transactions of exports that failed between the rename of the root
and the directory sync (`store/state-store.js:240`): they are the root on disk, and memory has
the root before. `MemoryMatchesDisk` and `RootAdvances` say what follows from that: memory is behind
by this one publication, and the next publication takes its generation and its place in the chain.

Files written in place have a torn instant; files written through a temporary name
(`replaceDurable`) do not. `Origins` says which directories a behaviour may start from: a fresh
one, a legacy schema-1 root that is migrated, or either. Content is abstract: `validateState()` is about the records and is modelled
where they are.

### 2.4 PackageRecords

Heads, owned revisions, retained heads, the outbox, the rows and the drain. A mutation of the store is one
action. `faults` holds the calls that may fail in a behaviour and how many failures are left. A drain is three: `DrainBegin` copies the outbox, each `DrainApply` writes one queued
change into a row unless the row is newer, `DrainAcknowledge` removes from the outbox what was
applied when some writes failed, `DrainEnd` acknowledges the rest or moves it to the dead letters
in a second mutation, and `DrainFails` is a drain whose acknowledgement failed. A row is only its generation, since reading a deck overlays the projection of the store on the row.
`clock` stands for `updatedAt`, which makes the identity of each upsert of a save, a restore or an
import distinct. A removal is identified by deck and generation, and the upsert of a compensation
carries the row as it was, so either can have the identity of a write that is still queued;
`queueCompatibilityWrite()` then queues nothing (`AlreadyQueued`). Whether a compensation meets such an
upsert depends on the row, so the model leaves it open (`QueueCompensation`). `Remaining` is the filter
of an acknowledgement or a rollback.

A head carries what its readers check. `edits` counts the saves since the last committed authority of its
package revision, the import, an export or a restore: with none `pendingJournalHash` is absent, with more than one
`resolveEditedExportContext()` finds no authority (`HasAuthority`). `journal` is `journalRevisionId`, set by a save
and by an export that materializes an edit; `hasConsistentAuthorityPointers()` wants it null when nothing is pending
(`Readable`). A restore refuses pending heads (`CanRestoreForward`). `HeadsOK` says that `NoHead` is no head.

The history variables `commits` and `lost` record the published generations and the decks of which
a write was dead-lettered or dropped as a duplicate. Properties about rows exempt these decks, and say so:
the code gives a write that could not be applied up on purpose, so that it does not block the others. The
dropped duplicate is a defect ([section 4](#4-what-the-checks-found)).

### 2.5 DeckLifecycle

The requests of one or more decks, one action per stretch between two awaits. `Workloads` names
the sets of requests and failures that are explored together; a behaviour chooses one. In a
workload with `"pair"` both decks exist, in any other only one; `"single"` lets only one of the two be deleted.

| Request | Actions |
|---|---|
| `PUT /:id` | `Save`, `SaveDrain`, `SaveReturns` |
| edited export | `ExportBegin` (reads the head), `ExportCommit` or `ExportRefused`, `ExportDrain`, `ExportReturns` |
| `POST /:id/history` | `SnapshotBegin`, `RetainSnapshot`, `RetainRefused`, `WriteSnapshotFile`, `SnapshotFileFails`, `UnretainSnapshot`, `PruneOldest`, `PruneDone`, `ReleaseSnapshot`, `ReleaseFails` |
| restore | `RestoreBegin`, the snapshot steps, `Forward`, `ForwardRefused`, `HistoryDrain`, `RestoreReturns` |
| removal of a snapshot | `RemoveBegin`, `ReleaseSnapshot` |
| `DELETE /:id/permanent` | `DeleteBegin`, `DeleteRead`, `DeleteRetain`, `DeleteQuarantine`(`Stale`,`Fails`), `DeleteStale`, `DeleteSplice`(`Fails`), `DeleteCheck`, `DeleteUndo`(`Fails`), `DeleteUndoRelease`, `UndoReturns`, `DeleteOwners`, `DeleteRelease`, `DeleteFiles`, `DeleteReturns` |

`hist[d]` is the request that holds the history lock of a deck (`withHistoryLock`): history and
delete requests of one deck exclude each other, saves and exports do not take the lock. A crash
forgets all requests and the drain; a restart drains before it serves. Releases of owners in a
deletion do not fail in the model.

`Save`, `ExportCommit`, `Forward`, `RetainSnapshot` and `DeleteRetain` have an outcome in which the publication
commits and the call throws (failure `"commit"`): the request fails and does not drain what it queued
(`routes/presentations-crud.js:368-379`). `missed` holds such decks until the next drain begins, whoever begins it.
After an export nothing is reloaded, so its commit shows only when a reload for another request finds it, and is replaced if
another mutation comes first: `ExportCommit` stands for the first at the time of that reload, `ExportRefused` for the second.
Until then the model starts no other export of the deck.

The bodies of a deck differ in their text only, which is all an export can materialize
(`validated-edited-export-context.js:112`). An export of a head with nothing pending adds a result and changes no
head; it is left out.

### 2.6 PackageImport

An import makes a new deck, so a deck names its job too. `run[d]` is what `runImport()` awaits,
`stage[d]` the stage promise that has not settled, `aborted` and `deadline` the signal, `late`
a clean-up still to come. After an abort `Abandon` ends the job while the stage goes on; its
result arrives as `Publish`, then `CommitReturns` or `CommitFails`, then `LateUndo`, then `Settle`, which
gives the slot back. `receipt` is the durable job of the store, which survives a crash while the
job table does not. A job cannot be cancelled during its upload, because the client has not
been told its identifier. `OtherDrain` is a drain by any other request.

### 2.7 EditorSave

The save controller of the editor for one package-backed deck, with its PUTs, the conflict and
recovery dialogs and the draft of the browser. A body is the set of the edits it contains. `ctl`
holds the controllers of a page: an unmounted one keeps running until its requests have ended, so
that the last in the sequence is the mounted one. Each is a record with the queued, the failed, the
in-flight and the handed-over entry, the timer, the accepted generation, the attempt and the route epoch.

| Code | Actions |
|---|---|
| `scheduleSave`, `processQueue`, `persistEditorSave` | `EditDoc`, `ManualSave`, `RetrySave`, `TimerFires`, `DeliverSave`, `SaveAnswered` |
| `savePackageProjection` (server) | `Verdict`, `Serve`: idempotency key, request hash, expected generation |
| conflict dialog | `KeepLocal`, `UseRemote`, `CloseConflict` |
| `flush`, `resetForRoute`, teardown | `SwitchRoute`, `Unmount`, `ClosePage`, `DeliverFlush`, `FlushAnswered`, `DeliverLate` |
| load and recovery | `Open`, `LoadArrives`, `DraftRead`, `RecoverLocal`, `DismissDraft`, `DeferDraft` |
| `flushAndWait`, validated export | `StartExport`, `ReadFidelity`, `ExportAnswered` |

A request or its answer can be lost, also of a closed page (`wire`). Another client saves by
`RemoteSave`. Both dialogs are modal; `Retry` is offered only while the status says that a save
failed (`QuickAccessToolbar.jsx:61-76`). Left out: leaving the deck in the middle of an export, a
browser without `localStorage`, a load that fails, templates and legacy decks. A GET is
one step with its answer.

### 2.8 LiveRooms

One room of a live presentation. A socket is one connection with one role; a page that comes back is another socket.
The handler of `join-room` reads decks with `await`, so `handler` says where the join of each
socket is: a presenter reads its deck (`PresenterLoads`) and sends it to one recipient after the
other (`EmitTo`), a member reads the deck of the room (`MemberLoads`); each payload is sent only if generation,
deck and presenter are still the ones the handler read (`CanEmit`). The countdown keeps its state, the
entry in `timerTimeouts` (`slot`) and the number of timeouts that are really pending, which
is how a leaked timeout would show. `Left`, `MaybeCleanup`, `CleanupFires`, `GraceExpires` and
`RemoveRoom` are the end of a room.

`findById` of the deck of a member is taken to succeed, a room code is not registered twice, a
presenter names its deck. Slide navigation and annotations are not modelled; of the latter, a
member whose join overlaps the return of the presenter can miss `annotations:sync`
(`services/socket-handler.js:313`), which no property covers.

### 2.9 GameRooms

The room of one game of a deck. The id of a game is that of its element, so rooms follow each
other under one id and `room.number` tells them apart: channels and capabilities belong
to one of them. Handlers are synchronous, one action each. `conn` is what the server keeps of
a connection; the old connection of a person who has come back may still be open. Answers can be lost:
`BootLost` that of `game-bootstrap`, a `Dial` without a `Receive` that of `game-join`.

| Code | Actions |
|---|---|
| `bootstrapPresenterGames`, `createRoom` | `Bootstrap`, `BootAnswered`, `BootLost` |
| `joinRoom`, `observeRoom`, `game-session` | `Dial`, `Join`, `Rejoin`, `Observe`, `Receive` |
| `disconnectRoom`, `leaveRoom`, `scheduleEmptyCleanup`, `cleanup` | `Disconnect`, `Leave`, `CleanupFires`, `UnclaimedFires` |
| `activateRoom`, `endGame`, `nextQuestion`, `submitAnswer`, votes, pairs, words | `Start`, `End`, `NextQuestion`, `Answer`, `Vote`, `SubmitWord`, `ClearWords` |

A behaviour begins when the deck is first presented, with the answer of the first bootstrap on its way. `Casts`
are the groups of persons explored together and `Kinds` the games. Each presenter page is taken to have a live room of
its own, hence an owner of its own: `HostKeepsItsRoom` says nothing of pages that share one, nor of callers of the REST routes
(`routes/games-rest-api-handler.js:38-43`). A poll shares `Start` and `Vote`
with a matching game. Not modelled: the REST routes (a REST join takes any socket id and
can pin a room as occupied), the host page of the editor, the name picker, teams, the time limit
of a question.

## 3 The runs

| Run | Result | Instance | Distinct states |
|---|---|---|---|
| `fenced` | pass | 2 processes started one at a time, 4 claims, 1 restart each, 1 failed write, 2 commits, fairness | 114,746 |
| `fenced_race` | **violation** | 2 processes reclaim at once, 1 restart each | – |
| `store_crash` | pass | 2 mutations, by requests and by exports, from a fresh directory and from a legacy root, 3 acquisitions, 2 transactions, 2 authority epochs, 2 failed calls, crashes, fairness | 1,333,119 |
| `store_reload_wipe` | **violation** | 1 failed reload | – |
| `deck_lifecycle` | pass | 1 deck, 2 contents, 3 generations, all requests, a snapshot cap of 1, 1 failed call, 1 crash, in five workloads; and 2 decks, 2 generations, snapshot, restore, delete, 1 failed splice; fairness | 298,628 |
| `deck_rollback` | **violation** | 2 decks, snapshot, restore and delete, no failed call | – |
| `import_jobs` | pass | 2 imports for 1 slot, 1 failed call, 1 crash, other drains, reconciliation | 794,298 |
| `import_rollback` | **violation** | 1 import, no failed call, no crash | – |
| `editor_save` | pass | 2 edits, 3 saves, 1 lost request or answer, the deck left once; five workloads: another client with each way of leaving, a deferred draft, an export; fairness | 381,521 |
| `editor_export` | **violation** | 1 export beside another client | – |
| `live_rooms` | pass | 2 presenters, 1 speaker, 1 viewer; 2 decks, or 1 deck and 3 commands to the countdown | 484,789 |
| `game_rooms` | pass | a host with a player, a second host or an observer; quiz, matching, cloud; 2 rooms, 3 connections, fairness | 661,592 |

### 3.1 What the passing runs show

*Lock.* `MutualExclusion`: one process believes it holds the lock, and nobody overwrites or
unlinks the record or the epoch of a running owner, so `assertOwned()` does not fail for it.
`FencingEpochAdvances`: every acquire that returns has a greater epoch than all before.
`CommitsSurvive`: an owner publishes on top of everything durable. `ReadableLockIsReclaimed`:
the lock of a dead owner is taken over. Starts that overlap are not safe
([section 4](#4-what-the-checks-found)).

*Store.* `NoLostCommit`, `PublishedRootIsVerified`, `MemoryMatchesDisk` and the refinement
`AtomicSpec`: a crash at any call, and a failed call other than the write of an index or a reload,
leave the old state or the new one and keep every acknowledged mutation. After a failed request memory agrees with
the files again. After an export that failed past the rename it lacks what that export changed, and no more, and
the next publication replaces the root of that export. `RootAdvances`: in any other case a mutation replaces the root by one
of the next generation; always by a fresh transaction, with epochs that do not go back. `ComesBack`: a stopped store that can be read serves again, also when a
publication of its recovery failed.

*Decks.* `RowsMatchHeads`: when nothing of a deck is queued or being applied, its row is there
exactly when its head is, with its generation. `NoCommitIsOverwritten`: no two contents under
one generation and no step back, whatever stale head an export, a restore or a compensation
holds. `HeadsAreServable`: what a head needs is owned, all heads have the authority epoch of the state, and a head on the
imported package with nothing pending can be read. It does not say that every head can be read or exported: they cannot
([section 4](#4-what-the-checks-found)).
`SnapshotsAreRestorable`: an offered snapshot has the retained head it shows, which is readable and has nothing pending, and the snapshot
a restore takes first does not prune its target. `DeletedLeavesNothing`: a deletion that answered 200
is complete and final. `RowsNeverGoBack`, `RowsCatchUp`: rows follow heads, forwards only,
by the drain of the request that published, or by the next drain when that request failed before its own.

*Imports.* `LimitCoversLateWork`: abandoned stages and their clean-ups count against
`MAX_CONCURRENT_RUNNING`. `AbandonedLeavesNoHead`: a settled failed or cancelled job has no head,
owner or queued write, unless an error was only logged. `PublishedIsListable`: done is reported
only when the row is there, and a crash between publication and drain does not hide a deck.
`ReconciledLeavesNothing`: a reconciliation that answered 200 is final.

*Editor.* `NoEditVanishes`: until the user chooses to drop it, an edit is on the server, in the open
editor or in the draft; edits of a draft "kept for later" are exempt (section 4). `NoSilentOverwrite`: a save
never drops what another client saved unless the user was shown it; the export breaks this
(finding 5). `OlderNeverOverNewer`: a delayed, retried or handed-over save does not replace a newer
one. `SavingSettles`: "saving" ends.

*Rooms.* `ReaperFollowsOccupancy` (both modules): an empty room has a timer that ends it, an
occupied one has none that is meant for an empty one, and no departed socket counts as a member. `MembersShowTheDeck`: when joins
have settled, everybody shows the deck of the presenter. `RunningClockIsArmed`: a running
countdown has exactly one timeout, any other none. `SeatsAreBacked`: a seat belongs to an open
connection of that player, the one that joined last. `HostKeepsItsRoom`: lost answers do not lock
the owner out of its room, and nobody else becomes its host. `TalliesAddUp`: a question scores once, votes and words are
those of players. `RoomsEnd`: deserted and finished rooms are removed.

Some hazards are described by the models rather than caught by a property, since the property exempts the case: a torn
epoch file (`ReadableLockIsReclaimed`), a torn high-water file (`ComesBack`), a dead-lettered or dropped write (`lost`), a
draft kept for later (`shelved`), an abandoned export (`abandoned`), a head with edits that cannot be read. `FencingEpochAdvances`
is about starters that do not overlap; overlapping ones are the subject of `fenced_race` alone, and the save
that an export hides is the subject of `editor_export` alone. The questions that go on after a game has ended are in the model and no
property is about them.

### 3.2 Bounds

Every bound is a constant with that comment in its module. They are large enough for the cases
that the properties are about: two claims past an abandoned one and two restarts; two
acquisitions past the legacy root; an export that fails past the rename and a publication over its root, with a
second failure in it; a save, a restore and an export on
one deck (three generations); a snapshot more than the cap, so that each snapshot prunes; two
imports for one slot, so that the second meets the late work of the first; a save in flight, its
queued successor and a save after a conflict or a recovery; a presenter that replaces another
while a member joins; a player's old connection that ends after the new one has joined, and a
second room under the id of the first. Each action of each module fires in some passing run, and each
property of a passing run is violated when one definition is replaced by a plausible bug (the
mutants in `PROJECT.json`).

The six workloads of `deck_lifecycle` share one run. Five have one deck: save, export and
deletion with a crash and the failures of publications, deletions and drains; save, history and
deletion with the failures of snapshots and acknowledgements; the same with a crash; history and
deletion with a crash and the failures of snapshots; and save, export, history and deletion with
a publication that commits and throws. The sixth has two decks, one of which may be deleted,
and the requests that meet through the authority epoch, the history files and the outbox; that
both are being deleted is left to the proofs, which restrict nothing. Three commands are a start, a pause and a resume of the countdown. With `SnapshotCap = 1` a restore prunes the snapshot it has just taken,
since its target is protected: an artefact of the smallest cap, harmless to the properties.

The runs that set `CHECK_DEADLOCK FALSE` stop at their bounds: no claims, acquisitions, imports,
connections or saves are left. The deck runs check deadlock, since a delete can always be asked for.

### 3.3 Fairness

| Run | Assumed | Why the code gives it |
|---|---|---|
| `fenced` | a process runs its calls to the end; a dead one is restarted; a request that finds no store initialises it | awaits on file calls settle; `initializePackageStore()` is called again |
| `store_crash` | weak fairness of `Start`, recovery steps and publication steps | supervisor restart; the same awaits |
| `deck_lifecycle` | weak fairness of drain steps, restart and the steps of requests that have begun | the event loop serves settled promises in order |
| `editor_save` | weak fairness of what a controller does by itself: timers, requests, answers | the browser fires timers and settles each `fetch` with an answer or an error |
| `game_rooms` | weak fairness of the two clean-up timers | `setTimeout` fires |

No fairness is assumed of clients, users, crashes or failures, and no request has to begin.
`ReadableLockIsReclaimed`, `ComesBack` and `RowsCatchUp` name the cases the code gives up:
an unreadable epoch file, an unreadable store, a write that was dead-lettered or dropped.
One failed call is enough for a row to lag: a save, an export or a restore whose publication commits and
throws does not drain (`missed`), and the row waits for a drain that no request has to begin. `RowsCatchUp` claims
that it catches up once one has begun. It is checked with one failed call and is false with two, by a deletion that fails after
its quarantine and cannot drain either.

## 4 What the checks found

Each of these is a run that TLC finds violated.

1. **A reclaimer unlinks another's lock** (`fenced_race`, `store/writer-lock.js:120`).
   `reclaimAbandoned()` unlinks the path, not the record it probed. Two processes probe the same
   abandoned lock; the faster one unlinks, claims and passes `assertOwned()`; the slower one
   unlinks the fresh lock. The comment on `claim()` says they cannot both win.
2. **A failed reload empties the store** (`store_reload_wipe`, `services/pptx-import/package-store-runtime.js:98`).
   `reload()` clears the object before it reads; when the read fails the error is recorded and
   the cleared object is used by the next mutation, whose root holds nothing else.
3. **A compensation carries an old epoch** (`deck_rollback`, `store/lifecycle.js:206`). The head
   retained by a deletion keeps its authority epoch; when another deck is restored meanwhile
   the epoch of the state moves, `validateState()` demands one epoch for all heads, and the
   compensation can never be published.
4. **A rolled back import leaves a row** (`import_rollback`, `routes/pptx-import.js:498`). A drain has
   copied the write of the deck when the import is cancelled; it adds the row after the rollback
   removed the head and the queued write. Nothing removes it until a reconciliation.
5. **An export hides another client's save** (`editor_export`,
   `src/client/src/hooks/use-export-actions.js:163`). The export asks for the generation right
   before it starts and adopts its successor; the save queued behind it then expects a generation
   whose content this editor never loaded, and replaces it without a conflict.

Smaller weaknesses that the models show or that came up while writing them, and that no run of
the table states:

- A crash while `fencing-epoch.json` is rewritten makes each later acquire throw; a torn
  high-water file makes every root unreadable until someone removes it (the exemptions of
  `ReadableLockIsReclaimed`, `ComesBack` and, for the high-water file, `MemoryMatchesDisk`); a
  write of the epoch that fails with the process alive leaves a lock that nobody can reclaim.
- An edited export that fails between the rename of the root and the directory sync has published a durable root
  that memory does not have, since nothing reloads the store (`mutation-transaction-execution.js:260-277`,
  `store/state-store.js:240`). The next publication of any request is built on the root before it and replaces it under
  the same generation; a restart in between keeps it. The caller of the export was told that it failed, so no
  acknowledged mutation is lost; what disagrees is that a root once durable is undone (`TakesItsPlace`, `doubt`).
- Heads that nobody can read. A pending head is resolved with the committed authority of the generation before it
  (`validated-edited-export-context.js:96-102`): after two saves in a row there is none. With nothing pending,
  `journalRevisionId` has to be null (`package-backed-presentation-read.js:47-48, 99`): after an export that
  materialized an edit it is not (`mutation-transaction-execution.js:234`). Such a deck can be saved and deleted, but `GET /:id`
  answers `CURRENT_SOURCE_AUTHORITY_UNAVAILABLE`, and neither export nor snapshot nor restore is possible. An edit of
  anything but text cannot be exported either, as
  `services/validated-edited-export-materialization.test.js:371-403` demands.
- A failed write of an index leaves a torn file that the same process trusts when it publishes
  the same state again (`store/state-store.js:218`); `BenignFaults` excludes it.
- A write can be dropped as a duplicate of one that is no longer the last of its deck
  (`services/pptx-import/compatibility-outbox.js:18`). A deletion quarantines a deck (queued: the removal), cannot
  splice the row, restores the head (queued: removal, upsert), and its drain fails. A second deletion queues nothing,
  because its removal has the identity of the first; its drain applies the removal and then the upsert, and the
  request answers 200 with the row back and no head. The attempt to prove `RowsMatchHeads` found this: it takes two
  failed calls, and the run allows one.
- A draft kept for later is overwritten by the next edit and removed by its save, although
  `src/docs/system-architecture.md:102-103` names two ways only in which a draft goes
  (`use-editor-recovery-controller.js:31`; `shelved` in `EditorSave`).
- A recovered draft whose save had in fact committed is sent again under its old idempotency key
  but with the current generation, and is answered `IDEMPOTENCY_KEY_CONFLICT` each time
  (`RecoverLocal` and the answer `"keyed"` in `EditorSave`).
- `nextQuestion()` after `endGame()` makes a game active and leaves its removal timer armed
  (`services/game-room-manager-singleton-service.js:689`).
- A player whose `game-session` answer is lost has a seat under a token its browser never
  stored, and cannot join again (`joinRoom`, lines 533-541).

## 5 What is proved

Seven parts have proofs, each for every value of the constants that the named assumptions of its module
allow. All theorems but `EpochsAreKept` state a property that a run checks on its instance. Every
invariant and every action property of the passing runs has a theorem; their liveness properties have none.

### 5.1 The writer lock: FencedPublicationProofs

| Theorem | States |
|---|---|
| `LockIsWellTyped` | `FencedSpec => []TypeOK` |
| `OneOwner` | `FencedSpec => []MutualExclusion` |
| `EpochsAdvance` | `FencedSpec => FencingEpochAdvances` |
| `CommitsAreKept` | `FencedSpec => CommitsSurvive` |

**Assumptions.** `ConstantsOK`, `FilesOK`, and the hypothesis `OneStarterAtATime`, without which
`fenced_race` refutes what an owner relies on. The number of processes, of crashes, restarts, failed writes and
claims is arbitrary.

**Argument.** That one process believes it is the owner says nothing about the lock file, so
`LockInv` adds what each process may conclude from the file at each of its calls. `StartersInv`:
at most one process is between the start of `acquire()` and its answer, a dead one is nowhere.
`ClaimInv`: a record names the incarnation that made it, and no record is from the future, so that a
restart keeps a gone owner gone. `FileInv`: an owner finds its own record and epoch; a claimant that has
created the file finds its own file; what a reclaimer probed is still there or has been
released; what it is about to unlink belongs to a process that has gone. Mutual exclusion follows since
an owner's record is in the one file. `EpochInv`: what was granted is at most the number in
the epoch file, unless that file is torn, and less than the epoch of a claim. `MemoryInv`: an owner that
has loaded the root has all its commits, since nobody else can replace it; only a loaded owner publishes.

### 5.2 The durable store: StateStoreProofs

| Theorem | States |
|---|---|
| `TypeCorrect` | `TypeOK` |
| `EpochsAreKept` | neither epoch of the root goes back |
| `CommitsAreDurable` | `NoLostCommit` |
| `RootsAreVerified` | `PublishedRootIsVerified` |
| `MemoryAgrees` | `MemoryMatchesDisk` |
| `RootsAdvance` | `RootAdvances` |
| `StoreIsAtomic` | `Spec` implements `AtomicStore` under the refinement mapping of `StateStore` |

**Assumptions.** `ConstantsOK`, for fresh and for legacy directories. The first two theorems put no condition on
failing calls. The others have the hypothesis `BenignFaults`: failing calls are among the
high-water file, the WAL record, the root, the directory sync after it and the completion marker.
Failed writes of an index and failed reloads are excluded, because they break the theorems (section 4).
Crashes are not restricted.

**Argument.** None of the properties is inductive. The invariant `IInv` adds

- `TornInv`: a torn index file belongs to an earlier fencing epoch, except the one being written.
  This is why taking an existing file for a complete one is safe after a *crash*: the next owner
  has a new epoch, hence never publishes the same state. With a failed write the process
  lives on under the same epoch;
- `NextInv`: from the preparation on, the state to publish is complete on disk, has the epoch of
  its owner and is the state in memory, one generation later, with the mutation in flight;
- `MemoryInv`: an object that has taken over the files holds the current root and its content
  (`Agrees`), or is one publication behind it (`OneBehind`): the durable root was built on the one in memory and
  nothing that was acknowledged is in the difference. The second holds only between a rename and the reload that
  follows a failed request (`ReloadInv`), or after an abandoned export. A failed reload breaks both (finding 2);
- `HighWaterInv`, `OutOfService`: the high-water file is readable whenever a reload could need it,
  and a store whose high-water file is torn serves nobody;
- `EpochInv` and `TxInv`, for the two theorems about epochs and about generations and transactions.

`NoLostCommit` then says that a root is only ever replaced by one that contains it, and the
refinement that `ReplaceRoot` is the instant of `Commit`, `Complete` that of `Acknowledge`, and
every failure or crash `Forget`. The mapping takes for `doubt` what is durable and not in memory while the store serves:
a `Commit` over an abandoned export takes it back. The proof has one lemma per conjunct of the invariant that
a group of actions can disturb, and one step per action.

### 5.3 The decks: PackageRecordsProofs and DeckLifecycleProofs

| Theorem | States |
|---|---|
| `HeadsAreNeverOverwritten` | `Spec => []NoCommitIsOverwritten` |
| `HeadsStayServable` | `Spec => []HeadsAreServable` |
| `SnapshotsStayRestorable` | `Spec => []SnapshotsAreRestorable` |
| `RowsShowTheHeads` | `Spec => []RowsMatchHeads` |
| `RowsOnlyGoForward` | `Spec => RowsNeverGoBack` |
| `DeletionsAreFinal` | `Spec => []DeletedLeavesNothing` |
| `DecksAreWellTyped` | `Spec => []TypeOK` |

**Assumptions.** The assumptions of `PackageRecords` and `DeckLifecycle` on their constants. `HeadsOK` says that
`NoHead` is no head and that a deck has some content; the numbers of decks, contents, snapshots, generations,
failing calls and crashes are arbitrary, and so is what occurs together.

**Argument.** The head of a deck is one of its commits and none is newer. That is not inductive: the
compensation of a deletion publishes again a head that was retained earlier. `AuthorityInv` therefore says
the same of the head a deletion retained, once the deck has none of its own; it holds since nothing
publishes in a deck without a head, and at the quarantine the retained head is the head itself
(`RequestInv`, from the comparison `heads[d] = hist[d].cur` in front of it). A restore moves the
epoch of all heads, which leaves commits and revisions alone. What an export or a restore read before its
awaits matters only through the comparison at its end. `PointersInv` follows the authority pointers of heads and retained
heads (`Sound`): a head on the imported package with nothing pending has no journal. An export gives a
revision of a higher ordinal, so it never comes back to the imported one; a restore and an export that changes nothing drop the
journal of a head that has.

`SnapshotsAreRestorable` is about files, retained heads and the requests between the two. `Unfiled`: the
snapshot that a request has in hand is in no file, so neither the release after a failed write nor the
one after a removal can take the head of a listed file; this needs `Distinct`, no two files of one snapshot.
`Targeted`: what is pruned during a restore is not its target. `Backed` must hold of decks without a head
too, as long as the deletion can still be undone (`Recoverable`): the compensation gives the deck
back with its snapshots. `Deleting` says that the deletion releases snapshots only past that point. A
file that comes back after a failed release is marked, so it is not offered. That the head is readable and has nothing
pending is carried from the request that began with such a head (`Backs`, `Unfiled`) to its file.

The rows need an invariant of the queue, `QueueInv`, which `PackageRecordsProofs` shows to be kept by every way to
queue a write and by every step of a drain. `LastShows`: the last queued write of a deck says what its row should
show, and no commit is newer. `RowShows`: when the drain has seen all writes of a deck, the row shows its head
already. `InPlace`: what a drain has seen is the beginning of the queue and what it has to do is the next part of it,
in order; that stays true when writes are queued behind it, and after a crash or a failed acknowledgement
everything is unseen again. An old write that is applied a second time is older than the row and is skipped, or a
later one of the deck follows it. `EachOnce`, no write is queued twice, is why an acknowledgement takes away exactly
what was seen. `RowsMatchHeads` is the case that nothing is queued. A deck in `lost` is exempt from `LastShows` and
`RowShows`, not from the rest. `RowsNeverGoBack` needs the types only.

The filter of an acknowledgement is a recursive function, and what it leaves (`RemainingSet`, and `Left` for the
order) is proved by induction. The library's induction theorems take an operator, which the provers cannot
instantiate; `Climb` states induction for a *set* of numbers and follows from the well-foundedness of `<`.

`DeletedLeavesNothing` is carried by `DeletionsInv`: what a deletion has left behind at each of its last steps
(`Cleared`), and that a deleted deck has no request that could bring something back (`Gone`). When its own drain
runs, the drain has every queued write of the deck before it or behind it (`Seen`), since nothing is queued for a deck
without a head.

### 5.4 Imports: PackageImportProofs

| Theorem | States |
|---|---|
| `LateWorkStaysWithinTheLimit` | `Spec => []LimitCoversLateWork` |
| `AbandonedImportsLeaveNothing` | `Spec => []AbandonedLeavesNoHead` |
| `PublishedImportsAreListed` | `Spec => []PublishedIsListable` |
| `ReconciliationsAreFinal` | `Spec => []ReconciledLeavesNothing` |
| `ImportsAreWellTyped` | `Spec => []TypeOK` |

**Assumptions.** `RecordsConstants`, `HeadsOK`, `CallersAreDrainers` and `ImportConstants`: the limit is a positive number and there are finitely many
decks, since the limit counts them. Failures, crashes, reconciliations and other drains are arbitrary.

**Argument.** That no more than `MaxRunning` jobs are counted is kept by the guard of `Admit` and needs little.
That the count covers all *work* is the point: `JobInv` says that whoever works has its operation
pending, hence is counted, and which stage can be open where a job is, so that the last clean-up
settles the job and nobody earlier. `AuthorityInv` says of each published head who is still to
answer for it (`Answerable`): the stage whose promise is open, a clean-up to come, the
rollback of the job, a job that is done or has been forgotten, or an error that was only logged. A job that has
ended without its deck and has settled is none of these, so it has no head.

The other properties need the outbox, the drain and the rows (`RInv`). Imports queue upserts only, so order does not
matter: the question is whether a write of the deck is still queued, is to be applied by the drain, or was done.
`Drift` says what any step of any drain can do to these three and to the row, and is proved once for each such step.
`ListInv`: a queued write has its head, a published deck has a row or a queued write, and the drain of its own job
carries what the row lacks; so the job is done only with the row there. `FreshInv`: no write of an import precedes its
publication, hence nothing of a deck is around when it publishes. `ReconcileInv`: a rollback takes away every queued
write, but a drain may hold a copy (finding 4). There is one drain at a time, so the drain of the reconciliation begins
after that copy was applied, with none in the queue; from there on no write of the deck is on its way, and removing
the row is final.

### 5.5 The save queue of the editor: EditorSaveProofs

| Theorem | States |
|---|---|
| `SavesDropNothingUnseen` | `Spec => []NoSilentOverwrite` |
| `SavesKeepTheirOrder` | `Spec => OlderNeverOverNewer` |
| `EditsNeverVanish` | `Spec => []NoEditVanishes` |
| `SavesAreWellTyped` | `Spec => []TypeOK` |

**Assumptions.** `EditorConstants` and `NoEntryOK`, and the hypothesis `ExportsAlone`: a workload with exports has no
other client and does not leave the deck. `editor_export` shows that it is needed (finding 5). Edits, saves, lost
requests and answers, pages, other clients and the order of everything are arbitrary.

**Argument.** The generation check of the server protects a body only if whoever sends its generation knows
that body. `Safe` says this of every entry, wherever it waits: queued, failed, in flight,
handed over or on the wire of a closed page. An entry gets its generation from what the controller
accepted, when it is scheduled or when an answer raises it, so `Informed` says that whoever saves over the
accepted generation knows the body of the deck, *also when a request that is still to be answered
turns out to be the current save*: that is what an answer adopts. `Hopes` is the condition for it. A failed
or lost save may have been committed (`Replayed`), and hope only fades as the head moves on (`HopeFades`).

The page adds the rest. A queued entry knows exactly what is in the editor or has been shown (`PageInv`), so a raised
entry is as good as a new one. A save of a route that was left counts for nothing, since its epoch is older
(`HeededIs`). While the conflict dialog is open, what waits below it cannot succeed any more (`Stuck`); therefore
taking the remote version, which forgets the local edits, leaves no late answer behind that would raise the accepted
generation to a body nobody knows. A draft is offered to a page that shows what it has loaded and nothing else, and
is not newer than what the page accepted (`DraftInv`).

`SavesKeepTheirOrder` needs a second invariant on top of this one, `OrderInv`: whatever of the pending
entries *may* commit (it expects the current generation and its key is new) is newer than every save that has
been committed. The generation check alone does not give that, because an answer raises the generation of the
queue: an entry may come to expect the current generation long after it was made. It holds because the queue is
newer than what the controller has sent (`Tidy`), and because the save whose answer raised it is the newest one committed
(`NewerThanCurrent`). Keys enter since a recovered draft is saved under its old key with a new number: numbers and
keys grow together, so an entry that is not newer than a committed save has a key that is not new either, and the
server answers it as a replay. For this no draft may be older than a save it could be mistaken for (`DraftsInv`),
and a draft is offered only before anything of the route has been saved. A step is then described by what becomes of each
entry (`Stays`, `IsNext`), and `OrderMoves` shows once that such a step keeps the order.

`EditsNeverVanish` needs a third, `KeptInv`, which is stronger than the property: every edit is in `Saved` (the
deck, or given up by the user) or in the local draft; the document that is open is not needed.
`Saved` only grows, because a commit drops only what the entry's user saw (`Safe`), and what they saw and left
out was given up (`EntriesInv`). The draft goes only with a successful save that is not older than it. Such
an entry holds the edits of the draft (`EntriesInv`), whether it was queued before or after a reload, and its body is in
`Saved` by then (`AnswersInv`), also if the answer is the one to a replay (`Replayed`). `Pursues` says of each
operator of the controller that it may raise the generation of an entry and never changes what it holds. The
invariant was checked by TLC on the instance of `editor_save` before it was proved.

### 5.6 Live rooms: LiveRoomsProofs

| Theorem | States |
|---|---|
| `RoomsAreWellTyped` | `TypeOK` |
| `RoomsAreReaped` | `ReaperFollowsOccupancy` |
| `CountdownsAreArmed` | `RunningClockIsArmed` |
| `MembersSeeTheDeck` | `MembersShowTheDeck` |

**Assumptions.** `LiveConstants` only: any sets of presenters, speakers, viewers and decks.

**Argument.** The countdown needs `PresenterIsCurrent`: a join that still runs for the presenter of
the room was begun for the current generation, and sends the deck of the room, hence it passes its own
checks and re-arms the countdown at its end. `MembersShowTheDeck` needs `DeckIsOnTheWay`: a member of a
presented room shows the deck, or is among the recipients still to be served by the
presenter's join, or has a join of its own whose payload will pass `CanEmit`. A later presenter
empties the deck of the room, and its own join serves everybody again.

### 5.7 Game rooms: GameRoomsProofs

| Theorem | States |
|---|---|
| `GamesAreReaped` | `Spec => []ReaperFollowsOccupancy` |
| `SeatsStayBacked` | `Spec => []SeatsAreBacked` |
| `HostsKeepTheirRooms` | `Spec => HostKeepsItsRoom` |
| `TalliesAreRight` | `Spec => []TalliesAddUp` |
| `GamesAreWellTyped` | `Spec => []TypeOK` |

**Assumptions.** `GameConstants`: persons have one role, somebody in every cast presents the deck, and at least one
room can exist. The numbers of persons, connections, rooms under one id and questions are arbitrary.

**Argument.** `SeatInv` ties the three places that know of a connection. A joined connection is
on the channel of the present room; a taken seat names a joined connection of its own player; the connection that a
player joined with last holds the seat for as long as it is joined. The end of an old
connection therefore frees nothing (`Freed` compares the socket), and a removed room cuts everybody off. `HostInv` is
about who knows what. A capability is the number of a room, and numbers only grow, so that one of an
earlier room opens nothing. Whoever knows the number of the present room, stored, on its way or on
a connection, is the page that owns it. Whatever answers are lost, the room is still pending for that page or the page has
stored the capability; in both cases it gets in, as the only host.

`CountInv` is about what a room counts. A player scores only with a question it had not answered, so the score stays
below the number of answered questions through every rejoin, which takes the seat as it is. The count of the words is a
sum over the players that submitted, folded in an order nobody chose; `SumOf` is shown to have a value for every
finite set, which one more word of one player raises by one. Sessions and rooms stay within their numbers, which the
type invariant needs.

### 5.8 Only model-checked

Liveness (`ComesBack`, `RowsCatchUp`, `ReadableLockIsReclaimed`, `SavingSettles`, `RoomsEnd`) is out of
the prover's reach. The five runs that expect a violation end in a counterexample.

## 6 What is not modelled

Inside the modelled components: the per-deck single flight of exports, legacy decks without a
package (their PUT, deletion and history), listing, `duplicatePresentationOwner` and
`instantiateRetainedHead`, `collectGarbage`, server-sent events and the timer they hold, media
transactions of an import, shutdown. Idempotency keys and replays of saves are in `EditorSave` and
not in `DeckLifecycle`. The contents of rows are generations, so a compensation that writes an older
row of the same generation is not seen. A restart of the server in `DeckLifecycle` and
`PackageImport` takes the store as recovered (`StateStore`), and assumes one server process
(`FencedPublication`). What the rooms and the editor leave out is said in sections 2.7 to 2.9.

Whole components: those marked `not_modelled` in `PROJECT.json`. Parsing, mapping, journals and
validators are sequential computations on one file; renderers and exporters are output; the
routes of sharing, settings and plugins have one critical section each over a JSON file;
the visual oracle and the desktop shell are outside the server. Most of the lines of the
repository are of this kind: panels, templates, renderers and translators without a protocol. The rest is planned.

`src/docs/export-fidelity-and-limits.md` says itself that broader interleavings of the outbox
remain open; `DeckLifecycle` and `PackageImport` cover the ones of the requests they model.

## 7 Plan

Order: what can lose a user's work first.

1. *Done.* `WriterLock`, `FencedPublication` and their proofs; `AtomicStore`, `StateStore` and
   its proofs; `PackageRecords`, `DeckLifecycle` and `PackageImport` and their proofs; `EditorSave`,
   `LiveRooms` and `GameRooms` and their proofs.
2. *More of the system.*
   - `ProjectImportSession`: lock, promotion, crash and recovery;
   - templates, duplicates, trash and the legacy PUT in `PackageRecords` and `DeckLifecycle`;
   - `JsonStorage`: the queues of `storage.js` implementing one atomic change of a file, the
     counterpart of `AtomicStore` for rows;
   - liveness of one import (a job ends, its slot comes back, unless a parser never settles);
   - blobs and their collector, media deduplication under a rollback, OfficeCLI admission;
   - pure algorithms against a reference: `mergeCompatibilityPresentation`, the sync manifest.
3. *More proofs*, with each of these modules: its type invariant and its safety properties.

## Running

```
tlc -config fenced.cfg         FencedPublication
tlc -config store_crash.cfg    StateStore
tlc -config deck_lifecycle.cfg DeckLifecycle
tlc -config import_jobs.cfg    PackageImport
tlc -config editor_save.cfg    EditorSave
tlc -config live_rooms.cfg     LiveRooms
tlc -config game_rooms.cfg     GameRooms
tlapm FencedPublicationProofs.tla
tlapm StateStoreProofs.tla
tlapm PackageRecordsProofs.tla
tlapm DeckLifecycleProofs.tla
tlapm PackageImportProofs.tla
tlapm EditorSaveProofs.tla
tlapm LiveRoomsProofs.tla
tlapm GameRoomsProofs.tla
```

`PROJECT.json` lists the module of each configuration, the source lines behind every definition,
the mutants, the findings and the hazards.

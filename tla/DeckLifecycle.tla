----------------------------- MODULE DeckLifecycle -----------------------------
(***************************************************************************)
(* Package-backed decks under concurrent requests: saving, validated       *)
(* edited export, history snapshots and restores, and the permanent-delete *)
(* saga with its compensation (routes/presentations-crud.js,               *)
(* routes/history.js, generation-safe-save.js,                             *)
(* mutation-transaction-execution.js, package-lifecycle-integration.js).   *)
(*                                                                         *)
(* Requests interleave at every await.  History and delete requests of one *)
(* deck exclude each other (withHistoryLock); saves and exports do not     *)
(* take that lock.  The process can crash anywhere; a restart drains the   *)
(* outbox before it serves requests.                                       *)
(***************************************************************************)
EXTENDS PackageRecords

CONSTANTS
    NoSnapshot,    \* model value
    SnapshotCap,   \* snapshots kept per deck
    Workloads,     \* the choices of requests and incidents that occur together
    MaxGen,        \* bound: generations of a deck
    MaxPairGen,    \* the same bound where there is more than one deck
    MaxCrashes     \* bound: crashes

Requests == {"save", "export", "snapshot", "restore", "remove", "delete"}

ASSUME LifecycleConstants ==
    /\ NoSnapshot \notin Snapshot /\ SnapshotCap \in Nat \ {0}
    /\ \A w \in Workloads : w \subseteq Requests \cup FaultPoints \cup {"crash", "pair", "single"}
    /\ MaxGen \in Nat /\ MaxPairGen \in Nat /\ MaxCrashes \in Nat

VARIABLES
    files,     \* history snapshot files of each deck, oldest first
    save,      \* PUT of each deck: "idle" or "drain"
    export,    \* edited export of each deck, with the head it read
    hist,      \* the request that holds the history lock of each deck
    up,        \* whether the process serves requests
    crashes,
    deleted,   \* history: decks whose permanent deletion was answered 200
    missed,    \* history: decks with a publication whose request failed instead of
               \* draining, and no drain has begun since
    workload   \* what occurs in this behaviour ("pair": with more than one deck;
               \* "single": of which one may be deleted)

requests == <<save, export, hist>>
vars == <<recordVars, files, requests, up, crashes, deleted, missed, workload>>

-----------------------------------------------------------------------------
SaveCall(d) == <<"save", d>>
ExportCall(d) == <<"export", d>>
HistoryCall(d) == <<"history", d>>
Startup == <<"startup">>
Callers == {Startup} \cup ({"save", "export", "history"} \X Deck)

ASSUME CallersAreDrainers == Callers \subseteq Caller

Idle == [pc |-> "idle", cur |-> NoHead, target |-> NoSnapshot, snap |-> NoSnapshot,
         pos |-> 0, gen |-> 0, saw |-> FALSE, kept |-> FALSE, attempt |-> 0]
NoExport == [pc |-> "idle", head |-> NoHead]

SnapshotSteps == {"retain", "write", "unretain", "prune", "release",
                  "remove", "forward", "drain"}
DeleteSteps == {"d.read", "d.retain", "d.quarantine", "d.stale", "d.splice", "d.check",
                "d.undo", "d.undoRelease", "d.undoDrain", "d.owners", "d.release",
                "d.files", "d.drain"}

TypeOK ==
    /\ RecordsTypeOK
    /\ \A d \in Deck : files[d] \in Seq([id : Snapshot, gen : Nat, pending : BOOLEAN])
    /\ save \in [Deck -> {"idle", "drain"}]
    /\ export \in [Deck -> [pc : {"idle", "work", "drain"}, head : Heads \cup {NoHead}]]
    /\ hist \in [Deck -> [pc : {"idle"} \cup SnapshotSteps \cup DeleteSteps,
                          cur : Heads \cup {NoHead}, target : Snapshot \cup {NoSnapshot},
                          snap : Snapshot \cup {NoSnapshot}, pos : Nat, gen : Nat, saw : BOOLEAN,
                          kept : BOOLEAN, attempt : 0 .. 2]]
    /\ up \in BOOLEAN /\ crashes \in 0 .. MaxCrashes
    /\ deleted \subseteq Deck /\ missed \subseteq Deck
    /\ workload \in Workloads

\* The decks that were imported, with their rows.
Imported == IF "pair" \in workload THEN Deck ELSE {CHOOSE d \in Deck : TRUE}

\* The decks that may be deleted for good.
Deletable == IF "single" \in workload THEN {CHOOSE d \in Deck : TRUE} ELSE Imported

GenBound == IF "pair" \in workload THEN MaxPairGen ELSE MaxGen

Init ==
    /\ workload \in Workloads
    /\ heads = [d \in Deck |-> IF d \in Imported THEN FirstHead(CHOOSE b \in Body : TRUE)
                              ELSE NoHead]
    /\ owned = [d \in Deck |-> IF d \in Imported THEN RevisionsOf(heads[d]) ELSE {}]
    /\ retained = [o \in Owners |-> NoHead]
    /\ outbox = <<>> /\ epoch = 1 /\ clock = 0
    /\ rows = [d \in Deck |-> IF d \in Imported THEN 1 ELSE NoRow]
    /\ drain = NoDrain /\ lost = {}
    /\ faults = [at |-> FaultPoints \cap workload, left |-> MaxFaults]
    /\ commits = [d \in Deck |-> IF d \in Imported THEN {[gen |-> 1, body |-> heads[d].body]}
                                ELSE {}]
    /\ files = [d \in Deck |-> <<>>]
    /\ save = [d \in Deck |-> "idle"]
    /\ export = [d \in Deck |-> NoExport]
    /\ hist = [d \in Deck |-> Idle]
    /\ up = TRUE /\ crashes = 0 /\ deleted = {} /\ missed = {}

\* A drain begins: it finds whatever is queued, whoever queued it.
BeginsDrain(c) == DrainBegin(c) /\ missed' = {}

\* A publication of d throws although its root is installed (the directory sync
\* after the rename): the request fails and does not drain.
FailsAfterCommit(d) == Fault("commit") /\ missed' = missed \cup {d}

-----------------------------------------------------------------------------
(* PUT /api/presentations/:id *)

\* savePackageProjection() runs as one action of the store; with another
\* generation than the current one it changes nothing.  Bodies differ in text only.
Save(d, b) ==
    /\ up /\ "save" \in workload /\ save[d] = "idle"
    /\ heads[d] # NoHead /\ heads[d].gen < GenBound
    /\ LET h == [heads[d] EXCEPT !.gen = @ + 1, !.body = b, !.epoch = epoch,
                                 !.edits = IF @ = 0 THEN 1 ELSE 2, !.journal = "set"]
       IN  SetHead(d, h) /\ QueueUpsert(d, h.gen)
    /\ \/ save' = [save EXCEPT ![d] = "drain"] /\ UNCHANGED <<faults, missed>>
       \/ FailsAfterCommit(d) /\ UNCHANGED save
    /\ UNCHANGED <<owned, retained, epoch, rows, drain, files,
                   export, hist, up, crashes, deleted, workload>>

SaveDrain(d) ==
    /\ save[d] = "drain" /\ BeginsDrain(SaveCall(d))
    /\ UNCHANGED <<files, requests, up, crashes, deleted, workload>>

SaveReturns(d) ==
    /\ DrainEnd(SaveCall(d)) \/ DrainFails(SaveCall(d))
    /\ save' = [save EXCEPT ![d] = "idle"]
    /\ UNCHANGED <<files, export, hist, up, crashes, deleted, missed, workload>>

-----------------------------------------------------------------------------
(* Validated edited export: reads a head, works, publishes a successor *)

\* An export of a head with nothing pending only adds a result to the store.
ExportBegin(d) ==
    /\ up /\ "export" \in workload /\ export[d].pc = "idle"
    /\ rows[d] # NoRow /\ heads[d] # NoHead
    /\ heads[d].edits > 0 /\ HasAuthority(heads[d]) /\ heads[d].gen < GenBound
    /\ export' = [export EXCEPT ![d] = [pc |-> "work", head |-> heads[d]]]
    /\ UNCHANGED <<recordVars, files, save, hist, up, crashes, deleted, missed, workload>>

\* Mutant: the head is only required to exist.
SameHeadByPresence(d) == heads[d] # NoHead

\* assertTargetHeadUnchanged()
SameHead(d) == heads[d] = export[d].head

\* An edit that left the package's own content as it is only settles the pending
\* journal; any other one becomes a new revision and a new generation.  The export
\* does not reload the store when its publication throws: what it committed shows
\* when a later reload finds it, which is when this action stands for it, or the
\* next publication replaces it, and then it is as if it had been refused.
ExportCommit(d) ==
    /\ export[d].pc = "work" /\ SameHead(d)
    /\ LET h == export[d].head
           r == [ord |-> h.pkg.ord + 1, body |-> h.body]
       IN  IF h.body = h.pkg.body
           THEN /\ SetHead(d, [h EXCEPT !.edits = 0, !.journal = JournalAfter(h)])
                /\ QueueUpsert(d, h.gen) /\ UNCHANGED owned
           ELSE /\ SetHead(d, [h EXCEPT !.gen = @ + 1, !.pkg = r, !.edits = 0,
                                        !.journal = "set", !.epoch = epoch])
                /\ QueueUpsert(d, h.gen + 1)
                /\ owned' = [owned EXCEPT ![d] = @ \cup {r}]
    /\ \/ export' = [export EXCEPT ![d].pc = "drain"] /\ UNCHANGED <<faults, missed>>
       \/ export' = [export EXCEPT ![d] = NoExport] /\ FailsAfterCommit(d)
    /\ UNCHANGED <<retained, epoch, rows, drain, files, save,
                   hist, up, crashes, deleted, workload>>

\* The head changed, or the candidate was blocked: nothing is published.
ExportRefused(d) ==
    /\ export[d].pc = "work"
    /\ export' = [export EXCEPT ![d] = NoExport]
    /\ UNCHANGED <<recordVars, files, save, hist, up, crashes, deleted, missed, workload>>

ExportDrain(d) ==
    /\ export[d].pc = "drain" /\ BeginsDrain(ExportCall(d))
    /\ UNCHANGED <<files, requests, up, crashes, deleted, workload>>

ExportReturns(d) ==
    /\ DrainEnd(ExportCall(d)) \/ DrainFails(ExportCall(d))
    /\ export' = [export EXCEPT ![d] = NoExport]
    /\ UNCHANGED <<files, save, hist, up, crashes, deleted, missed, workload>>

-----------------------------------------------------------------------------
(* History: snapshots, restores, removals *)

Elsewhere == UNCHANGED <<save, export, up, crashes, deleted, workload>>
Unaffected == Elsewhere /\ UNCHANGED missed
StoreOnly == UNCHANGED <<rows, drain, faults, files>>
At(d, step) == hist[d].pc = step
Goto(d, step) == hist' = [hist EXCEPT ![d].pc = step]
Done(d) == hist' = [hist EXCEPT ![d] = Idle]

FileIds(d) == {files[d][i].id : i \in DOMAIN files[d]}
FreshSnapshot(d, s) ==
    s \notin FileIds(d) /\ retained[HistoryOwner(d, s)] = NoHead

\* What a snapshot may hold, and what a restore of it brings back.
Presentable(h) == Readable(h) /\ h.edits = 0

\* readAuthoritativePresentation() resolves and nothing is pending.
CanSnapshot(d) == rows[d] # NoRow /\ heads[d] # NoHead /\ Presentable(heads[d])

SnapshotBegin(d, s) ==
    /\ up /\ "snapshot" \in workload /\ At(d, "idle")
    /\ CanSnapshot(d) /\ FreshSnapshot(d, s)
    /\ hist' = [hist EXCEPT ![d] = [Idle EXCEPT !.pc = "retain", !.cur = heads[d],
                                                !.snap = s]]
    /\ UNCHANGED <<recordVars, files>> /\ Unaffected

\* POST restore/:snapshotId begins with a snapshot of the current deck.
RestoreBegin(d, i, s) ==
    /\ up /\ "restore" \in workload /\ At(d, "idle")
    /\ ~files[d][i].pending /\ CanSnapshot(d) /\ FreshSnapshot(d, s)
    /\ retained[HistoryOwner(d, files[d][i].id)] # NoHead
    /\ heads[d].gen < GenBound
    /\ hist' = [hist EXCEPT ![d] = [Idle EXCEPT !.pc = "retain", !.cur = heads[d],
                                                !.snap = s, !.target = files[d][i].id]]
    /\ UNCHANGED <<recordVars, files>> /\ Unaffected

RetainSnapshot(d) ==
    /\ At(d, "retain") /\ heads[d] = hist[d].cur
    /\ Retain(HistoryOwner(d, hist[d].snap), d)
    /\ \/ Goto(d, "write") /\ UNCHANGED faults
       \/ Goto(d, "unretain") /\ Fault("commit")
    /\ UNCHANGED <<rows, drain, files>> /\ Unaffected

RetainRefused(d) ==
    /\ At(d, "retain") /\ heads[d] # hist[d].cur
    /\ Done(d)
    /\ UNCHANGED <<recordVars, files>> /\ Unaffected

WriteSnapshotFile(d) ==
    /\ At(d, "write")
    /\ files' = [files EXCEPT ![d] = Append(@, [id |-> hist[d].snap, gen |-> hist[d].cur.gen,
                                            pending |-> FALSE])]
    /\ Goto(d, "prune")
    /\ UNCHANGED recordVars /\ Unaffected

SnapshotFileFails(d) ==
    /\ At(d, "write") /\ Fault("file")
    /\ Goto(d, "unretain")
    /\ UNCHANGED <<records, queue, rows, drain, files>> /\ Unaffected

UnretainSnapshot(d) ==
    /\ At(d, "unretain") /\ Release(HistoryOwner(d, hist[d].snap))
    /\ Done(d)
    /\ StoreOnly /\ Unaffected

\* Mutant: the target of a restore is pruned like any other snapshot.
PrunableAll(d) == DOMAIN files[d]

\* pruneSnapshots() spares the target of the restore it runs for.
Prunable(d) == {i \in DOMAIN files[d] : files[d][i].id # hist[d].target}

OldestPrunable(d) == CHOOSE i \in Prunable(d) : \A j \in Prunable(d) : i <= j

Without(d, i) == SubSeq(files[d], 1, i - 1) \o SubSeq(files[d], i + 1, Len(files[d]))

\* removeSnapshot(): the file goes first, then the owner.
RemoveFile(d, i, step) ==
    /\ files' = [files EXCEPT ![d] = Without(d, i)]
    /\ hist' = [hist EXCEPT ![d].pc = step, ![d].snap = files[d][i].id, ![d].pos = i,
                             ![d].gen = files[d][i].gen]
    /\ UNCHANGED recordVars /\ Unaffected

PruneOldest(d) ==
    /\ At(d, "prune") /\ Len(files[d]) > SnapshotCap /\ Prunable(d) # {}
    /\ RemoveFile(d, OldestPrunable(d), "release")

PruneDone(d) ==
    /\ At(d, "prune") /\ (Len(files[d]) <= SnapshotCap \/ Prunable(d) = {})
    /\ IF hist[d].target = NoSnapshot THEN Done(d) ELSE Goto(d, "forward")
    /\ UNCHANGED <<recordVars, files>> /\ Unaffected

\* DELETE snapshots/:snapshotId
RemoveBegin(d, i) ==
    /\ up /\ "remove" \in workload /\ At(d, "idle")
    /\ RemoveFile(d, i, "remove")

ReleaseSnapshot(d) ==
    /\ \/ At(d, "release") /\ Goto(d, "prune")
       \/ At(d, "remove") /\ Done(d)
    /\ Release(HistoryOwner(d, hist[d].snap))
    /\ StoreOnly /\ Unaffected

\* The owner remains: the file comes back, marked, and the request fails.
ReleaseFails(d) ==
    /\ hist[d].pc \in {"release", "remove"} /\ Fault("release")
    /\ files' = [files EXCEPT ![d] =
                    SubSeq(@, 1, hist[d].pos - 1)
                    \o <<[id |-> hist[d].snap, gen |-> hist[d].gen, pending |-> TRUE]>>
                    \o SubSeq(@, hist[d].pos, Len(@))]
    /\ Done(d)
    /\ UNCHANGED <<records, queue, rows, drain>> /\ Unaffected

\* restoreForward(), with the head the request began with.
Forward(d) ==
    /\ At(d, "forward")
    /\ heads[d] = hist[d].cur /\ CanRestoreForward(HistoryOwner(d, hist[d].target), d)
    /\ RestoreForward(HistoryOwner(d, hist[d].target), d)
    /\ \/ Goto(d, "drain") /\ UNCHANGED <<faults, missed>>
       \/ Done(d) /\ FailsAfterCommit(d)
    /\ UNCHANGED <<rows, drain, files>> /\ Elsewhere

ForwardRefused(d) ==
    /\ At(d, "forward")
    /\ \/ heads[d] # hist[d].cur
       \/ ~CanRestoreForward(HistoryOwner(d, hist[d].target), d)
    /\ Done(d)
    /\ UNCHANGED <<recordVars, files>> /\ Unaffected

HistoryDrain(d) ==
    /\ hist[d].pc \in {"drain", "d.undoDrain", "d.drain"} /\ BeginsDrain(HistoryCall(d))
    /\ UNCHANGED <<files, requests, up, crashes, deleted, workload>>

RestoreReturns(d) ==
    /\ At(d, "drain")
    /\ DrainEnd(HistoryCall(d)) \/ DrainFails(HistoryCall(d))
    /\ Done(d)
    /\ UNCHANGED files /\ Unaffected

-----------------------------------------------------------------------------
(* DELETE /api/presentations/:id/permanent *)

HistoryOwnersOf(d) == {s \in Snapshot : retained[HistoryOwner(d, s)] # NoHead}

\* The row is read first; what the store says of the deck comes after.
DeleteBegin(d) ==
    /\ up /\ "delete" \in workload /\ At(d, "idle") /\ d \in Deletable
    /\ hist' = [hist EXCEPT ![d] = [Idle EXCEPT !.pc = "d.read",
                                                !.saw = rows[d] # NoRow]]
    /\ UNCHANGED <<recordVars, files>> /\ Unaffected

DeleteRead(d) ==
    /\ At(d, "d.read")
    /\ LET evidence == \/ hist[d].saw \/ retained[DeleteOwner(d)] # NoHead
                       \/ \E i \in DOMAIN outbox : outbox[i].deck = d
                       \/ files[d] # <<>> \/ HistoryOwnersOf(d) # {}
       IN  IF heads[d] # NoHead
           THEN hist' = [hist EXCEPT ![d].pc = "d.retain", ![d].cur = heads[d]]
           ELSE IF evidence THEN Goto(d, "d.splice") ELSE Done(d)
    /\ UNCHANGED <<recordVars, files>> /\ Unaffected

DeleteRetain(d) ==
    /\ At(d, "d.retain")
    /\ IF heads[d] = hist[d].cur
       THEN /\ Retain(DeleteOwner(d), d)
            /\ \/ /\ hist' = [hist EXCEPT ![d].pc = "d.quarantine", ![d].kept = TRUE]
                  /\ UNCHANGED faults
               \/ Done(d) /\ Fault("commit")
       ELSE Done(d) /\ UNCHANGED <<records, queue, faults>>
    /\ UNCHANGED <<rows, drain, files>> /\ Unaffected

DeleteQuarantine(d) ==
    /\ At(d, "d.quarantine") /\ heads[d] = hist[d].cur
    /\ Quarantine(d) /\ Goto(d, "d.splice")
    /\ StoreOnly /\ Unaffected

\* STALE_GENERATION: a successor exists, or the first attempt had committed.
DeleteQuarantineStale(d) ==
    /\ At(d, "d.quarantine") /\ heads[d] # hist[d].cur
    /\ Goto(d, IF heads[d] = NoHead THEN "d.splice" ELSE "d.stale")
    /\ UNCHANGED <<recordVars, files>> /\ Unaffected

\* quarantinePackageOwnerWithRetry(): two attempts, each of which may throw
\* before or after the commit.
DeleteQuarantineFails(d) ==
    /\ At(d, "d.quarantine") /\ heads[d] = hist[d].cur /\ Fault("quarantine")
    /\ Quarantine(d) \/ UNCHANGED <<records, queue>>
    /\ hist' = [hist EXCEPT ![d].attempt = 1,
                    ![d].pc = IF hist[d].attempt = 0 THEN @ ELSE "d.undo"]
    /\ UNCHANGED <<rows, drain, files>> /\ Unaffected

DeleteStale(d) ==
    /\ At(d, "d.stale") /\ Release(DeleteOwner(d)) /\ Done(d)
    /\ StoreOnly /\ Unaffected

\* A row that is gone already may have come back when the route looks again.
DeleteSplice(d) ==
    /\ At(d, "d.splice")
    /\ IF hist[d].saw
       THEN /\ rows' = [rows EXCEPT ![d] = NoRow]
            /\ Goto(d, IF rows[d] = NoRow THEN "d.check" ELSE "d.owners")
       ELSE Goto(d, "d.owners") /\ UNCHANGED rows
    /\ UNCHANGED <<records, queue, drain, faults, files>>
    /\ Unaffected

DeleteSpliceFails(d) ==
    /\ At(d, "d.splice") /\ hist[d].saw /\ Fault("splice")
    /\ IF hist[d].kept /\ rows[d] # NoRow
       THEN hist' = [hist EXCEPT ![d].pc = "d.undo", ![d].attempt = 2]
       ELSE Done(d)
    /\ UNCHANGED <<records, queue, rows, drain, files>>
    /\ Unaffected

DeleteCheck(d) ==
    /\ At(d, "d.check")
    /\ IF rows[d] = NoRow THEN Goto(d, "d.owners")
       ELSE IF hist[d].kept
            THEN hist' = [hist EXCEPT ![d].pc = "d.undo", ![d].attempt = 2]
            ELSE Done(d)
    /\ UNCHANGED <<recordVars, files>> /\ Unaffected

\* The compensation; attempt 2 stands for the paths that drain afterwards.
DeleteUndo(d) ==
    /\ At(d, "d.undo")
    /\ IF heads[d] = hist[d].cur
       THEN Goto(d, "d.undoRelease") /\ UNCHANGED <<records, queue>>
       ELSE /\ CanRestoreQuarantined(DeleteOwner(d), d)
            /\ RestoreQuarantined(DeleteOwner(d), d)
            /\ Goto(d, "d.undoRelease")
    /\ StoreOnly /\ Unaffected

\* PACKAGE_LIFECYCLE_ROLLBACK_FAILED
DeleteUndoFails(d) ==
    /\ At(d, "d.undo") /\ heads[d] # hist[d].cur
    /\ ~CanRestoreQuarantined(DeleteOwner(d), d)
    /\ Done(d)
    /\ UNCHANGED <<recordVars, files>> /\ Unaffected

DeleteUndoRelease(d) ==
    /\ At(d, "d.undoRelease") /\ Release(DeleteOwner(d))
    /\ IF hist[d].attempt = 2 THEN Goto(d, "d.undoDrain") ELSE Done(d)
    /\ StoreOnly /\ Unaffected

UndoReturns(d) ==
    /\ At(d, "d.undoDrain")
    /\ DrainEnd(HistoryCall(d)) \/ DrainFails(HistoryCall(d))
    /\ Done(d)
    /\ UNCHANGED files /\ Unaffected

\* The history owners that were read at the beginning; the lock keeps others out.
DeleteOwners(d) ==
    /\ At(d, "d.owners")
    /\ IF HistoryOwnersOf(d) = {}
       THEN Goto(d, "d.release") /\ UNCHANGED <<records, queue>>
       ELSE /\ \E s \in HistoryOwnersOf(d) : Release(HistoryOwner(d, s))
            /\ UNCHANGED hist
    /\ StoreOnly /\ Unaffected

DeleteRelease(d) ==
    /\ At(d, "d.release") /\ Release(DeleteOwner(d)) /\ Goto(d, "d.files")
    /\ StoreOnly /\ Unaffected

DeleteFiles(d) ==
    /\ At(d, "d.files")
    /\ files' = [files EXCEPT ![d] = <<>>]
    /\ Goto(d, "d.drain")
    /\ UNCHANGED recordVars /\ Unaffected

DeleteReturns(d) ==
    /\ At(d, "d.drain") /\ Done(d)
    /\ \/ DrainEnd(HistoryCall(d)) /\ deleted' = deleted \cup {d}
       \/ DrainFails(HistoryCall(d)) /\ UNCHANGED deleted
    /\ UNCHANGED <<files, save, export, up, crashes, missed, workload>>

-----------------------------------------------------------------------------
(* Crash and restart *)

Crash ==
    /\ "crash" \in workload /\ crashes < MaxCrashes /\ crashes' = crashes + 1
    /\ up' = FALSE /\ drain' = NoDrain
    /\ save' = [d \in Deck |-> "idle"]
    /\ export' = [d \in Deck |-> NoExport]
    /\ hist' = [d \in Deck |-> Idle]
    /\ UNCHANGED <<records, queue, rows, faults, files, deleted, missed,
                   workload>>

\* initializePackageStore() drains before the store is handed out.
RestartDrain ==
    /\ ~up /\ BeginsDrain(Startup)
    /\ UNCHANGED <<files, requests, up, crashes, deleted, workload>>

RestartReady ==
    /\ ~up
    /\ \/ DrainEnd(Startup) /\ up' = TRUE
       \/ DrainFails(Startup) /\ UNCHANGED up
    /\ UNCHANGED <<files, requests, crashes, deleted, missed, workload>>

-----------------------------------------------------------------------------
SaveStep(d) == SaveDrain(d) \/ SaveReturns(d)
ExportStep(d) == ExportCommit(d) \/ ExportDrain(d) \/ ExportReturns(d)

SnapshotStep(d) ==
    \/ RetainSnapshot(d) \/ RetainRefused(d) \/ WriteSnapshotFile(d)
    \/ UnretainSnapshot(d) \/ PruneOldest(d) \/ PruneDone(d) \/ ReleaseSnapshot(d)
    \/ Forward(d) \/ ForwardRefused(d) \/ RestoreReturns(d)

DeleteStep(d) ==
    \/ DeleteRead(d) \/ DeleteRetain(d) \/ DeleteQuarantine(d)
    \/ DeleteQuarantineStale(d) \/ DeleteStale(d) \/ DeleteSplice(d) \/ DeleteCheck(d)
    \/ DeleteUndo(d) \/ DeleteUndoFails(d) \/ DeleteUndoRelease(d) \/ UndoReturns(d)
    \/ DeleteOwners(d) \/ DeleteRelease(d) \/ DeleteFiles(d) \/ DeleteReturns(d)

HistoryStep(d) == SnapshotStep(d) \/ DeleteStep(d) \/ HistoryDrain(d)

Apply ==
    /\ DrainApply \/ DrainAcknowledge
    /\ UNCHANGED <<files, requests, up, crashes, deleted, missed, workload>>

Restart == RestartDrain \/ RestartReady

Begin(d) ==
    \/ \E b \in Body : Save(d, b)
    \/ ExportBegin(d) \/ DeleteBegin(d)
    \/ \E s \in Snapshot : SnapshotBegin(d, s)
    \/ \E i \in DOMAIN files[d], s \in Snapshot : RestoreBegin(d, i, s)
    \/ \E i \in DOMAIN files[d] : RemoveBegin(d, i)

Failures(d) ==
    \/ ExportRefused(d) \/ SnapshotFileFails(d) \/ ReleaseFails(d)
    \/ DeleteQuarantineFails(d) \/ DeleteSpliceFails(d)

Next ==
    \/ \E d \in Deck : Begin(d) \/ SaveStep(d) \/ ExportStep(d) \/ HistoryStep(d)
                        \/ Failures(d)
    \/ Apply \/ Restart \/ Crash

Spec == Init /\ [][Next]_vars

\* A request that has begun goes on as long as the process runs: its awaits are
\* I/O calls and promise queues, which the event loop serves in order.
Fairness ==
    /\ WF_vars(Apply) /\ WF_vars(Restart)
    /\ \A d \in Deck : /\ WF_vars(SaveStep(d)) /\ WF_vars(HistoryStep(d))
                        /\ WF_vars(ExportStep(d) \/ ExportRefused(d))

FairSpec == Spec /\ Fairness

-----------------------------------------------------------------------------
(* Properties *)

InFlight(d) ==
    \/ \E i \in DOMAIN outbox : outbox[i].deck = d
    \/ \E i \in DOMAIN drain.todo : drain.todo[i].deck = d

\* Whatever the interleaving of requests, drains and crashes: once no write of a
\* deck is queued or being applied, its row exists exactly when its head does,
\* with the same generation (unless a write of it was not applied, or was taken for
\* a duplicate of one that was still queued).
RowsMatchHeads ==
    \A d \in Deck :
        ~InFlight(d) /\ d \notin lost =>
            rows[d] = IF heads[d] = NoHead THEN NoRow ELSE heads[d].gen

\* No generation of a deck is published with two contents, and no request leaves
\* a head older than one that was published: an export, a restore or a
\* compensation that worked on a stale head never overwrites a save.
NoCommitIsOverwritten ==
    \A d \in Deck :
        /\ \A x, y \in commits[d] : x.gen = y.gen => x.body = y.body
        /\ heads[d] # NoHead => \A x \in commits[d] : x.gen <= heads[d].gen

\* The store can always publish again and keep the bytes of every deck: the revisions
\* a head needs are owned by its deck (hasPresentationOwnedRevision() of
\* package-backed-presentation-read.js), and it carries the authority epoch of the
\* state although the restore of one deck moves it for all of them (validateState()
\* refuses anything else).  And an import, a restore or an export that found nothing
\* to change leaves a head that can be read, as long as no export has materialized an
\* edit; after two saves in a row, and after such an export, a head cannot be.
HeadsAreServable ==
    \A d \in Deck : heads[d] # NoHead =>
        /\ RevisionsOf(heads[d]) \subseteq owned[d] /\ heads[d].epoch = epoch
        /\ heads[d].edits = 0 /\ heads[d].pkg = heads[d].original => Readable(heads[d])

\* A snapshot file that is offered for a restore has its retained head, and the
\* head is the very generation the file was written for, readable and with nothing
\* pending, however pruning, removal, restore and deletion of snapshots interleave
\* with saves, exports and crashes; and the snapshot a restore takes first never
\* costs it its target.
SnapshotsAreRestorable ==
    \A d \in Deck :
        /\ \A i \in DOMAIN files[d] :
            heads[d] # NoHead /\ ~files[d][i].pending =>
                LET h == retained[HistoryOwner(d, files[d][i].id)]
                IN  h # NoHead /\ h.gen = files[d][i].gen /\ Presentable(h)
        /\ hist[d].pc \in SnapshotSteps \ {"remove"} /\ hist[d].target # NoSnapshot =>
            retained[HistoryOwner(d, hist[d].target)] # NoHead

\* A permanent deletion that was answered 200 is final and complete: no head, row,
\* retained head, snapshot file or queued write of the deck is left or comes back
\* (with the same two exceptions).
DeletedLeavesNothing ==
    \A d \in deleted : d \notin lost =>
        /\ heads[d] = NoHead /\ owned[d] = {} /\ rows[d] = NoRow /\ files[d] = <<>>
        /\ retained[DeleteOwner(d)] = NoHead /\ HistoryOwnersOf(d) = {}
        /\ ~InFlight(d)

\* presentations-crud.js:550-552: the retained owner of a deletion in progress
\* keeps the rollback possible until the row is gone.
RollbackStaysRecoverable ==
    \A d \in Deck :
        hist[d].pc \in {"d.splice", "d.check", "d.undo"} /\ hist[d].kept
        /\ heads[d] = NoHead => CanRestoreQuarantined(DeleteOwner(d), d)

\* A row never shows an older generation than it did, although writes are applied
\* again after a crash or a failed acknowledgement.
RowsNeverGoBack ==
    [][\A d \in Deck : rows'[d] # NoRow => rows'[d] >= rows[d]]_rows

\* A row that lags behind its head catches up with it, or the deck goes away: the
\* request that published drains, and where it failed before it could, the next
\* drain does it, whoever begins it.
RowsCatchUp ==
    \A d \in Deck :
        (heads[d] # NoHead /\ rows[d] < heads[d].gen /\ d \notin missed)
            ~> (heads[d] = NoHead \/ rows[d] >= heads[d].gen \/ d \in lost \cup missed)

=============================================================================

------------------------------ MODULE StateStore ------------------------------
(***************************************************************************)
(* Durable publication and recovery of the package store state             *)
(* (server/services/pptx-import/package-store/state-store.js, driven by    *)
(* mutate(), reload() and acquireWriter() of package-store/index.js and    *)
(* by withPackageStore() of package-store-runtime.js).                     *)
(*                                                                         *)
(* One process owns the writer lock (see WriterLock) and publishes a state *)
(* by writing its index file, a prepared WAL record, the replaced root and *)
(* a completion marker.  Each durable call is one action; a file that is   *)
(* not written through a temporary name takes two, and holds nothing in    *)
(* between.  The process can crash before every action.                    *)
(*                                                                         *)
(* Two kinds of caller mutate the store.  A request goes through           *)
(* withPackageStore(), which runs one request at a time and reloads the    *)
(* store when the request fails.  The validated edited export takes the    *)
(* store from getPackageStore() and calls mutate() itself: its calls queue *)
(* behind the others, and one that fails is followed by no reload.         *)
(***************************************************************************)
EXTENDS Naturals, Sequences, FiniteSets

CONSTANTS
    Mutation,      \* the changes requests make to the store
    NoRoot,        \* model value: state-root.json does not exist
    Truncated,     \* model value: a file opened for writing and still empty
    Origins,       \* what the directory holds at first: "fresh", "legacy" (a schema-1 root)
    MaxFence,      \* bound: writer acquisitions
    MaxTx,         \* bound: transactions begun by mutations
    MaxAuthority,  \* bound: matrix authority epochs
    FaultPoints,   \* the steps at which an I/O call may fail, process alive
    MaxFaults      \* bound: failed I/O calls

Faultable == {"fillHighWater", "fillIndex", "prepare", "root", "install",
              "complete", "reload"}

ASSUME ConstantsOK ==
    /\ Origins \subseteq {"fresh", "legacy"} /\ FaultPoints \subseteq Faultable
    /\ MaxFence \in Nat /\ MaxTx \in Nat /\ MaxAuthority \in Nat
    /\ MaxFaults \in Nat
    /\ Truncated \notin Nat

VARIABLES
    \* the data directory
    intact,        \* states whose indexes/<hash>.json is complete
    torn,          \* states whose index file exists but is incomplete
    root,          \* state-root.json
    highWater,     \* matrix-authority-epoch-high-water.json (0 when absent)
    prepared,      \* transactions with a record in wal/ (completion markers and the
                   \* quarantine directory are written, and never read)
    \* the StateStore object
    state, memRoot,
    pending,       \* pendingMigration, pendingRootRecovery, ... of the object
    \* the call in progress
    pc, next, tx, purpose, op,
    fence,         \* fencing epoch of the current owner
    reloadDue,     \* withPackageStore() has called reload(), which waits its turn
    \* bookkeeping for the bounds and the properties
    txs, faults,
    published,     \* history: transactions that have been the root
    acked,         \* history: mutations whose mutate() returned
    abandoned      \* history: transactions of exports that failed after the rename

disk == <<intact, torn, root, highWater, prepared>>
object == <<state, memRoot, pending>>
call == <<pc, next, tx, purpose, op, reloadDue>>
history == <<txs, faults, published, acked, abandoned>>
vars == <<disk, object, call, fence, history>>

-----------------------------------------------------------------------------
(* States, roots and types *)

\* A package state, identified with its hash: content stands for all records
\* (heads, owners, ...) as the set of mutations applied to them.
States == [schema : {1, 2}, generation : Nat, fence : Nat, authority : Nat \ {0},
           content : SUBSET Mutation]

EmptyState == [schema |-> 2, generation |-> 0, fence |-> 0, authority |-> 1,
               content |-> {}]
LegacyState == [EmptyState EXCEPT !.schema = 1, !.generation = 1]

Entries == [tx : Nat, state : States]
Roots == [tx : Nat, state : States, chain : Seq(Entries)]

ASSUME NoRootIsNoRoot == NoRoot \notin Roots

NothingPending == [migration |-> FALSE, recovery |-> FALSE, highWater |-> FALSE,
                   wal |-> {}]

\* Who mutates: withPackageStore(), or the export that holds the store itself.
Caller == {"request", "export"}

PublishSteps == {"highWater", "fillHighWater", "index", "fillIndex", "prepare",
                 "root", "install", "complete"}

TypeOK ==
    /\ intact \subseteq States /\ torn \subseteq States
    /\ root \in Roots \cup {NoRoot}
    /\ highWater \in Nat \cup {Truncated}
    /\ prepared \subseteq Nat
    /\ state \in States /\ memRoot \in Roots \cup {NoRoot}
    /\ pending \in [migration : BOOLEAN, recovery : BOOLEAN, highWater : BOOLEAN,
                    wal : SUBSET [tx : Nat, published : BOOLEAN]]
    /\ pc \in PublishSteps \cup {"down", "start", "reload", "takeover",
                                 "finalize", "finalizeFill", "ready"}
    /\ next \in States /\ tx \in Nat
    /\ purpose \in Caller \cup {"recover"} /\ op \subseteq Mutation
    /\ fence \in Nat /\ txs \in Nat /\ faults \in Nat /\ reloadDue \in BOOLEAN
    /\ published \subseteq Nat /\ acked \subseteq Mutation /\ abandoned \subseteq Nat

Init ==
    /\ \E origin \in Origins :
          \/ /\ origin = "fresh"
             /\ intact = {} /\ root = NoRoot /\ prepared = {}
          \/ /\ origin = "legacy"
             /\ intact = {LegacyState} /\ prepared = {0}
             /\ root = [tx |-> 0, state |-> LegacyState, chain |-> <<>>]
    /\ torn = {}
    /\ highWater = 0
    /\ published = prepared
    /\ state = EmptyState /\ memRoot = NoRoot /\ pending = NothingPending
    /\ pc = "down" /\ next = EmptyState /\ tx = 0 /\ purpose = "recover" /\ op = {}
    /\ fence = 0 /\ txs = 0 /\ faults = 0 /\ reloadDue = FALSE
    /\ acked = {} /\ abandoned = {}

-----------------------------------------------------------------------------
(* What the files say *)

\* boundPredecessors(this.root): MAX_PREDECESSOR_DEPTH retained roots.
MaxPredecessorDepth == 3
ChainAfter(r) ==
    IF r = NoRoot THEN <<>>
    ELSE LET all == <<[tx |-> r.tx, state |-> r.state]>> \o r.chain
         IN  SubSeq(all, 1, IF Len(all) < MaxPredecessorDepth
                            THEN Len(all) ELSE MaxPredecessorDepth)

\* restoreFromPredecessor(): the retained roots whose index file verifies.
VerifiedPredecessors == {i \in DOMAIN root.chain : root.chain[i].state \in intact}

\* The root recover() settles on, when the store has one that verifies.
VerifiedRoot ==
    IF root.state \in intact THEN root
    ELSE LET i == CHOOSE i \in VerifiedPredecessors :
                      \A j \in VerifiedPredecessors : i <= j
         IN  [tx |-> root.chain[i].tx, state |-> root.chain[i].state,
              chain |-> SubSeq(root.chain, i + 1, Len(root.chain))]

HasVerifiedRoot ==
    root # NoRoot /\ (root.state \in intact \/ VerifiedPredecessors # {})

\* readValidatedRoot() reads the high-water file first, for every candidate.
CanRecover == highWater # Truncated /\ (root = NoRoot \/ HasVerifiedRoot)

\* loadPackageStoreState(), then recoverMatrixAuthorityHighWater().
Loaded(s) == [s EXCEPT !.schema = 2,
                       !.authority = IF highWater > @ THEN highWater ELSE @]

\* What a restart finds, whether or not it can be opened at once.
DurableState == IF HasVerifiedRoot THEN VerifiedRoot.state ELSE EmptyState

-----------------------------------------------------------------------------
(* reload() and acquireWriter() *)

ClearObject ==
    /\ state' = EmptyState /\ memRoot' = NoRoot /\ pending' = NothingPending

\* lock.acquire() has returned a new epoch; metadata.reload() clears the object.
Start ==
    /\ pc = "down" /\ fence < MaxFence
    /\ fence' = fence + 1
    /\ pc' = "start" /\ ClearObject
    /\ UNCHANGED <<disk, next, tx, purpose, op, reloadDue, history>>

\* recover().  A schema-1 root is migrated in memory, a predecessor or a raised
\* authority epoch is left to the writer to publish.  Without a root the WAL is
\* not even listed.
Recover ==
    LET base == IF root = NoRoot THEN EmptyState ELSE VerifiedRoot.state
    IN  /\ CanRecover
        /\ state' = Loaded(base)
        /\ memRoot' = IF root = NoRoot THEN NoRoot ELSE VerifiedRoot
        /\ pending' =
            [migration |-> base.schema = 1,
             recovery  |-> (root # NoRoot /\ root.state \notin intact)
                           \/ (base.schema = 2 /\ base.authority < highWater),
             highWater |-> highWater = 0 \/ Loaded(base).authority > highWater,
             wal       |-> IF root = NoRoot THEN {}
                           ELSE {[tx |-> t, published |-> VerifiedRoot.tx = t] :
                                    t \in prepared}]

StartRecovered ==
    /\ pc = "start" /\ Recover
    /\ pc' = "takeover"
    /\ UNCHANGED <<disk, next, tx, purpose, op, reloadDue, fence, history>>

\* Mutant: a start-up that failed is a state of its own, which nothing leaves.
StartFailsForGood ==
    /\ pc = "start" /\ ~CanRecover
    /\ pc' = "failed"
    /\ UNCHANGED <<disk, object, next, tx, purpose, op, reloadDue, fence, history>>

\* recover() throws: acquireWriter() releases the lock and start-up fails.
StartFails ==
    /\ pc = "start" /\ ~CanRecover
    /\ pc' = "down"
    /\ UNCHANGED <<disk, object, next, tx, purpose, op, reloadDue, fence, history>>

\* Mutant: start-up waits for a recovery that is not pending.
TakeOverOnlyToRecover ==
    /\ pc = "takeover" /\ (pending.migration \/ pending.recovery)
    /\ pc' = "highWater" /\ purpose' = "recover" /\ op' = {}
    /\ next' = [state EXCEPT !.fence = fence]
    /\ UNCHANGED <<disk, object, tx, reloadDue, fence, history>>

\* acquireWriter(): a pending migration or recovery is published as a successor
\* with the same generation and the new fencing epoch.
TakeOver ==
    /\ pc = "takeover"
    /\ IF pending.migration \/ pending.recovery
       THEN /\ pc' = "highWater" /\ purpose' = "recover" /\ op' = {}
            /\ next' = [state EXCEPT !.fence = fence]
       ELSE pc' = "finalize" /\ UNCHANGED <<next, purpose, op>>
    /\ UNCHANGED <<disk, object, tx, reloadDue, fence, history>>

\* reload() takes its turn behind the mutations that were called before it, and
\* clears the object first.
StartReload ==
    /\ pc = "ready" /\ reloadDue
    /\ pc' = "reload" /\ reloadDue' = FALSE
    /\ ClearObject
    /\ UNCHANGED <<disk, next, tx, purpose, op, fence, history>>

ReloadRecovered ==
    /\ pc = "reload" /\ Recover
    /\ pc' = "ready"
    /\ UNCHANGED <<disk, next, tx, purpose, op, reloadDue, fence, history>>

\* withPackageStore() only records a reload error: the cleared object stays.
ReloadFails ==
    /\ pc = "reload"
    /\ \/ ~CanRecover /\ UNCHANGED faults
       \/ /\ "reload" \in FaultPoints /\ faults < MaxFaults
          /\ faults' = faults + 1
    /\ pc' = "ready"
    /\ UNCHANGED <<disk, object, next, tx, purpose, op, reloadDue, fence, txs,
                   published, acked, abandoned>>

-----------------------------------------------------------------------------
(* finalizeWriterRecovery() *)

\* The high-water file is truncated, then filled.
FinalizeHighWater ==
    /\ pc = "finalize" /\ pending.highWater
    /\ highWater' = Truncated
    /\ pc' = "finalizeFill"
    /\ UNCHANGED <<intact, torn, root, prepared, object,
                   next, tx, purpose, op, reloadDue, fence, history>>

FinalizeFillHighWater ==
    /\ pc = "finalizeFill"
    /\ highWater' = state.authority
    /\ pending' = [pending EXCEPT !.highWater = FALSE]
    /\ pc' = "finalize"
    /\ UNCHANGED <<intact, torn, root, prepared, state,
                   memRoot, next, tx, purpose, op, reloadDue, fence, history>>

\* A prepared record of the root is completed, any other one is quarantined.
FinalizeWal ==
    /\ pc = "finalize" /\ ~pending.highWater
    /\ \E w \in pending.wal :
        /\ pending' = [pending EXCEPT !.wal = @ \ {w}]
        /\ prepared' = IF w.published THEN prepared ELSE prepared \ {w.tx}
    /\ UNCHANGED <<intact, torn, root, highWater, state, memRoot, call, fence, history>>

WriterReady ==
    /\ pc = "finalize" /\ ~pending.highWater /\ pending.wal = {}
    /\ pc' = "ready"
    /\ UNCHANGED <<disk, object, next, tx, purpose, op, reloadDue, fence, history>>

-----------------------------------------------------------------------------
(* mutate() *)

\* A request waits for the reload of the failed request before it; an export does
\* not.
BeginPublish(caller, successor, mutations) ==
    /\ pc = "ready" /\ txs < MaxTx
    /\ caller = "request" => ~reloadDue
    /\ pc' = "highWater" /\ purpose' = caller /\ op' = mutations
    /\ next' = successor
    /\ UNCHANGED <<disk, object, tx, reloadDue, fence, history>>

\* Mutant: the generation is not advanced.
MutateInPlace(caller, m) ==
    /\ m \notin state.content
    /\ BeginPublish(caller,
                    [state EXCEPT !.fence = fence, !.content = @ \cup {m}], {m})

Mutate(caller, m) ==
    /\ m \notin state.content
    /\ BeginPublish(caller,
                    [state EXCEPT !.generation = @ + 1, !.fence = fence,
                                  !.content = @ \cup {m}], {m})

AdvanceMatrixAuthorityEpoch(caller) ==
    /\ state.authority < MaxAuthority
    /\ BeginPublish(caller,
                    [state EXCEPT !.generation = @ + 1, !.fence = fence,
                                  !.authority = @ + 1], {})

\* A request whose action throws before publish() (a stale generation, a failed
\* validation) makes withPackageStore() reload the store; an export that does so
\* changes nothing.
RejectRequest ==
    /\ pc = "ready" /\ ~reloadDue
    /\ reloadDue' = TRUE
    /\ UNCHANGED <<disk, object, pc, next, tx, purpose, op, fence, history>>

-----------------------------------------------------------------------------
(* publish() *)

\* Nothing is left of a call that returned, failed or died.
CallEnds == next' = EmptyState /\ tx' = 0 /\ purpose' = "recover" /\ op' = {}

\* Mutant: a request that failed is not followed by a reload either.
AbortWithoutReload ==
    /\ pc' = IF purpose = "recover" THEN "down" ELSE "ready"
    /\ CallEnds
    /\ UNCHANGED <<object, reloadDue, fence>>

\* publish() throws: a start-up gives up, a request calls reload(), an export goes
\* on with the object as it is.
Abort ==
    /\ IF purpose = "recover"
       THEN pc' = "down" /\ ClearObject /\ UNCHANGED reloadDue
       ELSE /\ pc' = "ready" /\ UNCHANGED object
            /\ reloadDue' = (reloadDue \/ purpose = "request")
    /\ CallEnds
    /\ UNCHANGED fence

\* persistMatrixAuthorityHighWater()
PersistHighWater ==
    /\ pc = "highWater" /\ highWater # Truncated /\ highWater <= next.authority
    /\ IF highWater = next.authority
       THEN pc' = "index" /\ UNCHANGED highWater
       ELSE pc' = "fillHighWater" /\ highWater' = Truncated
    /\ UNCHANGED <<intact, torn, root, prepared, object,
                   next, tx, purpose, op, reloadDue, fence, history>>

HighWaterRefused ==
    /\ pc = "highWater"
    /\ highWater # Truncated => highWater > next.authority
    /\ Abort
    /\ UNCHANGED <<disk, history>>

FillHighWater ==
    /\ pc = "fillHighWater"
    /\ highWater' = next.authority
    /\ pc' = "index"
    /\ UNCHANGED <<intact, torn, root, prepared, object,
                   next, tx, purpose, op, reloadDue, fence, history>>

\* Mutant: the root is prepared before its index is written.
SkipIndex ==
    /\ pc = "index" /\ pc' = "prepare"
    /\ UNCHANGED <<disk, object, next, tx, purpose, op, reloadDue, fence, history>>

\* An index file that exists is taken for the right one.
WriteIndex ==
    /\ pc = "index"
    /\ IF next \in intact \cup torn
       THEN pc' = "prepare" /\ UNCHANGED torn
       ELSE pc' = "fillIndex" /\ torn' = torn \cup {next}
    /\ UNCHANGED <<intact, root, highWater, prepared,
                   object, next, tx, purpose, op, reloadDue, fence, history>>

FillIndex ==
    /\ pc = "fillIndex"
    /\ torn' = torn \ {next} /\ intact' = intact \cup {next}
    /\ pc' = "prepare"
    /\ UNCHANGED <<root, highWater, prepared, object,
                   next, tx, purpose, op, reloadDue, fence, history>>

Prepare ==
    /\ pc = "prepare"
    /\ txs' = txs + 1 /\ tx' = txs + 1
    /\ prepared' = prepared \cup {txs + 1}
    /\ pc' = "root"
    /\ UNCHANGED <<intact, torn, root, highWater, object,
                   next, purpose, op, reloadDue, fence, faults, published, acked,
                   abandoned>>

ReplaceRoot ==
    /\ pc = "root"
    /\ root' = [tx |-> tx, state |-> next, chain |-> ChainAfter(memRoot)]
    /\ published' = published \cup {tx}
    /\ pc' = "install"
    /\ UNCHANGED <<intact, torn, highWater, prepared,
                   object, next, tx, purpose, op, reloadDue, fence, txs, faults,
                   acked, abandoned>>

\* Mutant: the object keeps the state it had.
InstallRootOnly ==
    /\ pc = "install"
    /\ memRoot' = root /\ UNCHANGED state
    /\ pending' = [NothingPending EXCEPT !.wal = pending.wal]
    /\ pc' = "complete"
    /\ UNCHANGED <<disk, next, tx, purpose, op, reloadDue, fence, history>>

\* After the directory sync the object takes over the new root and state.
Install ==
    /\ pc = "install"
    /\ memRoot' = root /\ state' = next
    /\ pending' = [NothingPending EXCEPT !.wal = pending.wal]
    /\ pc' = "complete"
    /\ UNCHANGED <<disk, next, tx, purpose, op, reloadDue, fence, history>>

\* The completion marker; mutate() returns to its caller.
Complete ==
    /\ pc = "complete"
    /\ IF purpose = "recover"
       THEN pc' = "finalize" /\ UNCHANGED acked
       ELSE pc' = "ready" /\ acked' = acked \cup op
    /\ CallEnds
    /\ UNCHANGED <<intact, torn, root, highWater, prepared, object,
                   reloadDue, fence, txs, faults, published, abandoned>>

-----------------------------------------------------------------------------
(* Faults and crashes *)

\* The I/O call of the current step fails; for "install" it is the directory sync
\* that follows the rename, so that the new root is there and not in memory.
PublishFault ==
    /\ pc \in FaultPoints \cap PublishSteps /\ faults < MaxFaults
    /\ faults' = faults + 1
    /\ abandoned' = IF pc = "install" /\ purpose = "export"
                    THEN abandoned \cup {tx} ELSE abandoned
    /\ Abort
    /\ UNCHANGED <<disk, txs, published, acked>>

\* Also a clean shutdown, which releases the lock and keeps nothing in memory.
Crash ==
    /\ pc # "down"
    /\ pc' = "down" /\ reloadDue' = FALSE
    /\ ClearObject /\ CallEnds
    /\ UNCHANGED <<disk, fence, history>>

Recovery ==
    \/ StartRecovered \/ StartFails \/ TakeOver
    \/ FinalizeHighWater \/ FinalizeFillHighWater \/ FinalizeWal \/ WriterReady

Publication ==
    \/ PersistHighWater \/ HighWaterRefused \/ FillHighWater
    \/ WriteIndex \/ FillIndex \/ Prepare \/ ReplaceRoot \/ Install \/ Complete

Next ==
    \/ Start \/ Recovery \/ StartReload \/ ReloadRecovered \/ ReloadFails
    \/ (\E c \in Caller, m \in Mutation : Mutate(c, m))
    \/ (\E c \in Caller : AdvanceMatrixAuthorityEpoch(c))
    \/ RejectRequest
    \/ Publication \/ PublishFault \/ Crash

Spec == Init /\ [][Next]_vars

\* The supervisor restarts a stopped server, and a call in progress goes on.
FairSpec == Spec /\ WF_vars(Start) /\ WF_vars(Recovery) /\ WF_vars(Publication)

-----------------------------------------------------------------------------
(* Properties *)

\* What mutate() acknowledged is what a restart will find: no crash point and no
\* recovery loses it.
NoLostCommit == acked \subseteq DurableState.content

\* The published root always refers to a complete index file.
PublishedRootIsVerified == root # NoRoot => root.state \in intact

\* A failed write has left the high-water file empty: reload() fails, and nothing
\* is published until a restart.
OutOfService == highWater = Truncated /\ pc \in {"ready", "highWater"}

\* While the store serves requests, the object in memory holds the current root and
\* everything durable, whatever request failed before.  After an export that failed
\* between the rename and the directory sync, and was followed by no reload, it is
\* one publication behind: the durable root is the one of that export, was built on
\* the root in memory, and the object lacks only what that export changed.
MemoryMatchesDisk ==
    pc \in {"finalize", "finalizeFill", "ready"} /\ ~reloadDue /\ ~OutOfService =>
        \/ memRoot = root /\ state.content = DurableState.content
        \/ /\ root.tx \in abandoned
           /\ root.chain = ChainAfter(memRoot)
           /\ state.content \subseteq DurableState.content

\* Neither the fencing epoch nor the matrix authority epoch of the root goes back.
EpochsAdvance ==
    /\ root'.state.fence >= root.state.fence
    /\ root'.state.authority >= root.state.authority

SucceedsTheRoot ==
    /\ memRoot = root
    /\ root'.state.generation =
         root.state.generation + (IF purpose = "recover" THEN 0 ELSE 1)

TakesItsPlace ==
    /\ memRoot # root
    /\ root.tx \in abandoned \/ (reloadDue /\ purpose = "export")
    /\ root'.state.generation = root.state.generation
    /\ root'.chain = root.chain

\* Every root that a mutation publishes is one generation past the root it
\* replaces, so that no two states the store has served share the generation that
\* savers compare; a recovery keeps the generation.  The exception is a root that
\* the object never took over, the rename of a call that failed and has not been
\* followed by a reload: the next publication takes its generation and its place in
\* the chain.  The epochs do not go back, and a transaction is the root once.
RootAdvances ==
    [][root # NoRoot /\ root' # root =>
            /\ SucceedsTheRoot \/ TakesItsPlace
            /\ EpochsAdvance
            /\ root'.tx \notin published]_vars

\* The epochs do not even go back when failed I/O leaves the object in memory
\* cleared (persistMatrixAuthorityHighWater() refuses what it would publish).
EpochsNeverGoBack == [][root # NoRoot /\ root' # root => EpochsAdvance]_vars

\* A stopped store that can be read comes back to serving requests, unless the
\* bound on acquisitions ends the run.
ComesBack ==
    (pc = "down") ~> (pc = "ready" \/ ~CanRecover \/ fence = MaxFence)

\* The store promises AtomicStore: the durable content is the value, a mutation
\* is in flight from BeginPublish until its call returns or fails, and what is
\* durable without being in memory is in doubt.
InFlight == IF pc \in PublishSteps /\ purpose \in Caller THEN op ELSE {}
Serving == pc \notin {"down", "start", "reload", "install"} /\ ~OutOfService
Doubt == IF Serving THEN DurableState.content \ state.content ELSE {}
Atomic == INSTANCE AtomicStore WITH
              value <- DurableState.content, inFlight <- InFlight, doubt <- Doubt
AtomicSpec == Atomic!Spec

=============================================================================

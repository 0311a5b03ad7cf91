--------------------------- MODULE FencedPublication ---------------------------
(***************************************************************************)
(* The writer lock composed with what it protects: acquireWriter() and the *)
(* last guarded write of StateStore.publish(), the replacement of          *)
(* state-root.json.  A root is abstracted to the commits it contains and   *)
(* the fencing epoch of its publisher.                                     *)
(***************************************************************************)
EXTENDS WriterLock

CONSTANTS
    NotLoaded,   \* model value: this owner has not reloaded metadata yet
    MaxCommits   \* bound: commits in the durable history

VARIABLES
    root,       \* state-root.json: [fence, owner, commits], owner by its nonce
    memory      \* the commits in each process's metadata.state

fencedVars == <<lockVars, root, memory>>

FencedInit ==
    /\ Init
    /\ root = [fence |-> 0, owner |-> 0, commits |-> {}]
    /\ memory = [p \in Process |-> NotLoaded]

\* acquireWriter(): the metadata is reloaded only after lock.acquire() returned.
LoadRoot(p) ==
    /\ Running(p, "owner") /\ memory[p] = NotLoaded
    /\ memory' = [memory EXCEPT ![p] = root.commits]
    /\ UNCHANGED <<lockVars, root>>

\* mutate(): only a loaded owner gets to assertWriter() for a publication.
BeginPublish(p) ==
    /\ memory[p] # NotLoaded /\ Cardinality(memory[p]) < MaxCommits
    /\ AssertOwned(p, "write")
    /\ UNCHANGED <<root, memory>>

\* replaceDurable(tempRoot, rootPath), then the root becomes the memory state.
\* A commit is named after the claim that made it and its place in the history.
ReplaceRoot(p) ==
    /\ GuardedWrite(p)
    /\ root' = [fence |-> claimed[p].epoch, owner |-> claimed[p].nonce,
                commits |-> memory[p] \cup
                    {<<claimed[p].nonce, Cardinality(memory[p])>>}]
    /\ memory' = [memory EXCEPT ![p] = root'.commits]

\* release() after shutdown, or in the error path of acquireWriter().
ReleaseWriter(p) ==
    /\ AssertOwned(p, "release")
    /\ UNCHANGED <<root, memory>>

\* Mutant: an instance that acquires again keeps the metadata it had.
LockStepKeepsMemory(p) ==
    /\ \/ Acquire(p) \/ AcquireStep(p) \/ AssertLock(p) \/ AssertEpoch(p)
       \/ ReleaseUnlink(p) \/ WriteFails(p) \/ Crash(p) \/ Restart(p)
    /\ UNCHANGED <<root, memory>>

\* Every other lock step leaves the root alone; the steps that end or begin an
\* ownership drop the memory of the store instance.
LockStep(p) ==
    /\ \/ Acquire(p) \/ AcquireStep(p) \/ AssertLock(p) \/ AssertEpoch(p)
       \/ ReleaseUnlink(p) \/ WriteFails(p) \/ Crash(p) \/ Restart(p)
    /\ memory' = [memory EXCEPT ![p] = IF pc'[p] \in Owning THEN @ ELSE NotLoaded]
    /\ UNCHANGED root

FencedNext == \E p \in Process :
    LoadRoot(p) \/ BeginPublish(p) \/ ReplaceRoot(p) \/ ReleaseWriter(p) \/ LockStep(p)

FencedSpec == FencedInit /\ [][FencedNext]_fencedVars

\* A started process runs its calls to the end, a dead one is restarted by its
\* supervisor, and a request that finds no store initializes it again.
FencedFairness == \A p \in Process :
    /\ WF_fencedVars(LockStep(p) /\ Acquire(p))
    /\ WF_fencedVars(LockStep(p) /\ (AcquireStep(p) \/ OwnerStep(p)))
    /\ WF_fencedVars(LoadRoot(p) \/ ReplaceRoot(p))
    /\ WF_fencedVars(LockStep(p) /\ Restart(p))

FencedFairSpec == FencedSpec /\ FencedFairness

-----------------------------------------------------------------------------
(* Properties *)

\* Replacing the root never drops a commit an earlier owner published: an owner
\* publishes on top of everything that was durable when it replaces the root.
CommitsSurvive == [][root.commits \subseteq root'.commits]_fencedVars

\* A process that lost the lock to another reclaimer fails assertOwned() and
\* does not publish (the comment on claim()).
LoserNeverPublishes == [][\A p \in Process : ReplaceRoot(p) => lockFile = claimed[p]]_fencedVars

=============================================================================

------------------------------ MODULE WriterLock ------------------------------
(***************************************************************************)
(* The writer lock of the package store                                    *)
(* (server/services/pptx-import/package-store/writer-lock.js).             *)
(*                                                                         *)
(* Server processes share one data directory.  A process claims the store  *)
(* by exclusively creating writer.lock, then writes its epoch into         *)
(* fencing-epoch.json; a lock left by a dead process is read, probed and   *)
(* unlinked before a second claim.  Every file system call is one action,  *)
(* so that two processes, or a crash, can come between any two of them.    *)
(***************************************************************************)
EXTENDS Integers, FiniteSets

CONSTANTS
    Process,            \* server processes: a PID each, reused when one restarts
    NoFile,             \* model value: the file does not exist
    Truncated,          \* model value: opened for writing, bytes not there yet
    MaxClaims,          \* bound: lock files ever created
    MaxIncarnation,     \* bound: incarnations of one process (1 = no crash)
    MaxIoErrors,        \* bound: writes that fail with the process alive
    OneStarterAtATime   \* deployment assumption: acquires do not overlap

ASSUME ConstantsOK ==
    /\ MaxClaims \in Nat /\ MaxIncarnation \in Nat /\ MaxIoErrors \in Nat
    /\ OneStarterAtATime \in BOOLEAN

VARIABLES
    lockFile,       \* writer.lock: NoFile or a record; whole = FALSE while empty
    epochFile,      \* fencing-epoch.json: a number (0 when absent) or Truncated
    incarnation,    \* PROCESS_INSTANCE_ID of each process
    alive,          \* whether that incarnation is running
    pc,             \* where each process is in acquire, assertOwned, release
    claimed,        \* the record claim() built; the lock's own nonce and epoch
    seen,           \* the record reclaimAbandoned() read
    reclaimed,      \* whether this acquire has unlinked an abandoned lock
    goal,           \* what assertOwned was called for
    nonces,         \* nonces used so far
    granted,        \* history: greatest epoch an acquire has returned
    ioErrors        \* failed writes so far

files == <<lockFile, epochFile>>
lockVars == <<lockFile, epochFile, incarnation, alive, pc, claimed, seen,
              reclaimed, goal, nonces, granted, ioErrors>>

LockRecord == [nonce : Nat, owner : Process, incarnation : Nat, epoch : Nat,
               whole : BOOLEAN]

ASSUME FilesOK == NoFile \notin LockRecord /\ Truncated \notin Nat

Acquiring == {"readEpoch", "create", "fill", "readLock", "probe", "unlink",
              "truncateEpoch", "fillEpoch"}
Owning == {"owner", "assertLock", "assertEpoch", "checked", "unlinkOwn"}

TypeOK ==
    /\ lockFile \in LockRecord \cup {NoFile}
    /\ epochFile \in Nat \cup {Truncated}
    /\ incarnation \in [Process -> Nat]
    /\ alive \in [Process -> BOOLEAN]
    /\ pc \in [Process -> Acquiring \cup Owning \cup {"idle"}]
    /\ claimed \in [Process -> LockRecord \cup {NoFile}]
    /\ seen \in [Process -> LockRecord \cup {NoFile}]
    /\ reclaimed \in [Process -> BOOLEAN]
    /\ goal \in [Process -> {"release", "write"}]
    /\ nonces \in Nat /\ granted \in Nat /\ ioErrors \in Nat

Init ==
    /\ lockFile = NoFile
    /\ epochFile = 0
    /\ incarnation = [p \in Process |-> 1]
    /\ alive = [p \in Process |-> TRUE]
    /\ pc = [p \in Process |-> "idle"]
    /\ claimed = [p \in Process |-> NoFile]
    /\ seen = [p \in Process |-> NoFile]
    /\ reclaimed = [p \in Process |-> FALSE]
    /\ goal = [p \in Process |-> "write"]
    /\ nonces = 0 /\ granted = 0 /\ ioErrors = 0

-----------------------------------------------------------------------------
(* Helpers *)

Running(p, label) == alive[p] /\ pc[p] = label
Goto(p, label) == pc' = [pc EXCEPT ![p] = label]
Holds(p) == alive[p] /\ pc[p] \in Owning

\* Mutant: a lock is stale without proof that its owner is gone.
AnyOwnerIsGone(record) == TRUE

\* Mutant: a live PID proves the owner alive, also when another incarnation
\* reuses it.
PidIsGone(record) == ~alive[record.owner]

\* ownerIsProvablyGone: the recorded incarnation is not running any more (dead
\* PID, or a PID that a later incarnation reused).
OwnerIsProvablyGone(record) ==
    ~alive[record.owner] \/ incarnation[record.owner] # record.incarnation

-----------------------------------------------------------------------------
(* acquire() and claim() *)

Acquire(p) ==
    /\ Running(p, "idle")
    /\ OneStarterAtATime => \A q \in Process : pc[q] \notin Acquiring
    /\ Goto(p, "readEpoch")
    /\ reclaimed' = [reclaimed EXCEPT ![p] = FALSE]
    /\ UNCHANGED <<files, incarnation, alive, claimed, seen, goal, nonces,
                   granted, ioErrors>>

ClaimWith(p, epoch) ==
    /\ claimed' = [claimed EXCEPT ![p] =
          [nonce |-> 0, owner |-> p, incarnation |-> incarnation[p],
           epoch |-> epoch, whole |-> TRUE]]
    /\ Goto(p, "create")

\* Mutant: the epoch counts down.
ReadEpochBackwards(p) ==
    /\ Running(p, "readEpoch") /\ epochFile # Truncated
    /\ ClaimWith(p, epochFile - 1)
    /\ UNCHANGED <<files, incarnation, alive, seen, reclaimed, goal, nonces,
                   granted, ioErrors>>

\* Mutant: a claim repeats the epoch of the previous owner.
ReadEpochAgain(p) ==
    /\ Running(p, "readEpoch")
    /\ IF epochFile = Truncated
       THEN Goto(p, "idle") /\ UNCHANGED claimed
       ELSE ClaimWith(p, epochFile)
    /\ UNCHANGED <<files, incarnation, alive, seen, reclaimed, goal, nonces,
                   granted, ioErrors>>

\* readEpoch() and the record: unparsable JSON makes claim() throw.
ReadEpoch(p) ==
    /\ Running(p, "readEpoch")
    /\ IF epochFile = Truncated
       THEN Goto(p, "idle") /\ UNCHANGED claimed
       ELSE ClaimWith(p, epochFile + 1)
    /\ UNCHANGED <<files, incarnation, alive, seen, reclaimed, goal, nonces,
                   granted, ioErrors>>

\* The record is written under a nonce nobody has used.
CreateWithNonce(p) ==
    /\ nonces < MaxClaims
    /\ nonces' = nonces + 1
    /\ claimed' = [claimed EXCEPT ![p].nonce = nonces + 1]
    /\ lockFile' = [claimed'[p] EXCEPT !.whole = FALSE]
    /\ Goto(p, "fill")

\* The exclusive create.  A first EEXIST goes on to reclaimAbandoned(), a
\* second one is HELD_MESSAGE.
CreateLock(p) ==
    /\ Running(p, "create")
    /\ IF lockFile = NoFile
       THEN CreateWithNonce(p)
       ELSE /\ Goto(p, IF reclaimed[p] THEN "idle" ELSE "readLock")
            /\ claimed' = [claimed EXCEPT ![p] = NoFile]
            /\ UNCHANGED <<lockFile, nonces>>
    /\ reclaimed' = [reclaimed EXCEPT ![p] = FALSE]
    /\ UNCHANGED <<epochFile, incarnation, alive, seen, goal, granted, ioErrors>>

\* The bytes go to the created file; the sync that follows opens the path
\* again, and fails when another process unlinked it.
FillLock(p) ==
    /\ Running(p, "fill")
    /\ IF lockFile = NoFile
       THEN Goto(p, "idle") /\ UNCHANGED lockFile
       ELSE /\ lockFile' = IF lockFile.nonce = claimed[p].nonce
                           THEN claimed[p] ELSE lockFile
            /\ Goto(p, "truncateEpoch")
    /\ UNCHANGED <<epochFile, incarnation, alive, claimed, seen, reclaimed,
                   goal, nonces, granted, ioErrors>>

TruncateEpoch(p) ==
    /\ Running(p, "truncateEpoch")
    /\ epochFile' = Truncated
    /\ Goto(p, "fillEpoch")
    /\ UNCHANGED <<lockFile, incarnation, alive, claimed, seen, reclaimed, goal,
                   nonces, granted, ioErrors>>

\* The epoch is durable, acquire() sets nonce and epoch and returns.
AcquireReturns(p) ==
    /\ Running(p, "fillEpoch")
    /\ epochFile' = claimed[p].epoch
    /\ granted' = IF claimed[p].epoch > granted THEN claimed[p].epoch ELSE granted
    /\ Goto(p, "owner")
    /\ UNCHANGED <<lockFile, incarnation, alive, claimed, seen, reclaimed, goal,
                   nonces, ioErrors>>

-----------------------------------------------------------------------------
(* reclaimAbandoned() *)

\* A missing or unreadable record proves nothing: the lock counts as held.
ReadLock(p) ==
    /\ Running(p, "readLock")
    /\ IF lockFile # NoFile /\ lockFile.whole
       THEN seen' = [seen EXCEPT ![p] = lockFile] /\ Goto(p, "probe")
       ELSE Goto(p, "idle") /\ UNCHANGED seen
    /\ UNCHANGED <<files, incarnation, alive, claimed, reclaimed, goal, nonces,
                   granted, ioErrors>>

ProbeOwner(p) ==
    /\ Running(p, "probe")
    /\ Goto(p, IF OwnerIsProvablyGone(seen[p]) THEN "unlink" ELSE "idle")
    /\ seen' = [seen EXCEPT ![p] = NoFile]
    /\ UNCHANGED <<files, incarnation, alive, claimed, reclaimed, goal, nonces,
                   granted, ioErrors>>

\* fs.unlink names the path, whatever lock is there by now; ENOENT is ignored.
UnlinkAbandoned(p) ==
    /\ Running(p, "unlink")
    /\ lockFile' = NoFile
    /\ reclaimed' = [reclaimed EXCEPT ![p] = TRUE]
    /\ Goto(p, "readEpoch")
    /\ UNCHANGED <<epochFile, incarnation, alive, claimed, seen, goal, nonces,
                   granted, ioErrors>>

-----------------------------------------------------------------------------
(* assertOwned() and release() *)

AssertOwned(p, for) ==
    /\ Running(p, "owner")
    /\ goal' = [goal EXCEPT ![p] = for]
    /\ Goto(p, "assertLock")
    /\ UNCHANGED <<files, incarnation, alive, claimed, seen, reclaimed, nonces,
                   granted, ioErrors>>

\* Both files are read before they are compared; here a lock that does not
\* match gives up at once, which only shortens a call that throws anyway.
AssertLock(p) ==
    /\ Running(p, "assertLock")
    /\ Goto(p, IF lockFile = claimed[p] THEN "assertEpoch" ELSE "owner")
    /\ UNCHANGED <<files, incarnation, alive, claimed, seen, reclaimed, goal,
                   nonces, granted, ioErrors>>

AssertEpoch(p) ==
    /\ Running(p, "assertEpoch")
    /\ Goto(p, CASE epochFile # claimed[p].epoch -> "owner"
                 [] goal[p] = "release"          -> "unlinkOwn"
                 [] OTHER                        -> "checked")
    /\ UNCHANGED <<files, incarnation, alive, claimed, seen, reclaimed, goal,
                   nonces, granted, ioErrors>>

\* The caller goes on with the write the assertion guarded.
GuardedWrite(p) ==
    /\ Running(p, "checked")
    /\ Goto(p, "owner")
    /\ UNCHANGED <<files, incarnation, alive, claimed, seen, reclaimed, goal,
                   nonces, granted, ioErrors>>

ReleaseUnlink(p) ==
    /\ Running(p, "unlinkOwn")
    /\ lockFile' = NoFile
    /\ claimed' = [claimed EXCEPT ![p] = NoFile]
    /\ Goto(p, "idle")
    /\ UNCHANGED <<epochFile, incarnation, alive, seen, reclaimed, goal, nonces,
                   granted, ioErrors>>

-----------------------------------------------------------------------------
(* The environment *)

\* A write fails half way (ENOSPC): acquire() throws before it sets the nonce.
WriteFails(p) ==
    /\ alive[p] /\ pc[p] \in {"fill", "fillEpoch"}
    /\ ioErrors < MaxIoErrors
    /\ ioErrors' = ioErrors + 1
    /\ Goto(p, "idle")
    /\ UNCHANGED <<files, incarnation, alive, claimed, seen, reclaimed, goal,
                   nonces, granted>>

Crash(p) ==
    /\ alive[p] /\ incarnation[p] < MaxIncarnation
    /\ alive' = [alive EXCEPT ![p] = FALSE]
    /\ claimed' = [claimed EXCEPT ![p] = NoFile]
    /\ seen' = [seen EXCEPT ![p] = NoFile]
    /\ reclaimed' = [reclaimed EXCEPT ![p] = FALSE]
    /\ Goto(p, "idle")
    /\ UNCHANGED <<files, incarnation, goal, nonces, granted, ioErrors>>

Restart(p) ==
    /\ ~alive[p]
    /\ alive' = [alive EXCEPT ![p] = TRUE]
    /\ incarnation' = [incarnation EXCEPT ![p] = @ + 1]
    /\ UNCHANGED <<files, pc, claimed, seen, reclaimed, goal, nonces, granted,
                   ioErrors>>

AcquireStep(p) ==
    \/ ReadEpoch(p) \/ CreateLock(p) \/ FillLock(p) \/ TruncateEpoch(p)
    \/ AcquireReturns(p) \/ ReadLock(p) \/ ProbeOwner(p) \/ UnlinkAbandoned(p)

OwnerStep(p) ==
    \/ AssertLock(p) \/ AssertEpoch(p) \/ GuardedWrite(p) \/ ReleaseUnlink(p)

Next == \E p \in Process :
    \/ Acquire(p) \/ AcquireStep(p)
    \/ \E for \in {"release", "write"} : AssertOwned(p, for)
    \/ OwnerStep(p) \/ WriteFails(p) \/ Crash(p) \/ Restart(p)

Spec == Init /\ [][Next]_lockVars

-----------------------------------------------------------------------------
(* Properties *)

\* At most one process believes it holds the writer lock, whatever crashes
\* and reclaims came before (acquire, claim, reclaimAbandoned), and it can prove
\* it: nobody unlinks or overwrites the record or the epoch of a running
\* owner, so assertOwned() never fails for it.
MutualExclusion == \A p \in Process : Holds(p) =>
    /\ \A q \in Process \ {p} : ~Holds(q)
    /\ lockFile = claimed[p] /\ epochFile = claimed[p].epoch

\* Every acquire that returns carries a fencing epoch greater than that of
\* every earlier one, also past an owner that died.
FencingEpochAdvances ==
    [][\A p \in Process : AcquireReturns(p) => claimed[p].epoch > granted]_lockVars

Abandoned(p) ==
    /\ lockFile # NoFile /\ lockFile.whole /\ lockFile.owner = p
    /\ ~alive[p] \/ incarnation[p] # lockFile.incarnation

\* A readable lock whose owner has gone is taken over, also when the owner's PID
\* is in use again (the comment on reclaimAbandoned(): no operator has to delete
\* the file by hand), as long as fencing-epoch.json can be read.  The bound on
\* claims ends the obligation early.
ReadableLockIsReclaimed == \A p \in Process :
    Abandoned(p) ~> (~Abandoned(p) \/ nonces = MaxClaims \/ epochFile = Truncated)

=============================================================================

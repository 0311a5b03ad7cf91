------------------------ MODULE FencedPublicationProofs ------------------------
(***************************************************************************)
(* For any number of processes, crashes, restarts and failed writes: when  *)
(* acquires do not overlap, one process owns the store, nobody touches the *)
(* record it can prove that with, its epoch is greater than all before,    *)
(* and it publishes on top of everything durable.                          *)
(***************************************************************************)
EXTENDS FencedPublication, TLAPS

-----------------------------------------------------------------------------
(* The inductive invariant *)

Claiming == {"create", "fill", "truncateEpoch", "fillEpoch"}

\* One process at a time is between the read of the epoch and its answer; a dead
\* one is nowhere.
StartersInv ==
    /\ \A p \in Process : ~alive[p] => pc[p] = "idle"
    /\ \A p, q \in Process : pc[p] \in Acquiring /\ pc[q] \in Acquiring => p = q

\* A record names the incarnation that claimed it.
ClaimInv ==
    /\ \A p \in Process : pc[p] \in Claiming \cup Owning =>
          claimed[p] \in LockRecord /\ claimed[p].owner = p
          /\ claimed[p].incarnation = incarnation[p]
    /\ lockFile # NoFile => lockFile.incarnation <= incarnation[lockFile.owner]

\* What each process may conclude from the lock file: the owner that it is there,
\* a claimant that it is its own, a reclaimer that nobody else can have made it.
FileInv == \A p \in Process :
    /\ pc[p] \in Owning => lockFile = claimed[p] /\ epochFile = claimed[p].epoch
    /\ pc[p] = "fill" =>
          lockFile # NoFile /\ lockFile.owner = p /\ lockFile.nonce = claimed[p].nonce
    /\ pc[p] \in {"truncateEpoch", "fillEpoch"} => lockFile = claimed[p]
    /\ pc[p] = "probe" => seen[p] \in LockRecord /\ lockFile \in {seen[p], NoFile}
    /\ pc[p] = "unlink" => lockFile = NoFile \/ OwnerIsProvablyGone(lockFile)

\* Every epoch granted so far is covered by the file, and exceeded by a claim.
EpochInv ==
    /\ epochFile # Truncated => granted <= epochFile
    /\ \A p \in Process : pc[p] \in Claiming => claimed[p].epoch > granted

LockInv == TypeOK /\ StartersInv /\ ClaimInv /\ FileInv /\ EpochInv

-----------------------------------------------------------------------------
(* What an owner and a starter know of the others *)

LEMMA OwnerAlone ==
    ASSUME LockInv, NEW p \in Process, pc[p] \in Owning
    PROVE  /\ alive[p] /\ lockFile = claimed[p] /\ lockFile \in LockRecord /\ lockFile # NoFile
           /\ lockFile.owner = p /\ ~OwnerIsProvablyGone(lockFile)
           /\ \A q \in Process \ {p} :
                 pc[q] \notin Owning \cup {"fill", "truncateEpoch", "fillEpoch", "unlink"}
<1>. USE DEF LockInv
<1>1. alive[p]
  BY DEF StartersInv, Owning
<1>2. lockFile = claimed[p] /\ lockFile \in LockRecord /\ lockFile # NoFile /\ lockFile.owner = p
  BY FilesOK DEF FileInv, ClaimInv
<1>3. ~OwnerIsProvablyGone(lockFile)
  BY <1>1, <1>2 DEF OwnerIsProvablyGone, ClaimInv
<1>4. ASSUME NEW q \in Process \ {p}
      PROVE  pc[q] \notin Owning \cup {"fill", "truncateEpoch", "fillEpoch", "unlink"}
  <2>1. pc[q] \in Owning \cup {"truncateEpoch", "fillEpoch"} => lockFile.owner = q
    BY DEF FileInv, ClaimInv, Claiming
  <2>2. pc[q] = "fill" => lockFile.owner = q
    BY DEF FileInv
  <2>3. pc[q] # "unlink"
    BY <1>2, <1>3 DEF FileInv
  <2>. QED  BY <1>2, <2>1, <2>2, <2>3
<1>. QED  BY <1>1, <1>2, <1>3, <1>4

LEMMA OneStarter ==
    ASSUME LockInv, NEW p \in Process, pc[p] \in Acquiring
    PROVE  \A q \in Process \ {p} : pc[q] \notin Acquiring
BY DEF LockInv, StartersInv

LEMMA PcType ==
    ASSUME TypeOK, NEW p \in Process, NEW l, pc' = [pc EXCEPT ![p] = l]
    PROVE  pc'[p] = l /\ \A q \in Process \ {p} : pc'[q] = pc[q]
BY DEF TypeOK

-----------------------------------------------------------------------------
(* Steps of a starter *)

LEMMA AcquireStart ==
    ASSUME LockInv, OneStarterAtATime, NEW p \in Process, Acquire(p)
    PROVE  LockInv'
<1>. USE DEF LockInv, Acquire, Running, Goto, Acquiring, Owning
<1>1. TypeOK'
  BY DEF TypeOK, files
<1>2. pc'[p] = "readEpoch" /\ \A q \in Process \ {p} : pc'[q] = pc[q]
  BY DEF TypeOK
<1>3. StartersInv'
  BY <1>2 DEF StartersInv
<1>4. ClaimInv'
  BY <1>2 DEF ClaimInv, Claiming, files
<1>5. FileInv'
  BY <1>2 DEF FileInv, files, OwnerIsProvablyGone
<1>6. EpochInv'
  BY <1>2 DEF EpochInv, Claiming, files
<1>. QED  BY <1>1, <1>3, <1>4, <1>5, <1>6

LEMMA ReadEpochStep ==
    ASSUME LockInv, NEW p \in Process, ReadEpoch(p)
    PROVE  LockInv'
<1>. USE DEF LockInv, ReadEpoch, ClaimWith, Running, Goto, Acquiring, Owning
<1>1. CASE epochFile = Truncated
  <2>1. pc'[p] = "idle" /\ \A q \in Process \ {p} : pc'[q] = pc[q]
    BY <1>1 DEF TypeOK
  <2>2. TypeOK'
    BY <1>1 DEF TypeOK, files
  <2>3. StartersInv' /\ ClaimInv'
    BY <1>1, <2>1 DEF StartersInv, ClaimInv, Claiming, files
  <2>4. FileInv' /\ EpochInv'
    BY <1>1, <2>1 DEF FileInv, EpochInv, Claiming, files, OwnerIsProvablyGone
  <2>. QED  BY <2>2, <2>3, <2>4
<1>2. CASE epochFile # Truncated
  <2>. DEFINE yes == TRUE
  <2>. DEFINE next == epochFile + 1
  <2>. DEFINE record == [nonce |-> 0, owner |-> p, incarnation |-> incarnation[p],
                         epoch |-> next, whole |-> yes]
  <2>1. claimed' = [claimed EXCEPT ![p] = record]
    BY <1>2
  <2>2. yes \in BOOLEAN /\ next \in Nat /\ (granted <= epochFile => next > granted)
    BY <1>2 DEF TypeOK
  <2>. HIDE DEF yes, next
  <2>3. record \in LockRecord /\ record.owner = p /\ record.incarnation = incarnation[p]
        /\ record.epoch = next
    BY <2>2 DEF TypeOK, LockRecord
  <2>. HIDE DEF record
  <2>4. pc' = [pc EXCEPT ![p] = "create"]
    BY <1>2
  <2>5. TypeOK'
    BY <2>1, <2>3, <2>4 DEF TypeOK, files
  <2>6. pc'[p] = "create" /\ \A q \in Process \ {p} : pc'[q] = pc[q]
    BY <2>4 DEF TypeOK
  <2>7. claimed'[p] = record /\ \A q \in Process \ {p} : claimed'[q] = claimed[q]
    BY <2>1 DEF TypeOK
  <2>8. StartersInv' /\ ClaimInv'
    BY <2>3, <2>6, <2>7 DEF StartersInv, ClaimInv, Claiming, files
  <2>9. FileInv'
    BY <2>6, <2>7 DEF FileInv, files, OwnerIsProvablyGone
  <2>10. EpochInv'
    BY <1>2, <2>2, <2>3, <2>6, <2>7 DEF EpochInv, Claiming, files
  <2>. QED  BY <2>5, <2>8, <2>9, <2>10
<1>. QED  BY <1>1, <1>2

LEMMA CreateLockStep ==
    ASSUME LockInv, NEW p \in Process, CreateLock(p)
    PROVE  LockInv'
<1>. USE DEF LockInv, CreateLock, Running, Goto, Acquiring, Owning
<1>1. CASE lockFile = NoFile
  <2>. DEFINE record == [claimed[p] EXCEPT !.nonce = nonces + 1]
  <2>. DEFINE empty == [record EXCEPT !.whole = FALSE]
  <2>. USE DEF CreateWithNonce
  <2>1. pc'[p] = "fill" /\ \A q \in Process \ {p} : pc'[q] = pc[q]
    BY <1>1 DEF TypeOK
  <2>2. claimed[p] \in LockRecord /\ claimed[p].owner = p
        /\ claimed[p].incarnation = incarnation[p] /\ claimed[p].epoch > granted
    BY DEF ClaimInv, EpochInv, Claiming
  <2>3. /\ record \in LockRecord /\ record.owner = p /\ record.incarnation = incarnation[p]
        /\ record.epoch = claimed[p].epoch
    BY <2>2 DEF LockRecord, TypeOK
  <2>4. empty \in LockRecord /\ empty.owner = p /\ empty.incarnation = incarnation[p]
        /\ empty.nonce = record.nonce
    BY <2>3 DEF LockRecord
  <2>5. claimed' = [claimed EXCEPT ![p] = record] /\ lockFile' = empty
    BY <1>1, <2>2 DEF TypeOK
  <2>. HIDE DEF record, empty
  <2>6. claimed'[p] = record /\ \A q \in Process \ {p} : claimed'[q] = claimed[q]
    BY <2>5 DEF TypeOK
  <2>7. TypeOK'
    BY <1>1, <2>3, <2>4, <2>5 DEF TypeOK
  <2>8. StartersInv'
    BY <1>1, <2>1 DEF StartersInv
  <2>9. ClaimInv'
    BY <1>1, <2>1, <2>3, <2>4, <2>5, <2>6 DEF ClaimInv, Claiming, TypeOK
  <2>10. \A q \in Process \ {p} : pc[q] \notin Owning \cup Acquiring
    <3>1. \A q \in Process \ {p} : pc[q] \notin Acquiring
      BY DEF StartersInv
    <3>2. \A q \in Process : pc[q] \in Owning => claimed[q] \in LockRecord /\ lockFile = claimed[q]
      BY DEF FileInv, ClaimInv, Claiming
    <3>. QED  BY <1>1, <3>1, <3>2, FilesOK
  <2>11. FileInv'
    BY <2>1, <2>4, <2>5, <2>6, <2>10, FilesOK DEF FileInv
  <2>12. EpochInv'
    BY <1>1, <2>1, <2>2, <2>3, <2>6, <2>10 DEF EpochInv, Claiming
  <2>. QED  BY <2>7, <2>8, <2>9, <2>11, <2>12
<1>2. CASE lockFile # NoFile
  <2>1. pc'[p] \in {"idle", "readLock"} /\ \A q \in Process \ {p} : pc'[q] = pc[q]
    BY <1>2 DEF TypeOK
  <2>2. claimed'[p] = NoFile /\ \A q \in Process \ {p} : claimed'[q] = claimed[q]
    BY <1>2 DEF TypeOK
  <2>3. TypeOK'
    BY <1>2, <2>1 DEF TypeOK
  <2>4. StartersInv' /\ ClaimInv'
    BY <1>2, <2>1, <2>2 DEF StartersInv, ClaimInv, Claiming
  <2>5. FileInv' /\ EpochInv'
    BY <1>2, <2>1, <2>2 DEF FileInv, EpochInv, Claiming, OwnerIsProvablyGone
  <2>. QED  BY <2>3, <2>4, <2>5
<1>. QED  BY <1>1, <1>2

LEMMA FillLockStep ==
    ASSUME LockInv, NEW p \in Process, FillLock(p)
    PROVE  LockInv'
<1>. USE DEF LockInv, FillLock, Running, Goto, Acquiring, Owning
<1>1. claimed[p] \in LockRecord /\ claimed[p].owner = p
      /\ claimed[p].incarnation = incarnation[p]
  BY DEF ClaimInv, Claiming
<1>2. lockFile' = claimed[p] /\ lockFile # NoFile
  BY DEF FileInv
<1>3. pc'[p] = "truncateEpoch" /\ \A q \in Process \ {p} : pc'[q] = pc[q]
  BY <1>2 DEF TypeOK
<1>4. TypeOK'
  BY <1>1, <1>2 DEF TypeOK
<1>5. StartersInv'
  BY <1>3 DEF StartersInv
<1>6. ClaimInv'
  BY <1>1, <1>2, <1>3 DEF ClaimInv, Claiming, TypeOK
<1>7. \A q \in Process \ {p} : pc[q] \notin Owning \cup Acquiring
  BY OwnerAlone DEF StartersInv
<1>8. FileInv'
  BY <1>2, <1>3, <1>7 DEF FileInv
<1>9. EpochInv'
  BY <1>3 DEF EpochInv, Claiming
<1>. QED  BY <1>4, <1>5, <1>6, <1>8, <1>9

LEMMA TruncateEpochStep ==
    ASSUME LockInv, NEW p \in Process, TruncateEpoch(p)
    PROVE  LockInv'
<1>. USE DEF LockInv, TruncateEpoch, Running, Goto, Acquiring, Owning
<1>1. pc'[p] = "fillEpoch" /\ \A q \in Process \ {p} : pc'[q] = pc[q]
  BY DEF TypeOK
<1>2. \A q \in Process \ {p} : pc[q] \notin Owning \cup Acquiring
  BY OwnerAlone DEF StartersInv
<1>3. TypeOK'
  BY DEF TypeOK
<1>4. StartersInv' /\ ClaimInv'
  BY <1>1 DEF StartersInv, ClaimInv, Claiming
<1>5. FileInv'
  BY <1>1, <1>2 DEF FileInv
<1>6. EpochInv'
  BY <1>1 DEF EpochInv, Claiming
<1>. QED  BY <1>3, <1>4, <1>5, <1>6

LEMMA AcquireReturnsStep ==
    ASSUME LockInv, NEW p \in Process, AcquireReturns(p)
    PROVE  LockInv'
<1>. USE DEF LockInv, AcquireReturns, Running, Goto, Acquiring, Owning
<1>1. claimed[p] \in LockRecord /\ claimed[p].epoch \in Nat /\ claimed[p].epoch > granted
  BY DEF ClaimInv, EpochInv, Claiming, LockRecord
<1>2. pc'[p] = "owner" /\ \A q \in Process \ {p} : pc'[q] = pc[q]
  BY DEF TypeOK
<1>3. \A q \in Process \ {p} : pc[q] \notin Owning \cup Acquiring
  BY OwnerAlone DEF StartersInv
<1>4. granted' = claimed[p].epoch /\ epochFile' = claimed[p].epoch
  BY <1>1
<1>5. TypeOK'
  BY <1>1, <1>4 DEF TypeOK
<1>6. StartersInv' /\ ClaimInv'
  BY <1>2 DEF StartersInv, ClaimInv, Claiming
<1>7. FileInv'
  BY <1>2, <1>3, <1>4 DEF FileInv
<1>8. EpochInv'
  BY <1>1, <1>2, <1>3, <1>4 DEF EpochInv, Claiming
<1>. QED  BY <1>5, <1>6, <1>7, <1>8

LEMMA ReadLockStep ==
    ASSUME LockInv, NEW p \in Process, ReadLock(p)
    PROVE  LockInv'
<1>. USE DEF LockInv, ReadLock, Running, Goto, Acquiring, Owning
<1>1. pc'[p] \in {"probe", "idle"} /\ \A q \in Process \ {p} : pc'[q] = pc[q]
  BY DEF TypeOK
<1>2. /\ pc'[p] = "probe" => seen'[p] = lockFile /\ lockFile \in LockRecord
      /\ \A q \in Process \ {p} : seen'[q] = seen[q]
  BY DEF TypeOK
<1>3. TypeOK'
  BY DEF TypeOK, files
<1>4. StartersInv' /\ ClaimInv'
  BY <1>1 DEF StartersInv, ClaimInv, Claiming, files
<1>5. FileInv' /\ EpochInv'
  BY <1>1, <1>2 DEF FileInv, EpochInv, Claiming, files, OwnerIsProvablyGone
<1>. QED  BY <1>3, <1>4, <1>5

LEMMA ProbeOwnerStep ==
    ASSUME LockInv, NEW p \in Process, ProbeOwner(p)
    PROVE  LockInv'
<1>. USE DEF LockInv, ProbeOwner, Running, Goto, Acquiring, Owning
<1>1. pc'[p] \in {"unlink", "idle"} /\ \A q \in Process \ {p} : pc'[q] = pc[q]
  BY DEF TypeOK
<1>2. /\ pc'[p] = "unlink" => lockFile = NoFile \/ OwnerIsProvablyGone(lockFile)
      /\ \A q \in Process \ {p} : seen'[q] = seen[q]
  BY DEF TypeOK, FileInv
<1>3. TypeOK'
  BY DEF TypeOK, files
<1>4. StartersInv' /\ ClaimInv'
  BY <1>1 DEF StartersInv, ClaimInv, Claiming, files
<1>5. FileInv' /\ EpochInv'
  BY <1>1, <1>2 DEF FileInv, EpochInv, Claiming, files, OwnerIsProvablyGone
<1>. QED  BY <1>3, <1>4, <1>5

LEMMA UnlinkAbandonedStep ==
    ASSUME LockInv, NEW p \in Process, UnlinkAbandoned(p)
    PROVE  LockInv'
<1>. USE DEF LockInv, UnlinkAbandoned, Running, Goto, Acquiring, Owning
<1>1. pc'[p] = "readEpoch" /\ \A q \in Process \ {p} : pc'[q] = pc[q]
  BY DEF TypeOK
<1>2. \A q \in Process \ {p} : pc[q] \notin Owning \cup Acquiring
  BY OwnerAlone DEF StartersInv
<1>3. TypeOK'
  BY DEF TypeOK
<1>4. StartersInv' /\ ClaimInv'
  BY <1>1 DEF StartersInv, ClaimInv, Claiming
<1>5. FileInv' /\ EpochInv'
  BY <1>1, <1>2 DEF FileInv, EpochInv, Claiming
<1>. QED  BY <1>3, <1>4, <1>5

-----------------------------------------------------------------------------
(* Steps of an owner *)

LEMMA AssertOwnedStep ==
    ASSUME LockInv, NEW p \in Process, NEW for \in {"release", "write"}, AssertOwned(p, for)
    PROVE  LockInv'
<1>. USE DEF LockInv, AssertOwned, Running, Goto, Acquiring, Owning
<1>1. pc'[p] = "assertLock" /\ \A q \in Process \ {p} : pc'[q] = pc[q]
  BY DEF TypeOK
<1>2. TypeOK'
  BY DEF TypeOK, files
<1>3. StartersInv' /\ ClaimInv'
  BY <1>1 DEF StartersInv, ClaimInv, Claiming, files
<1>4. FileInv' /\ EpochInv'
  BY <1>1 DEF FileInv, EpochInv, Claiming, files, OwnerIsProvablyGone
<1>. QED  BY <1>2, <1>3, <1>4

LEMMA AssertionsStep ==
    ASSUME LockInv, NEW p \in Process, AssertLock(p) \/ AssertEpoch(p) \/ GuardedWrite(p)
    PROVE  LockInv' /\ pc'[p] \in Owning
<1>. USE DEF LockInv, AssertLock, AssertEpoch, GuardedWrite, Running, Goto, Acquiring, Owning
<1>1. pc[p] \in Owning /\ pc'[p] \in Owning /\ \A q \in Process \ {p} : pc'[q] = pc[q]
  BY DEF TypeOK
<1>2. TypeOK'
  BY <1>1 DEF TypeOK, files
<1>3. StartersInv' /\ ClaimInv'
  BY <1>1 DEF StartersInv, ClaimInv, Claiming, files
<1>4. FileInv' /\ EpochInv'
  BY <1>1 DEF FileInv, EpochInv, Claiming, files, OwnerIsProvablyGone
<1>. QED  BY <1>1, <1>2, <1>3, <1>4

LEMMA ReleaseStep ==
    ASSUME LockInv, NEW p \in Process, ReleaseUnlink(p)
    PROVE  LockInv'
<1>. USE DEF LockInv, ReleaseUnlink, Running, Goto, Acquiring, Owning
<1>1. pc'[p] = "idle" /\ \A q \in Process \ {p} : pc'[q] = pc[q]
  BY DEF TypeOK
<1>2. \A q \in Process \ {p} :
         pc[q] \notin Owning \cup {"fill", "truncateEpoch", "fillEpoch", "unlink"}
  BY OwnerAlone
<1>3. \A q \in Process \ {p} : claimed'[q] = claimed[q]
  BY DEF TypeOK
<1>4. TypeOK'
  BY DEF TypeOK
<1>5. StartersInv' /\ ClaimInv'
  BY <1>1, <1>3 DEF StartersInv, ClaimInv, Claiming
<1>6. FileInv' /\ EpochInv'
  BY <1>1, <1>2, <1>3 DEF FileInv, EpochInv, Claiming
<1>. QED  BY <1>4, <1>5, <1>6

-----------------------------------------------------------------------------
(* Steps of the environment *)

LEMMA WriteFailsStep ==
    ASSUME LockInv, NEW p \in Process, WriteFails(p)
    PROVE  LockInv'
<1>. USE DEF LockInv, WriteFails, Running, Goto, Acquiring, Owning
<1>1. pc'[p] = "idle" /\ \A q \in Process \ {p} : pc'[q] = pc[q]
  BY DEF TypeOK
<1>2. TypeOK'
  BY DEF TypeOK, files
<1>3. StartersInv' /\ ClaimInv'
  BY <1>1 DEF StartersInv, ClaimInv, Claiming, files
<1>4. FileInv' /\ EpochInv'
  BY <1>1 DEF FileInv, EpochInv, Claiming, files, OwnerIsProvablyGone
<1>. QED  BY <1>2, <1>3, <1>4

LEMMA CrashStep ==
    ASSUME LockInv, NEW p \in Process, Crash(p)
    PROVE  LockInv'
<1>. USE DEF LockInv, Crash, Running, Goto, Acquiring, Owning
<1>1. pc'[p] = "idle" /\ \A q \in Process \ {p} : pc'[q] = pc[q]
  BY DEF TypeOK
<1>2. \A q \in Process \ {p} :
         claimed'[q] = claimed[q] /\ seen'[q] = seen[q] /\ alive'[q] = alive[q]
  BY DEF TypeOK
<1>3. ~alive'[p]
  BY DEF TypeOK
<1>4. TypeOK'
  BY DEF TypeOK, files
<1>5. StartersInv' /\ ClaimInv'
  BY <1>1, <1>2 DEF StartersInv, ClaimInv, Claiming, files
<1>6. lockFile \in LockRecord /\ OwnerIsProvablyGone(lockFile) => OwnerIsProvablyGone(lockFile)'
  BY <1>2, <1>3 DEF OwnerIsProvablyGone, files, LockRecord
<1>7. FileInv' /\ EpochInv'
  BY <1>1, <1>2, <1>6 DEF FileInv, EpochInv, Claiming, files, TypeOK
<1>. QED  BY <1>4, <1>5, <1>7

LEMMA RestartStep ==
    ASSUME LockInv, NEW p \in Process, Restart(p)
    PROVE  LockInv'
<1>. USE DEF LockInv, Restart, Running, Acquiring, Owning
<1>1. pc[p] = "idle"
  BY DEF StartersInv
<1>2. /\ incarnation'[p] = incarnation[p] + 1 /\ incarnation[p] \in Nat
      /\ \A q \in Process \ {p} : incarnation'[q] = incarnation[q] /\ alive'[q] = alive[q]
  BY DEF TypeOK
<1>3. TypeOK'
  BY DEF TypeOK, files
<1>4. StartersInv'
  BY <1>2 DEF StartersInv
<1>5. ClaimInv'
  BY <1>1, <1>2 DEF ClaimInv, Claiming, files, TypeOK, LockRecord
<1>6. lockFile # NoFile /\ OwnerIsProvablyGone(lockFile) => OwnerIsProvablyGone(lockFile)'
  BY <1>2 DEF OwnerIsProvablyGone, files, LockRecord, ClaimInv, TypeOK
<1>7. FileInv' /\ EpochInv'
  BY <1>1, <1>6 DEF FileInv, EpochInv, Claiming, files
<1>. QED  BY <1>3, <1>4, <1>5, <1>7

LEMMA LockStutters ==
    ASSUME LockInv, UNCHANGED lockVars
    PROVE  LockInv'
BY DEF lockVars, LockInv, TypeOK, StartersInv, ClaimInv, FileInv, EpochInv, OwnerIsProvablyGone,
       Claiming

LEMMA LockInit ==
    ASSUME Init
    PROVE  LockInv
<1>. DEFINE no == FALSE
<1>1. no \in BOOLEAN /\ reclaimed = [p \in Process |-> no] /\ ~no
  BY DEF Init
<1>2. alive = [p \in Process |-> ~no]
  BY DEF Init
<1>. HIDE DEF no
<1>3. TypeOK
  BY <1>1, <1>2 DEF Init, TypeOK, Acquiring, Owning
<1>4. StartersInv /\ ClaimInv /\ FileInv
  BY DEF Init, StartersInv, ClaimInv, FileInv, Acquiring, Claiming, Owning
<1>5. EpochInv
  BY DEF Init, EpochInv, Claiming
<1>. QED  BY <1>3, <1>4, <1>5 DEF LockInv

LEMMA AcquireStepKeeps ==
    ASSUME LockInv, NEW p \in Process, AcquireStep(p)
    PROVE  LockInv'
BY ReadEpochStep, CreateLockStep, FillLockStep, TruncateEpochStep, AcquireReturnsStep,
   ReadLockStep, ProbeOwnerStep, UnlinkAbandonedStep DEF AcquireStep

-----------------------------------------------------------------------------
(* What the owner knows of the root *)

\* A loaded memory is the durable history, and only a loaded owner publishes.
MemoryInv ==
    /\ memory = [p \in Process |-> memory[p]]
    /\ \A p \in Process : memory[p] # NotLoaded =>
          pc[p] \in Owning /\ memory[p] = root.commits
    /\ \A p \in Process :
          pc[p] = "checked" \/ (pc[p] \in {"assertLock", "assertEpoch"} /\ goal[p] = "write")
          => memory[p] # NotLoaded

FencedInv == LockInv /\ MemoryInv

LEMMA LoadRootStep ==
    ASSUME FencedInv, NEW p \in Process, LoadRoot(p)
    PROVE  FencedInv'
<1>1. LockInv'
  BY LockStutters DEF FencedInv, LoadRoot
<1>2. MemoryInv'
  BY DEF FencedInv, MemoryInv, LoadRoot, lockVars, Running, Owning
<1>. QED  BY <1>1, <1>2 DEF FencedInv

LEMMA AssertOwnedKeeps ==
    ASSUME FencedInv, NEW p \in Process, BeginPublish(p) \/ ReleaseWriter(p)
    PROVE  FencedInv'
<1>. USE DEF FencedInv, BeginPublish, ReleaseWriter
<1>1. LockInv'
  BY AssertOwnedStep
<1>2. MemoryInv'
  BY DEF MemoryInv, AssertOwned, Running, Goto, Owning, LockInv, TypeOK
<1>. QED  BY <1>1, <1>2

LEMMA ReplaceRootStep ==
    ASSUME FencedInv, NEW p \in Process, ReplaceRoot(p)
    PROVE  FencedInv' /\ root.commits \subseteq root'.commits
<1>. USE DEF FencedInv
<1>. DEFINE commits == memory[p] \cup {<<claimed[p].nonce, Cardinality(memory[p])>>}
<1>1. GuardedWrite(p) /\ pc[p] = "checked"
  BY DEF ReplaceRoot, GuardedWrite, Running
<1>2. LockInv' /\ pc'[p] \in Owning
  BY <1>1, AssertionsStep
<1>3. memory[p] = root.commits
  BY <1>1 DEF MemoryInv
<1>4. root'.commits = commits /\ memory' = [memory EXCEPT ![p] = commits]
  BY DEF ReplaceRoot
<1>5. root.commits \subseteq root'.commits
  BY <1>3, <1>4
<1>. HIDE DEF commits
<1>6. \A q \in Process \ {p} :
         /\ pc[q] \notin Owning \cup {"fill", "truncateEpoch", "fillEpoch", "unlink"}
         /\ memory[q] = NotLoaded
  BY <1>1, OwnerAlone DEF MemoryInv, Owning
<1>7. pc'[p] = "owner" /\ \A q \in Process \ {p} : pc'[q] = pc[q]
  BY <1>1 DEF GuardedWrite, Goto, LockInv, TypeOK
<1>8. /\ memory'[p] = commits /\ \A q \in Process \ {p} : memory'[q] = memory[q]
      /\ memory' = [q \in Process |-> memory'[q]]
  BY <1>4 DEF MemoryInv
<1>9. MemoryInv'
  BY <1>2, <1>4, <1>6, <1>7, <1>8 DEF MemoryInv, Owning
<1>. QED  BY <1>2, <1>5, <1>9

LEMMA LockStepKeeps ==
    ASSUME FencedInv, OneStarterAtATime, NEW p \in Process, LockStep(p)
    PROVE  FencedInv' /\ root' = root
<1>. USE DEF FencedInv
<1>1. LockInv'
  BY AcquireStart, AcquireStepKeeps, AssertionsStep, ReleaseStep, WriteFailsStep, CrashStep,
     RestartStep DEF LockStep
<1>2. /\ \A q \in Process \ {p} : pc'[q] = pc[q] /\ goal'[q] = goal[q]
      /\ goal'[p] = goal[p]
      /\ pc'[p] \in {"assertLock", "assertEpoch", "checked"} =>
            \/ pc'[p] = "assertEpoch" /\ pc[p] = "assertLock"
            \/ pc'[p] = "checked" /\ pc[p] = "assertEpoch" /\ goal[p] # "release"
  <2>. USE DEF LockInv, TypeOK, Running, Goto
  <2>1. CASE Acquire(p)
    BY <2>1 DEF Acquire
  <2>2. CASE ReadEpoch(p) \/ CreateLock(p) \/ FillLock(p) \/ TruncateEpoch(p)
    BY <2>2 DEF ReadEpoch, ClaimWith, CreateLock, CreateWithNonce, FillLock, TruncateEpoch
  <2>3. CASE AcquireReturns(p) \/ ReadLock(p) \/ ProbeOwner(p) \/ UnlinkAbandoned(p)
    BY <2>3 DEF AcquireReturns, ReadLock, ProbeOwner, UnlinkAbandoned
  <2>4. CASE AssertLock(p) \/ AssertEpoch(p) \/ ReleaseUnlink(p)
    BY <2>4 DEF AssertLock, AssertEpoch, ReleaseUnlink
  <2>5. CASE WriteFails(p) \/ Crash(p)
    BY <2>5 DEF WriteFails, Crash
  <2>6. CASE Restart(p)
    BY <2>6 DEF Restart, StartersInv
  <2>. QED  BY <2>1, <2>2, <2>3, <2>4, <2>5, <2>6 DEF LockStep, AcquireStep
<1>3. /\ memory'[p] = IF pc'[p] \in Owning THEN memory[p] ELSE NotLoaded
      /\ \A q \in Process \ {p} : memory'[q] = memory[q]
      /\ memory' = [q \in Process |-> memory'[q]]
      /\ root' = root
  BY DEF LockStep, MemoryInv
<1>4. goal[p] \in {"release", "write"}
  BY DEF LockInv, TypeOK
<1>5. MemoryInv'
  BY <1>2, <1>3, <1>4 DEF MemoryInv, Owning
<1>. QED  BY <1>1, <1>3, <1>5

LEMMA FencedStep ==
    ASSUME FencedInv, OneStarterAtATime, [FencedNext]_fencedVars
    PROVE  FencedInv' /\ root.commits \subseteq root'.commits
<1>1. CASE UNCHANGED fencedVars
  BY <1>1, LockStutters DEF fencedVars, FencedInv, MemoryInv, lockVars
<1>2. ASSUME NEW p \in Process, LoadRoot(p)
      PROVE  FencedInv' /\ root' = root
  BY <1>2, LoadRootStep DEF LoadRoot
<1>3. ASSUME NEW p \in Process, BeginPublish(p) \/ ReleaseWriter(p)
      PROVE  FencedInv' /\ root' = root
  BY <1>3, AssertOwnedKeeps DEF BeginPublish, ReleaseWriter
<1>. QED  BY <1>1, <1>2, <1>3, ReplaceRootStep, LockStepKeeps DEF FencedNext

-----------------------------------------------------------------------------
(* Theorems *)

\* Starts that do not overlap keep the invariant, whatever crashes, restarts and
\* failed writes come between two calls (acquire, claim, reclaimAbandoned,
\* assertOwned, release, acquireWriter, publish).
THEOREM FencedInvariance ==
    ASSUME OneStarterAtATime
    PROVE  FencedSpec => []FencedInv
<1>1. FencedInit => FencedInv
  BY LockInit DEF FencedInit, FencedInv, MemoryInv, Init, Owning
<1>2. FencedInv /\ [FencedNext]_fencedVars => FencedInv'
  BY FencedStep
<1>. QED  BY <1>1, <1>2, PTL DEF FencedSpec

\* The files and the variables of acquire() stay well typed.
THEOREM LockIsWellTyped ==
    ASSUME OneStarterAtATime
    PROVE  FencedSpec => []TypeOK
<1>1. FencedInv => TypeOK
  BY DEF FencedInv, LockInv
<1>. QED  BY <1>1, FencedInvariance, PTL

\* One process at a time owns the store and can prove it: a lock is unlinked only
\* by its owner or after its owner has gone (reclaimAbandoned).
THEOREM OneOwner ==
    ASSUME OneStarterAtATime
    PROVE  FencedSpec => []MutualExclusion
<1>1. FencedInv => MutualExclusion
  <2>. SUFFICES ASSUME FencedInv, NEW p \in Process, Holds(p)
                PROVE  /\ \A q \in Process \ {p} : ~Holds(q)
                       /\ lockFile = claimed[p] /\ epochFile = claimed[p].epoch
    BY DEF MutualExclusion
  <2>1. pc[p] \in Owning /\ LockInv
    BY DEF Holds, FencedInv
  <2>2. \A q \in Process \ {p} : ~Holds(q)
    BY <2>1, OwnerAlone DEF Holds
  <2>3. lockFile = claimed[p] /\ epochFile = claimed[p].epoch
    BY <2>1 DEF LockInv, FileInv
  <2>. QED  BY <2>2, <2>3
<1>. QED  BY <1>1, FencedInvariance, PTL

\* An acquire that returns carries a greater epoch than all before it (claim).
THEOREM EpochsAdvance ==
    ASSUME OneStarterAtATime
    PROVE  FencedSpec => FencingEpochAdvances
<1>1. FencedInv => [\A p \in Process : AcquireReturns(p) => claimed[p].epoch > granted]_lockVars
  BY DEF FencedInv, LockInv, EpochInv, Claiming, AcquireReturns, Running
<1>. QED  BY <1>1, FencedInvariance, PTL DEF FencingEpochAdvances

\* No owner publishes over a commit it has not loaded (acquireWriter, publish).
THEOREM CommitsAreKept ==
    ASSUME OneStarterAtATime
    PROVE  FencedSpec => CommitsSurvive
<1>1. FencedInv /\ [FencedNext]_fencedVars => [root.commits \subseteq root'.commits]_fencedVars
  BY FencedStep
<1>. QED  BY <1>1, FencedInvariance, PTL DEF CommitsSurvive, FencedSpec

=============================================================================

--------------------------- MODULE StateStoreProofs ---------------------------
(***************************************************************************)
(* Proofs about StateStore, for every set of mutations and every bound.    *)
(*                                                                         *)
(* Whatever call fails and wherever the process crashes, the store is type *)
(* correct and the epochs of its root never go back.  When the writes of   *)
(* index files and the reloads succeed, a store publishes only verified    *)
(* roots, each one generation past the last the object held, keeps its     *)
(* memory in agreement with its files or, after an export that failed past *)
(* the rename, one publication behind them, never loses an acknowledged    *)
(* mutation, and implements AtomicStore.                                   *)
(***************************************************************************)
EXTENDS StateStore, SequenceTheorems, WellFoundedInduction, TLAPS

-----------------------------------------------------------------------------
(* Type correctness *)

LEMMA EmptyStateType == EmptyState \in States
  BY DEF EmptyState, States

LEMMA LegacyStateType == LegacyState \in States
  BY EmptyStateType DEF LegacyState, States

LEMMA LoadedType ==
    ASSUME NEW s \in States, highWater \in Nat
    PROVE  /\ Loaded(s) \in States
           /\ Loaded(s).content = s.content /\ Loaded(s).generation = s.generation
           /\ Loaded(s).authority >= highWater
<1>1. s.authority \in Nat \ {0} /\ DOMAIN s = {"schema", "generation", "fence", "authority", "content"}
  BY DEF States
<1> DEFINE a == IF highWater > s.authority THEN highWater ELSE s.authority
<1>2. a \in Nat \ {0} /\ a >= highWater
  BY <1>1
<1>3. Loaded(s) = [s EXCEPT !.schema = 2, !.authority = a]
  BY DEF Loaded
<1> HIDE DEF a
<1>4. [s EXCEPT !.schema = 2, !.authority = a] \in States
  BY <1>2 DEF States
<1>5. QED BY <1>1, <1>2, <1>3, <1>4 DEF States

\* The successor states that mutate() builds are states.
LEMMA UpdateType ==
    ASSUME NEW s \in States, NEW g \in Nat, NEW f \in Nat, NEW a \in Nat \ {0},
           NEW c \in SUBSET Mutation
    PROVE  /\ [s EXCEPT !.generation = g, !.fence = f, !.content = c] \in States
           /\ [s EXCEPT !.generation = g, !.fence = f, !.authority = a] \in States
  BY DEF States

LEMMA SuccessorType ==
    ASSUME NEW s \in States, NEW f \in Nat, NEW c \in SUBSET Mutation
    PROVE  /\ [s EXCEPT !.generation = @ + 1, !.fence = f, !.content = @ \cup c] \in States
           /\ [s EXCEPT !.generation = @ + 1, !.fence = f, !.authority = @ + 1] \in States
<1>1. /\ s.generation + 1 \in Nat /\ s.authority + 1 \in Nat \ {0}
      /\ s.content \cup c \in SUBSET Mutation
  BY DEF States
<1>2. QED BY <1>1, UpdateType

\* The retained chain of a root is a sequence of entries.
LEMMA ChainType ==
    ASSUME NEW r \in Roots \cup {NoRoot}
    PROVE  ChainAfter(r) \in Seq(Entries)
<1>1. CASE r = NoRoot
  BY <1>1 DEF ChainAfter
<1>2. CASE r # NoRoot
  <2> DEFINE all == <<[tx |-> r.tx, state |-> r.state]>> \o r.chain
             n == IF Len(all) < MaxPredecessorDepth THEN Len(all) ELSE MaxPredecessorDepth
  <2>1. r \in Roots
    BY <1>2
  <2>2. /\ [tx |-> r.tx, state |-> r.state] \in Entries
        /\ r.chain \in Seq(Entries)
    BY <2>1 DEF Roots, Entries
  <2>3. <<[tx |-> r.tx, state |-> r.state]>> \in Seq(Entries)
    BY <2>2
  <2>4. all \in Seq(Entries)
    BY <2>2, <2>3, ConcatProperties
  <2>5. n \in 0..Len(all)
    BY <2>4 DEF MaxPredecessorDepth
  <2> HIDE DEF all, n
  <2>6. SubSeq(all, 1, n) \in Seq(Entries)
    BY <2>4, <2>5, SubSeqProperties
  <2>7. ChainAfter(r) = SubSeq(all, 1, n)
    BY <1>2 DEF ChainAfter, all, n
  <2>8. QED BY <2>6, <2>7
<1>3. QED BY <1>1, <1>2

\* The root that recovery settles on is a root, also when it is a predecessor.
LEMMA VerifiedRootType ==
    ASSUME root \in Roots, HasVerifiedRoot
    PROVE  VerifiedRoot \in Roots
<1>1. CASE root.state \in intact
  BY <1>1 DEF VerifiedRoot
<1>2. CASE root.state \notin intact
  <2> DEFINE i == CHOOSE i \in VerifiedPredecessors : \A j \in VerifiedPredecessors : i <= j
  <2>1. root.chain \in Seq(Entries)
    BY DEF Roots
  <2>2. VerifiedPredecessors \subseteq Nat /\ VerifiedPredecessors # {}
    BY <1>2, <2>1 DEF VerifiedPredecessors, HasVerifiedRoot
  <2>3. \E k \in VerifiedPredecessors : \A j \in VerifiedPredecessors : k <= j
    <3>1. PICK k \in VerifiedPredecessors :
              \A j \in VerifiedPredecessors : ~ (<<j, k>> \in OpToRel(<, Nat))
      BY <2>2, NatLessThanWellFounded, WFMin
    <3>2. \A j \in VerifiedPredecessors : ~ (j < k)
      BY <2>2, <3>1 DEF OpToRel
    <3>3. QED BY <2>2, <3>2
  <2>4. i \in VerifiedPredecessors
    BY <2>3
  <2> HIDE DEF i
  <2>5. i \in 1 .. Len(root.chain)
    BY <2>1, <2>4 DEF VerifiedPredecessors
  <2>6. root.chain[i] \in Entries
    BY <2>1, <2>5, ElementOfSeq
  <2>7. SubSeq(root.chain, i + 1, Len(root.chain)) \in Seq(Entries)
    BY <2>1, <2>5, SubSeqProperties
  <2>8. VerifiedRoot = [tx |-> root.chain[i].tx, state |-> root.chain[i].state,
                        chain |-> SubSeq(root.chain, i + 1, Len(root.chain))]
    BY <1>2 DEF VerifiedRoot, i
  <2>9. QED BY <2>6, <2>7, <2>8 DEF Roots, Entries
<1>3. QED BY <1>1, <1>2

\* What recover() leaves in memory is well-typed, and never below the durable
\* authority epoch.
LEMMA RecoverType ==
    ASSUME TypeOK, Recover
    PROVE  /\ highWater \in Nat
           /\ state' \in States /\ state'.authority >= highWater
           /\ memRoot' \in Roots \cup {NoRoot}
           /\ pending' \in [migration : BOOLEAN, recovery : BOOLEAN, highWater : BOOLEAN,
                    wal : SUBSET [tx : Nat, published : BOOLEAN]]
<1> DEFINE base == IF root = NoRoot THEN EmptyState ELSE VerifiedRoot.state
<1>1. highWater \in Nat
  BY DEF TypeOK, Recover, CanRecover
<1>2. root # NoRoot => VerifiedRoot \in Roots
  BY VerifiedRootType DEF TypeOK, Recover, CanRecover
<1>3. base \in States
  BY <1>2, EmptyStateType DEF Roots
<1> HIDE DEF base
<1>4. state' = Loaded(base)
  BY DEF Recover, base
<1>5. state' \in States /\ state'.authority >= highWater
  BY <1>1, <1>3, <1>4, LoadedType
<1>6. memRoot' \in Roots \cup {NoRoot}
  BY <1>2 DEF Recover
<1>7. prepared \subseteq Nat
  BY DEF TypeOK
<1>8. pending'.wal \subseteq [tx : Nat, published : BOOLEAN]
  <2> DEFINE walOf(r) == {[tx |-> t, published |-> r.tx = t] : t \in prepared}
  <2>1. pending'.wal = IF root = NoRoot THEN {} ELSE walOf(VerifiedRoot)
    BY DEF Recover
  <2>2. ASSUME NEW t \in prepared
        PROVE  [tx |-> t, published |-> VerifiedRoot.tx = t] \in [tx : Nat, published : BOOLEAN]
    <3>1. t \in Nat
      BY <1>7
    <3>2. (VerifiedRoot.tx = t) \in BOOLEAN
      OBVIOUS
    <3>3. QED BY <3>1, <3>2, Zenon
  <2>3. walOf(VerifiedRoot) \subseteq [tx : Nat, published : BOOLEAN]
    <3> SUFFICES ASSUME NEW w \in walOf(VerifiedRoot)
                 PROVE  w \in [tx : Nat, published : BOOLEAN]
      OBVIOUS
    <3>1. PICK t \in prepared : w = [tx |-> t, published |-> VerifiedRoot.tx = t]
      OBVIOUS
    <3>2. QED BY <3>1, <2>2, Zenon
  <2> HIDE DEF walOf
  <2>4. QED BY <2>1, <2>3
<1>9. pending' \in [migration : BOOLEAN, recovery : BOOLEAN, highWater : BOOLEAN,
                    wal : SUBSET [tx : Nat, published : BOOLEAN]]
  BY <1>8 DEF Recover
<1>10. QED BY <1>1, <1>5, <1>6, <1>9

\* A directory is fresh at first or holds the root of the old schema.
LEMMA InitRoot ==
    ASSUME Init
    PROVE  \/ root = NoRoot /\ intact = {} /\ prepared = {}
           \/ /\ root = [tx |-> 0, state |-> LegacyState, chain |-> <<>>]
              /\ intact = {LegacyState} /\ prepared = {0}
  BY DEF Init

LEMMA InitType == Init => TypeOK
<1> SUFFICES ASSUME Init PROVE TypeOK
  OBVIOUS
<1>1. root \in Roots \cup {NoRoot}
  <2>1. CASE root = NoRoot
    BY <2>1
  <2>2. CASE root = [tx |-> 0, state |-> LegacyState, chain |-> <<>>]
    <3>1. <<>> \in Seq(Entries)
      BY EmptySeq
    <3>2. QED BY <2>2, <3>1, LegacyStateType DEF Roots
  <2>3. QED BY <2>1, <2>2, InitRoot
<1>2. intact \subseteq States /\ prepared \subseteq Nat
  BY InitRoot, LegacyStateType
<1>3. QED
  BY <1>1, <1>2, EmptyStateType, ConstantsOK
     DEF Init, TypeOK, NothingPending, PublishSteps, Caller

LEMMA StepType ==
    ASSUME TypeOK, [Next]_vars
    PROVE  TypeOK'
<1>1. CASE Start
  BY <1>1, EmptyStateType
     DEF TypeOK, PublishSteps, Caller, NothingPending, Start, ClearObject, disk,
         object, call, history
<1>2. CASE StartFails
  BY <1>2
     DEF TypeOK, PublishSteps, Caller, StartFails, disk, object, call, history
<1>3. CASE StartRecovered
  BY <1>3, RecoverType
     DEF TypeOK, PublishSteps, Caller, StartRecovered, disk, object, call, history
<1>4. CASE TakeOver
  BY <1>4
     DEF TypeOK, PublishSteps, Caller, States, TakeOver, disk, object, call, history
<1>5. CASE WriterReady
  BY <1>5
     DEF TypeOK, PublishSteps, Caller, WriterReady, disk, object, call, history
<1>6. CASE FinalizeHighWater
  BY <1>6
     DEF TypeOK, PublishSteps, Caller, FinalizeHighWater, disk, object, call,
         history
<1>7. CASE FinalizeFillHighWater
  BY <1>7
     DEF TypeOK, PublishSteps, Caller, States, FinalizeFillHighWater, disk, object,
         call, history
<1>8. CASE FinalizeWal
  BY <1>8
     DEF TypeOK, PublishSteps, Caller, FinalizeWal, disk, object, call, history
<1>9. CASE StartReload
  BY <1>9, EmptyStateType
     DEF TypeOK, PublishSteps, Caller, NothingPending, StartReload, ClearObject,
         disk, object, call, history
<1>10. CASE ReloadRecovered
  BY <1>10, RecoverType
     DEF TypeOK, PublishSteps, Caller, ReloadRecovered, disk, object, call, history
<1>11. CASE ReloadFails
  BY <1>11
     DEF TypeOK, PublishSteps, Caller, CanRecover, HasVerifiedRoot, ReloadFails,
         disk, object, call, history
<1>12. CASE \E c \in Caller, m \in Mutation : Mutate(c, m)
  <2>1. PICK c \in Caller, m \in Mutation : Mutate(c, m)
    BY <1>12
  <2>2. state \in States /\ fence \in Nat
    BY DEF TypeOK
  <2>3. [state EXCEPT !.generation = @ + 1, !.fence = fence,
                      !.content = @ \cup {m}] \in States
    BY <2>2, SuccessorType
  <2>4. next' \in States
    BY <2>1, <2>3 DEF Mutate, BeginPublish
  <2>5. QED
    BY <2>1, <2>4 DEF TypeOK, Mutate, BeginPublish, PublishSteps, Caller,
                      disk, object, history
<1>13. CASE \E c \in Caller : AdvanceMatrixAuthorityEpoch(c)
  <2>1. PICK c \in Caller : AdvanceMatrixAuthorityEpoch(c)
    BY <1>13
  <2>2. state \in States /\ fence \in Nat
    BY DEF TypeOK
  <2>3. [state EXCEPT !.generation = @ + 1, !.fence = fence,
                      !.authority = @ + 1] \in States
    BY <2>2, SuccessorType
  <2>4. next' \in States
    BY <2>1, <2>3 DEF AdvanceMatrixAuthorityEpoch, BeginPublish
  <2>5. QED
    BY <2>1, <2>4 DEF TypeOK, AdvanceMatrixAuthorityEpoch, BeginPublish,
                      PublishSteps, Caller, disk, object, history
<1>14. CASE RejectRequest
  BY <1>14
     DEF TypeOK, PublishSteps, Caller, RejectRequest, disk, object, call, history
<1>15. CASE PersistHighWater
  BY <1>15
     DEF TypeOK, PublishSteps, Caller, PersistHighWater, disk, object, call, history
<1>16. CASE HighWaterRefused
  <2>1. next' \in States /\ tx' \in Nat /\ purpose' = "recover" /\ op' = {}
        /\ fence' = fence
    BY <1>16, EmptyStateType DEF HighWaterRefused, Abort, CallEnds
  <2>2. /\ state' \in States /\ memRoot' \in Roots \cup {NoRoot}
        /\ pending' \in [migration : BOOLEAN, recovery : BOOLEAN, highWater : BOOLEAN,
                         wal : SUBSET [tx : Nat, published : BOOLEAN]]
        /\ reloadDue' \in BOOLEAN /\ pc' \in {"down", "ready"}
    <3>1. CASE purpose = "recover"
      <4>1. /\ state' = EmptyState /\ memRoot' = NoRoot /\ pending' = NothingPending
            /\ reloadDue' = reloadDue /\ pc' = "down"
        BY <1>16, <3>1 DEF HighWaterRefused, Abort, ClearObject
      <4>2. NothingPending \in [migration : BOOLEAN, recovery : BOOLEAN,
                               highWater : BOOLEAN,
                               wal : SUBSET [tx : Nat, published : BOOLEAN]]
        BY DEF NothingPending
      <4>3. QED BY <4>1, <4>2, EmptyStateType DEF TypeOK
    <3>2. CASE purpose # "recover"
      BY <1>16, <3>2 DEF HighWaterRefused, Abort, TypeOK, object
    <3>3. QED BY <3>1, <3>2
  <2>3. /\ txs' \in Nat /\ faults' \in Nat /\ published' \subseteq Nat
        /\ acked' \subseteq Mutation /\ abandoned' \subseteq Nat
    BY <1>16 DEF HighWaterRefused, TypeOK, history
  <2>4. QED BY <1>16, <2>1, <2>2, <2>3 DEF TypeOK, HighWaterRefused, disk
<1>17. CASE FillHighWater
  BY <1>17
     DEF TypeOK, PublishSteps, Caller, States, FillHighWater, disk, object, call,
         history
<1>18. CASE WriteIndex
  BY <1>18
     DEF TypeOK, PublishSteps, Caller, WriteIndex, disk, object, call, history
<1>19. CASE FillIndex
  BY <1>19
     DEF TypeOK, PublishSteps, Caller, FillIndex, disk, object, call, history
<1>20. CASE Prepare
  BY <1>20
     DEF TypeOK, PublishSteps, Caller, Prepare, disk, object, call, history
<1>21. CASE ReplaceRoot
  BY <1>21, NoRootIsNoRoot, ChainType
     DEF TypeOK, PublishSteps, Caller, ReplaceRoot, Roots, Entries, disk, object,
         call, history
<1>22. CASE Install
  BY <1>22
     DEF TypeOK, PublishSteps, Caller, NothingPending, Install, disk, object, call,
         history
<1>23. CASE Complete
  BY <1>23, EmptyStateType
     DEF TypeOK, PublishSteps, Caller, Complete, CallEnds, disk, object, call,
         history
<1>24. CASE PublishFault
  <2>1. next' \in States /\ tx' \in Nat /\ purpose' = "recover" /\ op' = {}
        /\ fence' = fence
    BY <1>24, EmptyStateType DEF PublishFault, Abort, CallEnds
  <2>2. /\ state' \in States /\ memRoot' \in Roots \cup {NoRoot}
        /\ pending' \in [migration : BOOLEAN, recovery : BOOLEAN, highWater : BOOLEAN,
                         wal : SUBSET [tx : Nat, published : BOOLEAN]]
        /\ reloadDue' \in BOOLEAN /\ pc' \in {"down", "ready"}
    <3>1. CASE purpose = "recover"
      <4>1. /\ state' = EmptyState /\ memRoot' = NoRoot /\ pending' = NothingPending
            /\ reloadDue' = reloadDue /\ pc' = "down"
        BY <1>24, <3>1 DEF PublishFault, Abort, ClearObject
      <4>2. NothingPending \in [migration : BOOLEAN, recovery : BOOLEAN,
                               highWater : BOOLEAN,
                               wal : SUBSET [tx : Nat, published : BOOLEAN]]
        BY DEF NothingPending
      <4>3. QED BY <4>1, <4>2, EmptyStateType DEF TypeOK
    <3>2. CASE purpose # "recover"
      BY <1>24, <3>2 DEF PublishFault, Abort, TypeOK, object
    <3>3. QED BY <3>1, <3>2
  <2>3. /\ txs' \in Nat /\ faults' \in Nat /\ published' \subseteq Nat
        /\ acked' \subseteq Mutation /\ abandoned' \subseteq Nat
    BY <1>24 DEF PublishFault, TypeOK
  <2>4. QED BY <1>24, <2>1, <2>2, <2>3 DEF TypeOK, PublishFault, disk
<1>25. CASE Crash
  BY <1>25, EmptyStateType
     DEF TypeOK, PublishSteps, Caller, NothingPending, Crash, ClearObject, CallEnds,
         disk, object, call, history
<1>26. CASE UNCHANGED vars
  BY <1>26 DEF TypeOK, PublishSteps, Caller, vars, disk, object, call, history
<1>27. QED
  BY <1>1, <1>2, <1>3, <1>4, <1>5, <1>6, <1>7, <1>8, <1>9, <1>10, <1>11, <1>12,
     <1>13, <1>14, <1>15, <1>16, <1>17, <1>18, <1>19, <1>20, <1>21, <1>22, <1>23,
     <1>24, <1>25, <1>26
     DEF Next, Recovery, Publication

\* The type invariant, whatever fails and wherever the process crashes.
THEOREM TypeCorrect == Spec => []TypeOK
<1>1. TypeOK /\ [Next]_vars => TypeOK'
  BY StepType
<1>2. QED BY InitType, <1>1, PTL DEF Spec

-----------------------------------------------------------------------------
(* The epochs of the root *)

RootAuthority == IF root = NoRoot THEN 1 ELSE root.state.authority

\* The least authority epoch that an intact high-water file lets anyone publish.
EpochFloor == IF highWater = 0 THEN 1 ELSE highWater

\* The authority epoch of the root is covered by the high-water file, and while
\* that file is rewritten by the call that rewrites it; the root was published
\* under no later fencing epoch than the current one.
EpochInv ==
    /\ root # NoRoot => root.state.fence <= fence
    /\ pc \in PublishSteps => next.fence = fence
    /\ highWater # Truncated => RootAuthority <= EpochFloor
    /\ pc = "fillHighWater" => RootAuthority <= next.authority
    /\ pc \in {"index", "fillIndex", "prepare", "root"} => highWater = next.authority
    /\ pc \in {"takeover", "finalize", "finalizeFill"} /\ pending.highWater =>
          RootAuthority <= state.authority
    /\ pc = "finalizeFill" => pending.highWater
    /\ pc = "complete" => ~pending.highWater

\* recover() never loads less authority than the root has.
LEMMA RecoverRaises ==
    ASSUME TypeOK, EpochInv, Recover
    PROVE  /\ highWater \in Nat /\ state' \in States
           /\ RootAuthority <= state'.authority
<1>1. RootAuthority <= EpochFloor /\ EpochFloor \in Nat
  BY RecoverType, ConstantsOK DEF EpochInv, EpochFloor
<1>2. EpochFloor <= state'.authority
  BY RecoverType DEF EpochFloor, States
<1>3. RootAuthority \in Nat /\ state'.authority \in Nat
  BY RecoverType DEF TypeOK, RootAuthority, Roots, States
<1>4. QED BY <1>1, <1>2, <1>3, RecoverType

LEMMA InitEpoch == Init => EpochInv
<1> SUFFICES ASSUME Init PROVE EpochInv
  OBVIOUS
<1>1. LegacyState.authority = 1 /\ LegacyState.fence = 0
  BY DEF LegacyState, EmptyState
<1>2. root # NoRoot => root.state = LegacyState
  <2>1. CASE root = [tx |-> 0, state |-> LegacyState, chain |-> <<>>]
    BY <2>1
  <2>2. QED BY <2>1, InitRoot
<1>3. RootAuthority <= 1 /\ (root # NoRoot => root.state.fence = 0)
  BY <1>1, <1>2 DEF RootAuthority
<1>4. highWater = 0 /\ fence = 0 /\ pc = "down" /\ highWater # Truncated
  BY ConstantsOK DEF Init
<1>5. QED
  BY <1>3, <1>4 DEF EpochInv, EpochFloor, PublishSteps

LEMMA StepEpoch ==
    ASSUME TypeOK, TypeOK', EpochInv, [Next]_vars
    PROVE  EpochInv'
<1>1. CASE Start
  BY <1>1
     DEF EpochInv, RootAuthority, EpochFloor, TypeOK, States, PublishSteps, Caller,
         Roots, NothingPending, Start, ClearObject, disk, object, call, history
<1>2. CASE StartFails
  BY <1>2
     DEF EpochInv, RootAuthority, EpochFloor, TypeOK, States, PublishSteps, Caller,
         StartFails, disk, object, call, history
<1>3. CASE StartRecovered
  BY <1>3, RecoverRaises
     DEF EpochInv, RootAuthority, EpochFloor, TypeOK, States, PublishSteps, Caller,
         StartRecovered, disk, object, call, history
<1>4. CASE TakeOver
  BY <1>4
     DEF EpochInv, RootAuthority, EpochFloor, TypeOK, States, PublishSteps, Caller,
         TakeOver, disk, object, call, history
<1>5. CASE WriterReady
  BY <1>5
     DEF EpochInv, RootAuthority, EpochFloor, TypeOK, States, PublishSteps, Caller,
         WriterReady, disk, object, call, history
<1>6. CASE FinalizeHighWater
  BY <1>6
     DEF EpochInv, RootAuthority, EpochFloor, TypeOK, States, PublishSteps, Caller,
         FinalizeHighWater, disk, object, call, history
<1>7. CASE FinalizeFillHighWater
  BY <1>7, ConstantsOK
     DEF EpochInv, RootAuthority, EpochFloor, TypeOK, States, PublishSteps, Caller,
         FinalizeFillHighWater, disk, object, call, history
<1>8. CASE FinalizeWal
  BY <1>8
     DEF EpochInv, RootAuthority, EpochFloor, TypeOK, States, PublishSteps, Caller,
         FinalizeWal, disk, object, call, history
<1>9. CASE StartReload
  BY <1>9
     DEF EpochInv, RootAuthority, EpochFloor, TypeOK, States, PublishSteps, Caller,
         NothingPending, StartReload, ClearObject, disk, object, call, history
<1>10. CASE ReloadRecovered
  BY <1>10, RecoverRaises
     DEF EpochInv, RootAuthority, EpochFloor, TypeOK, States, PublishSteps, Caller,
         ReloadRecovered, disk, object, call, history
<1>11. CASE ReloadFails
  BY <1>11
     DEF EpochInv, RootAuthority, EpochFloor, TypeOK, States, PublishSteps, Caller,
         ReloadFails, disk, object, call, history
<1>12. CASE \E c \in Caller, m \in Mutation : Mutate(c, m)
  BY <1>12
     DEF EpochInv, RootAuthority, EpochFloor, TypeOK, States, PublishSteps, Caller,
         Mutate, BeginPublish, disk, object, call, history
<1>13. CASE \E c \in Caller : AdvanceMatrixAuthorityEpoch(c)
  BY <1>13
     DEF EpochInv, RootAuthority, EpochFloor, TypeOK, States, PublishSteps, Caller,
         AdvanceMatrixAuthorityEpoch, BeginPublish, disk, object, call, history
<1>14. CASE RejectRequest
  BY <1>14
     DEF EpochInv, RootAuthority, EpochFloor, TypeOK, States, PublishSteps, Caller,
         RejectRequest, disk, object, call, history
<1>15. CASE PersistHighWater
  BY <1>15
     DEF EpochInv, RootAuthority, EpochFloor, TypeOK, States, PublishSteps, Caller,
         Roots, PersistHighWater, disk, object, call, history
<1>16. CASE HighWaterRefused
  BY <1>16
     DEF EpochInv, RootAuthority, EpochFloor, TypeOK, States, PublishSteps, Caller,
         HighWaterRefused, Abort, ClearObject, CallEnds, disk, object, call, history
<1>17. CASE FillHighWater
  BY <1>17, ConstantsOK
     DEF EpochInv, RootAuthority, EpochFloor, TypeOK, States, PublishSteps, Caller,
         FillHighWater, disk, object, call, history
<1>18. CASE WriteIndex
  BY <1>18
     DEF EpochInv, RootAuthority, EpochFloor, TypeOK, States, PublishSteps, Caller,
         WriteIndex, disk, object, call, history
<1>19. CASE FillIndex
  BY <1>19
     DEF EpochInv, RootAuthority, EpochFloor, TypeOK, States, PublishSteps, Caller,
         FillIndex, disk, object, call, history
<1>20. CASE Prepare
  BY <1>20
     DEF EpochInv, RootAuthority, EpochFloor, TypeOK, States, PublishSteps, Caller,
         Prepare, disk, object, call, history
<1>21. CASE ReplaceRoot
  BY <1>21, ConstantsOK, NoRootIsNoRoot
     DEF EpochInv, RootAuthority, EpochFloor, TypeOK, States, PublishSteps, Caller,
         ReplaceRoot, disk, object, call, history
<1>22. CASE Install
  BY <1>22
     DEF EpochInv, RootAuthority, EpochFloor, TypeOK, States, PublishSteps, Caller,
         NothingPending, Install, disk, object, call, history
<1>23. CASE Complete
  BY <1>23
     DEF EpochInv, RootAuthority, EpochFloor, TypeOK, States, PublishSteps, Caller,
         Complete, CallEnds, disk, object, call, history
<1>24. CASE PublishFault
  BY <1>24
     DEF EpochInv, RootAuthority, EpochFloor, TypeOK, States, PublishSteps, Caller,
         PublishFault, Abort, ClearObject, CallEnds, disk, object, call, history
<1>25. CASE Crash
  BY <1>25
     DEF EpochInv, RootAuthority, EpochFloor, TypeOK, States, PublishSteps, Caller,
         Crash, ClearObject, CallEnds, disk, object, call, history
<1>26. CASE UNCHANGED vars
  BY <1>26 DEF EpochInv, RootAuthority, EpochFloor, vars, disk, object, call, history
<1>27. QED
  BY <1>1, <1>2, <1>3, <1>4, <1>5, <1>6, <1>7, <1>8, <1>9, <1>10, <1>11, <1>12,
     <1>13, <1>14, <1>15, <1>16, <1>17, <1>18, <1>19, <1>20, <1>21, <1>22, <1>23,
     <1>24, <1>25, <1>26
     DEF Next, Recovery, Publication

\* Neither epoch of the root goes back, even when reload() has failed and the
\* object in memory is empty: persistMatrixAuthorityHighWater() refuses it.
THEOREM EpochsAreKept == Spec => EpochsNeverGoBack
<1>1. TypeOK /\ TypeOK' /\ EpochInv /\ [Next]_vars => EpochInv'
  BY StepEpoch
<1>2. TypeOK /\ EpochInv /\ [Next]_vars => [root # NoRoot /\ root' # root => EpochsAdvance]_vars
  <2> SUFFICES ASSUME TypeOK, EpochInv, Next, root # NoRoot, root' # root
               PROVE  EpochsAdvance
    OBVIOUS
  <2>1. ReplaceRoot
    BY DEF Next, Recovery, Publication, Start, StartFails, StartRecovered, TakeOver, WriterReady,
           FinalizeHighWater, FinalizeFillHighWater, FinalizeWal, StartReload, ReloadRecovered,
           ReloadFails,
           Mutate, BeginPublish, AdvanceMatrixAuthorityEpoch, RejectRequest, PersistHighWater,
           HighWaterRefused, FillHighWater, WriteIndex, FillIndex, Prepare, Install, Complete,
           PublishFault, Crash, Abort, disk
  <2>2. root'.state = next
    BY <2>1 DEF ReplaceRoot
  <2>3. root.state.fence <= next.fence
    BY <2>1 DEF EpochInv, ReplaceRoot, PublishSteps
  <2>4. root.state.authority <= next.authority
    BY <2>1, ConstantsOK DEF EpochInv, RootAuthority, EpochFloor, ReplaceRoot, TypeOK, States
  <2>5. QED
    BY <2>2, <2>3, <2>4 DEF EpochsAdvance, TypeOK, Roots, States
<1>3. QED BY InitEpoch, <1>1, <1>2, TypeCorrect, PTL DEF Spec, EpochsNeverGoBack

-----------------------------------------------------------------------------
(* Durability: the inductive invariant *)

\* The faults the theorems below allow.  A failed reload is excluded, the run
\* store_reload_wipe shows what it does, and so is a failed write of an index file,
\* which a second publication of the same state takes for a complete one.
BenignFaults ==
    FaultPoints \subseteq {"fillHighWater", "prepare", "root", "install", "complete"}

\* Index files left incomplete by a crash belong to an earlier fencing epoch, so
\* no state of the current owner is ever mistaken for one of them.
TornInv == \A s \in torn :
    /\ s.fence <= fence
    /\ pc # "down" => s.fence < fence \/ (pc = "fillIndex" /\ s = next)

\* The steps of publish() up to the replacement of the root.
Preparing == {"highWater", "fillHighWater", "index", "fillIndex", "prepare", "root"}

Content == IF root = NoRoot THEN {} ELSE root.state.content

Generation == IF root = NoRoot THEN 0 ELSE root.state.generation

\* The generations between the state in memory and the one about to be published.
Advance == IF purpose = "recover" THEN 0 ELSE 1

\* The state about to be published carries the epoch of its owner, succeeds the
\* state in memory, and is complete on disk before its transaction is prepared.
NextInv ==
    /\ pc \in PublishSteps =>
          /\ next.fence = fence
          /\ op \subseteq next.content
          /\ purpose = "recover" => op = {}
    /\ pc \in {"prepare", "root"} => next \in intact
    /\ pc \in Preparing \cup {"install"} =>
          /\ next.content = state.content \cup op
          /\ next.generation = state.generation + Advance
    /\ pc \in {"install", "complete"} => root # NoRoot /\ root.state = next

\* A request that failed has called reload(), which only exports overtake.
ReloadInv ==
    reloadDue => \/ pc = "ready"
                 \/ pc \in PublishSteps /\ purpose = "export"

\* Transactions are numbered as they begin, and become the root once.
TxInv ==
    /\ \A t \in published : t <= txs
    /\ pc = "root" => tx = txs /\ tx \notin published
    /\ root # NoRoot => root.tx \in published
    /\ memRoot # NoRoot => memRoot.tx \in published

\* The steps during which the object is a copy of a root.
Attached == {"takeover", "finalize", "finalizeFill", "ready", "complete"} \cup Preparing

\* The object holds the durable root.
Agrees ==
    /\ memRoot = root
    /\ state.content = Content /\ state.generation = Generation

\* The durable root was built on the one in memory, and holds in addition only what
\* the call changed that published it.
OneBehind ==
    /\ root # NoRoot /\ memRoot # root /\ root.chain = ChainAfter(memRoot)
    /\ state.content \subseteq Content /\ acked \subseteq state.content
    /\ Generation = state.generation + 1

\* The object agrees with the files, or is one publication behind: between the
\* rename and the directory sync, and after a call that failed between them, until
\* the reload that follows a request, or for good after an export.
MemoryInv ==
    /\ pc \in Attached /\ ~OutOfService =>
          \/ Agrees
          \/ /\ OneBehind
             /\ root.tx \in abandoned \/ reloadDue
             /\ pc = "ready" \/ (pc \in Preparing /\ purpose \in Caller)
    /\ pc = "install" /\ purpose \in Caller => OneBehind
    /\ pc = "install" => root.tx = tx /\ root.chain = ChainAfter(memRoot)

\* Otherwise the high-water file is empty only while it is being written, or after
\* a crash until a start-up fails on it.
HighWaterInv ==
    pc \notin {"down", "start", "fillHighWater", "finalizeFill", "reload", "ready", "highWater"} =>
        highWater # Truncated

DurableInv ==
    /\ TornInv /\ NextInv /\ ReloadInv /\ TxInv /\ MemoryInv /\ HighWaterInv
    /\ PublishedRootIsVerified
    /\ acked \subseteq Content

IInv == TypeOK /\ DurableInv

LEMMA DurableIsRoot ==
    ASSUME PublishedRootIsVerified
    PROVE  DurableState.content = Content
  BY DEF PublishedRootIsVerified, DurableState, HasVerifiedRoot, VerifiedRoot,
         Content, EmptyState

\* recover() on a verified root: the object takes over the root, its content and
\* its generation.
LEMMA RecoverTakesOver ==
    ASSUME IInv, Recover
    PROVE  /\ highWater \in Nat
           /\ memRoot' = root /\ state'.content = Content
           /\ state'.generation = Generation
<1> DEFINE base == IF root = NoRoot THEN EmptyState ELSE VerifiedRoot.state
<1>1. highWater \in Nat
  BY DEF IInv, TypeOK, Recover, CanRecover
<1>2. root # NoRoot => VerifiedRoot = root /\ root \in Roots
  BY DEF IInv, DurableInv, PublishedRootIsVerified, VerifiedRoot, TypeOK
<1>3. base \in States /\ base.content = Content /\ base.generation = Generation
  BY <1>2, EmptyStateType DEF Content, Generation, EmptyState, Roots
<1> HIDE DEF base
<1>4. state' = Loaded(base)
  BY DEF Recover, base
<1>5. state'.content = Content /\ state'.generation = Generation
  BY <1>1, <1>3, <1>4, LoadedType
<1>6. memRoot' = root
  BY <1>2 DEF Recover
<1>7. QED BY <1>1, <1>5, <1>6

LEMMA InitDurable == Init => DurableInv
<1> SUFFICES ASSUME Init PROVE DurableInv
  OBVIOUS
<1>1. /\ torn = {} /\ pc = "down" /\ acked = {} /\ reloadDue = FALSE /\ memRoot = NoRoot
      /\ published = prepared /\ txs = 0
  BY DEF Init
<1>2. /\ root # NoRoot => root.tx \in published
      /\ \A t \in published : t <= txs
      /\ PublishedRootIsVerified
  <2>1. CASE root = NoRoot /\ prepared = {}
    BY <1>1, <2>1 DEF PublishedRootIsVerified
  <2>2. CASE /\ root = [tx |-> 0, state |-> LegacyState, chain |-> <<>>]
             /\ intact = {LegacyState} /\ prepared = {0}
    BY <1>1, <2>2 DEF PublishedRootIsVerified
  <2>3. QED BY <2>1, <2>2, InitRoot
<1>3. QED
  BY <1>1, <1>2
     DEF DurableInv, TornInv, NextInv, ReloadInv, TxInv, MemoryInv, HighWaterInv,
         PublishSteps, Preparing, Attached

\* Every step of the store, its benign faults and its crashes preserves the
\* invariant.
LEMMA StepDurable ==
    ASSUME IInv, TypeOK', [Next]_vars, BenignFaults
    PROVE  DurableInv'
<1>1. CASE Start
  BY <1>1
     DEF IInv, DurableInv, TypeOK, States, TornInv, NextInv, Advance, ReloadInv,
         TxInv, PublishSteps, Caller, Preparing, MemoryInv, Agrees, OneBehind,
         OutOfService, Content, Generation, Attached, HighWaterInv,
         PublishedRootIsVerified, Start, ClearObject, disk, object, call, history
<1>2. CASE StartFails
  BY <1>2
     DEF IInv, DurableInv, TypeOK, States, TornInv, NextInv, Advance, ReloadInv,
         TxInv, PublishSteps, Caller, Preparing, MemoryInv, Agrees, OneBehind,
         OutOfService, Content, Generation, Attached, HighWaterInv,
         PublishedRootIsVerified, StartFails, disk, object, call, history
<1>3. CASE StartRecovered
  BY <1>3, RecoverTakesOver, ConstantsOK
     DEF IInv, DurableInv, TypeOK, States, TornInv, NextInv, Advance, ReloadInv,
         TxInv, PublishSteps, Caller, Preparing, MemoryInv, Agrees, OneBehind,
         OutOfService, Content, Generation, Attached, HighWaterInv,
         PublishedRootIsVerified, StartRecovered, disk, object, call, history
<1>4. CASE TakeOver
  BY <1>4
     DEF IInv, DurableInv, TypeOK, States, TornInv, NextInv, Advance, ReloadInv,
         TxInv, PublishSteps, Caller, Preparing, MemoryInv, Agrees, OneBehind,
         OutOfService, Content, Generation, Attached, HighWaterInv,
         PublishedRootIsVerified, TakeOver, disk, object, call, history
<1>5. CASE WriterReady
  BY <1>5
     DEF IInv, DurableInv, TypeOK, States, TornInv, NextInv, Advance, ReloadInv,
         TxInv, PublishSteps, Caller, Preparing, MemoryInv, Agrees, OneBehind,
         OutOfService, Content, Generation, Attached, HighWaterInv,
         PublishedRootIsVerified, WriterReady, disk, object, call, history
<1>6. CASE FinalizeHighWater
  BY <1>6
     DEF IInv, DurableInv, TypeOK, States, TornInv, NextInv, Advance, ReloadInv,
         TxInv, PublishSteps, Caller, Preparing, MemoryInv, Agrees, OneBehind,
         OutOfService, Content, Generation, Attached, HighWaterInv,
         PublishedRootIsVerified, FinalizeHighWater, disk, object, call, history
<1>7. CASE FinalizeFillHighWater
  BY <1>7, ConstantsOK
     DEF IInv, DurableInv, TypeOK, States, TornInv, NextInv, Advance, ReloadInv,
         TxInv, PublishSteps, Caller, Preparing, MemoryInv, Agrees, OneBehind,
         OutOfService, Content, Generation, Attached, HighWaterInv,
         PublishedRootIsVerified, FinalizeFillHighWater, disk, object, call, history
<1>8. CASE FinalizeWal
  BY <1>8
     DEF IInv, DurableInv, TypeOK, States, TornInv, NextInv, Advance, ReloadInv,
         TxInv, PublishSteps, Caller, Preparing, MemoryInv, Agrees, OneBehind,
         OutOfService, Content, Generation, Attached, HighWaterInv,
         PublishedRootIsVerified, FinalizeWal, disk, object, call, history
<1>9. CASE StartReload
  BY <1>9
     DEF IInv, DurableInv, TypeOK, States, TornInv, NextInv, Advance, ReloadInv,
         TxInv, PublishSteps, Caller, Preparing, MemoryInv, Agrees, OneBehind,
         OutOfService, Content, Generation, Attached, HighWaterInv,
         PublishedRootIsVerified, StartReload, ClearObject, disk, object, call,
         history
<1>10. CASE ReloadRecovered
  BY <1>10, RecoverTakesOver, ConstantsOK
     DEF IInv, DurableInv, TypeOK, States, TornInv, NextInv, Advance, ReloadInv,
         TxInv, PublishSteps, Caller, Preparing, MemoryInv, Agrees, OneBehind,
         OutOfService, Content, Generation, Attached, HighWaterInv,
         PublishedRootIsVerified, ReloadRecovered, disk, object, call, history
<1>11. CASE ReloadFails
  BY <1>11, BenignFaults
     DEF IInv, DurableInv, TypeOK, States, TornInv, NextInv, Advance, ReloadInv,
         TxInv, PublishSteps, Caller, Preparing, MemoryInv, Agrees, OneBehind,
         OutOfService, Content, Generation, Attached, HighWaterInv,
         PublishedRootIsVerified, BenignFaults, CanRecover, HasVerifiedRoot,
         ReloadFails, disk, object, call, history
<1>12. CASE \E c \in Caller, m \in Mutation : Mutate(c, m)
  BY <1>12
     DEF IInv, DurableInv, TypeOK, States, TornInv, NextInv, Advance, ReloadInv,
         TxInv, PublishSteps, Caller, Preparing, MemoryInv, Agrees, OneBehind,
         OutOfService, Content, Generation, Attached, HighWaterInv,
         PublishedRootIsVerified, Mutate, BeginPublish, disk, object, call, history
<1>13. CASE \E c \in Caller : AdvanceMatrixAuthorityEpoch(c)
  BY <1>13
     DEF IInv, DurableInv, TypeOK, States, TornInv, NextInv, Advance, ReloadInv,
         TxInv, PublishSteps, Caller, Preparing, MemoryInv, Agrees, OneBehind,
         OutOfService, Content, Generation, Attached, HighWaterInv,
         PublishedRootIsVerified, AdvanceMatrixAuthorityEpoch, BeginPublish, disk,
         object, call, history
<1>14. CASE RejectRequest
  BY <1>14
     DEF IInv, DurableInv, TypeOK, States, TornInv, NextInv, Advance, ReloadInv,
         TxInv, PublishSteps, Caller, Preparing, MemoryInv, Agrees, OneBehind,
         OutOfService, Content, Generation, Attached, HighWaterInv,
         PublishedRootIsVerified, RejectRequest, disk, object, call, history
<1>15. CASE PersistHighWater
  BY <1>15
     DEF IInv, DurableInv, TypeOK, States, TornInv, NextInv, Advance, ReloadInv,
         TxInv, PublishSteps, Caller, Preparing, MemoryInv, Agrees, OneBehind,
         OutOfService, Content, Generation, Attached, HighWaterInv,
         PublishedRootIsVerified, PersistHighWater, disk, object, call, history
<1>16. CASE HighWaterRefused
  BY <1>16
     DEF IInv, DurableInv, TypeOK, States, TornInv, NextInv, Advance, ReloadInv,
         TxInv, PublishSteps, Caller, Preparing, MemoryInv, Agrees, OneBehind,
         OutOfService, Content, Generation, Attached, HighWaterInv,
         PublishedRootIsVerified, HighWaterRefused, Abort, ClearObject, CallEnds,
         disk, object, call, history
<1>17. CASE FillHighWater
  BY <1>17, ConstantsOK
     DEF IInv, DurableInv, TypeOK, States, TornInv, NextInv, Advance, ReloadInv,
         TxInv, PublishSteps, Caller, Preparing, MemoryInv, Agrees, OneBehind,
         OutOfService, Content, Generation, Attached, HighWaterInv,
         PublishedRootIsVerified, FillHighWater, disk, object, call, history
<1>18. CASE WriteIndex
  BY <1>18
     DEF IInv, DurableInv, TypeOK, States, TornInv, NextInv, Advance, ReloadInv,
         TxInv, PublishSteps, Caller, Preparing, MemoryInv, Agrees, OneBehind,
         OutOfService, Content, Generation, Attached, HighWaterInv,
         PublishedRootIsVerified, WriteIndex, disk, object, call, history
<1>19. CASE FillIndex
  BY <1>19
     DEF IInv, DurableInv, TypeOK, States, TornInv, NextInv, Advance, ReloadInv,
         TxInv, PublishSteps, Caller, Preparing, MemoryInv, Agrees, OneBehind,
         OutOfService, Content, Generation, Attached, HighWaterInv,
         PublishedRootIsVerified, FillIndex, disk, object, call, history
<1>20. CASE Prepare
  BY <1>20
     DEF IInv, DurableInv, TypeOK, States, TornInv, NextInv, Advance, ReloadInv,
         TxInv, PublishSteps, Caller, Preparing, MemoryInv, Agrees, OneBehind,
         OutOfService, Content, Generation, Attached, HighWaterInv,
         PublishedRootIsVerified, Prepare, disk, object, call, history
<1>21. CASE ReplaceRoot
  <2>1. root' = [tx |-> tx, state |-> next, chain |-> ChainAfter(memRoot)]
        /\ memRoot' = memRoot /\ state' = state /\ next' = next /\ pc' = "install"
        /\ acked' = acked
    BY <1>21 DEF ReplaceRoot, object, history
  <2>2. root' # NoRoot
    <3>1. root' \in Roots
      BY <2>1, ChainType DEF IInv, TypeOK, Roots
    <3>2. QED BY <3>1, NoRootIsNoRoot
  <2>3. /\ root'.state = next /\ root'.tx = tx /\ root'.chain = ChainAfter(memRoot)
        /\ next \in intact /\ next.content = state.content \cup op
        /\ next.generation = state.generation + Advance /\ op \subseteq next.content
    BY <1>21, <2>1 DEF ReplaceRoot, IInv, DurableInv, NextInv, Preparing
  <2>4. Content' = next.content /\ Generation' = next.generation
    BY <2>1, <2>2, <2>3 DEF Content, Generation
  <2>5. acked \subseteq state.content
    BY <1>21
       DEF ReplaceRoot, IInv, DurableInv, MemoryInv, Agrees, OneBehind, OutOfService,
           Attached, Preparing
  <2>6. memRoot # root'
    <3>1. tx \notin published /\ (memRoot # NoRoot => memRoot.tx \in published)
      BY <1>21 DEF ReplaceRoot, IInv, DurableInv, TxInv
    <3>2. QED BY <2>2, <2>3, <3>1
  <2>7. /\ TornInv' /\ HighWaterInv' /\ PublishedRootIsVerified' /\ ReloadInv'
        /\ (acked \subseteq Content)'
    BY <1>21, <2>2, <2>3, <2>4, <2>5
       DEF ReplaceRoot, IInv, DurableInv, TornInv, HighWaterInv, ReloadInv, PublishSteps,
           PublishedRootIsVerified
  <2>8. NextInv'
    BY <1>21, <2>1, <2>2, <2>3
       DEF ReplaceRoot, IInv, DurableInv, NextInv, Advance, PublishSteps, Preparing
  <2>9. TxInv'
    BY <1>21, <2>1, <2>2, <2>3 DEF ReplaceRoot, IInv, DurableInv, TypeOK, TxInv
  <2>10. purpose \in Caller => OneBehind'
    BY <2>1, <2>2, <2>3, <2>4, <2>5, <2>6
       DEF OneBehind, Advance, Caller, IInv, TypeOK, States
  <2>11. MemoryInv'
    BY <1>21, <2>1, <2>3, <2>10 DEF ReplaceRoot, MemoryInv, Attached, Preparing
  <2>12. QED BY <2>7, <2>8, <2>9, <2>11 DEF DurableInv
<1>22. CASE Install
  BY <1>22
     DEF IInv, DurableInv, TypeOK, States, TornInv, NextInv, Advance, ReloadInv,
         TxInv, PublishSteps, Caller, Preparing, MemoryInv, Agrees, OneBehind,
         OutOfService, Content, Generation, Attached, HighWaterInv,
         PublishedRootIsVerified, Install, disk, object, call, history
<1>23. CASE Complete
  BY <1>23
     DEF IInv, DurableInv, TypeOK, States, TornInv, NextInv, Advance, ReloadInv,
         TxInv, PublishSteps, Caller, Preparing, MemoryInv, Agrees, OneBehind,
         OutOfService, Content, Generation, Attached, HighWaterInv,
         PublishedRootIsVerified, Complete, CallEnds, disk, object, call, history
<1>24. CASE PublishFault
  BY <1>24, BenignFaults
     DEF IInv, DurableInv, TypeOK, States, TornInv, NextInv, Advance, ReloadInv,
         TxInv, PublishSteps, Caller, Preparing, MemoryInv, Agrees, OneBehind,
         OutOfService, Content, Generation, Attached, HighWaterInv,
         PublishedRootIsVerified, BenignFaults, PublishFault, Abort, ClearObject,
         CallEnds, disk, object, call, history
<1>25. CASE Crash
  BY <1>25
     DEF IInv, DurableInv, TypeOK, States, TornInv, NextInv, Advance, ReloadInv,
         TxInv, PublishSteps, Caller, Preparing, MemoryInv, Agrees, OneBehind,
         OutOfService, Content, Generation, Attached, HighWaterInv,
         PublishedRootIsVerified, Crash, ClearObject, CallEnds, disk, object, call,
         history
<1>26. CASE UNCHANGED vars
  <2>1. TornInv' /\ NextInv' /\ ReloadInv' /\ TxInv'
    BY <1>26
       DEF IInv, DurableInv, TornInv, NextInv, Advance, ReloadInv, TxInv, vars, disk, object,
           call, history
  <2>2. MemoryInv' /\ (acked \subseteq Content)'
    BY <1>26
       DEF IInv, DurableInv, MemoryInv, Agrees, OneBehind, OutOfService, Content, Generation,
           vars, disk, object, call, history
  <2>3. HighWaterInv' /\ PublishedRootIsVerified'
    BY <1>26
       DEF IInv, DurableInv, HighWaterInv, PublishedRootIsVerified, vars, disk, object, call,
           history
  <2>4. QED BY <2>1, <2>2, <2>3 DEF DurableInv
<1>27. QED
  BY <1>1, <1>2, <1>3, <1>4, <1>5, <1>6, <1>7, <1>8, <1>9, <1>10, <1>11, <1>12,
     <1>13, <1>14, <1>15, <1>16, <1>17, <1>18, <1>19, <1>20, <1>21, <1>22, <1>23,
     <1>24, <1>25, <1>26
     DEF Next, Recovery, Publication

\* With the faults it allows, the files and the memory of the store stay
\* consistent.
THEOREM Invariance ==
    ASSUME BenignFaults
    PROVE  Spec => []IInv
<1>1. TypeOK /\ TypeOK' /\ DurableInv /\ [Next]_vars => DurableInv'
  BY StepDurable DEF IInv
<1>2. IInv <=> TypeOK /\ DurableInv
  BY DEF IInv
<1>3. QED BY InitDurable, TypeCorrect, <1>1, <1>2, PTL DEF Spec

\* No crash point and no recovery loses what mutate() acknowledged: a restart
\* finds every acknowledged mutation in the durable state.
THEOREM CommitsAreDurable ==
    ASSUME BenignFaults
    PROVE  Spec => []NoLostCommit
<1>1. IInv => NoLostCommit
  BY DurableIsRoot DEF IInv, DurableInv, NoLostCommit
<1>2. QED BY Invariance, <1>1, PTL

\* publish() never makes a root current whose index file is incomplete.
THEOREM RootsAreVerified ==
    ASSUME BenignFaults
    PROVE  Spec => []PublishedRootIsVerified
<1>1. IInv => PublishedRootIsVerified
  BY DEF IInv, DurableInv
<1>2. QED BY Invariance, <1>1, PTL

\* While requests are served the object in memory is the durable state, or one
\* publication behind it after an export that failed past the rename.
THEOREM MemoryAgrees ==
    ASSUME BenignFaults
    PROVE  Spec => []MemoryMatchesDisk
<1>1. IInv => MemoryMatchesDisk
  <2> SUFFICES ASSUME IInv, pc \in {"finalize", "finalizeFill", "ready"}, ~reloadDue,
                      ~OutOfService
               PROVE  \/ memRoot = root /\ state.content = DurableState.content
                      \/ /\ root.tx \in abandoned
                         /\ root.chain = ChainAfter(memRoot)
                         /\ state.content \subseteq DurableState.content
    BY DEF MemoryMatchesDisk
  <2>1. DurableState.content = Content
    BY DurableIsRoot DEF IInv, DurableInv
  <2>2. QED
    BY <2>1 DEF IInv, DurableInv, MemoryInv, Agrees, OneBehind, Attached
<1>2. QED BY Invariance, <1>1, PTL

-----------------------------------------------------------------------------
(* Generations and transactions *)

\* Every mutation publishes the next generation under a new transaction and epochs
\* that do not go back, except over a root the object never took over; a recovery
\* publishes the generation there is.
THEOREM RootsAdvance ==
    ASSUME BenignFaults
    PROVE  Spec => RootAdvances
<1>1. IInv /\ [Next]_vars =>
        [root # NoRoot /\ root' # root => (SucceedsTheRoot \/ TakesItsPlace) /\ root'.tx \notin published]_vars
  <2> SUFFICES ASSUME IInv, Next, root # NoRoot, root' # root
               PROVE  (SucceedsTheRoot \/ TakesItsPlace) /\ root'.tx \notin published
    OBVIOUS
  <2>1. ReplaceRoot
    BY DEF Next, Recovery, Publication, Start, StartFails, StartRecovered, TakeOver, WriterReady,
           FinalizeHighWater, FinalizeFillHighWater, FinalizeWal, StartReload, ReloadRecovered,
           ReloadFails, Mutate, BeginPublish, AdvanceMatrixAuthorityEpoch, RejectRequest,
           PersistHighWater, HighWaterRefused, FillHighWater, WriteIndex, FillIndex, Prepare,
           Install, Complete, PublishFault, Crash, disk
  <2>2. root'.state = next /\ root'.tx = tx /\ root'.chain = ChainAfter(memRoot)
    BY <2>1 DEF ReplaceRoot
  <2>3. root'.tx \notin published
    BY <2>1, <2>2 DEF ReplaceRoot, IInv, DurableInv, TxInv
  <2>4. next.generation = state.generation + Advance
    BY <2>1 DEF ReplaceRoot, IInv, DurableInv, NextInv, Preparing
  <2>5. Generation = root.state.generation
    BY DEF Generation
  <2>6. CASE Agrees
    BY <2>2, <2>3, <2>4, <2>5, <2>6 DEF Agrees, Advance, SucceedsTheRoot
  <2>7. CASE OneBehind /\ (root.tx \in abandoned \/ reloadDue) /\ purpose \in Caller
    <3>1. root.tx \in abandoned \/ (reloadDue /\ purpose = "export")
      BY <2>1, <2>7 DEF ReplaceRoot, IInv, DurableInv, ReloadInv
    <3>2. next.generation = root.state.generation
      BY <2>4, <2>5, <2>7 DEF OneBehind, Advance, Caller
    <3>3. QED BY <2>2, <2>3, <2>7, <3>1, <3>2 DEF OneBehind, TakesItsPlace
  <2>8. Agrees \/ (OneBehind /\ (root.tx \in abandoned \/ reloadDue) /\ purpose \in Caller)
    BY <2>1
       DEF ReplaceRoot, IInv, DurableInv, MemoryInv, OutOfService, Attached, Preparing
  <2>9. QED BY <2>6, <2>7, <2>8
<1>2. [root # NoRoot /\ root' # root =>
         (SucceedsTheRoot \/ TakesItsPlace) /\ root'.tx \notin published]_vars
      /\ [root # NoRoot /\ root' # root => EpochsAdvance]_vars
      => [root # NoRoot /\ root' # root =>
              /\ SucceedsTheRoot \/ TakesItsPlace
              /\ EpochsAdvance
              /\ root'.tx \notin published]_vars
  OBVIOUS
<1>3. QED
  BY Invariance, EpochsAreKept, <1>1, <1>2, PTL
     DEF Spec, EpochsNeverGoBack, RootAdvances

-----------------------------------------------------------------------------
(* The store implements AtomicStore *)

LEMMA InitRefines == Init => Atomic!Init
<1> SUFFICES ASSUME Init PROVE Atomic!Init
  OBVIOUS
<1>1. DurableState.content = {}
  <2>1. CASE root = NoRoot
    BY <2>1 DEF DurableState, HasVerifiedRoot, EmptyState
  <2>2. CASE root = [tx |-> 0, state |-> LegacyState, chain |-> <<>>] /\ intact = {LegacyState}
    <3>1. root.state = LegacyState /\ root.state \in intact
      BY <2>2
    <3>2. VerifiedRoot.state = LegacyState
      BY <3>1 DEF VerifiedRoot
    <3>3. LegacyState.content = {} /\ EmptyState.content = {}
      BY DEF LegacyState, EmptyState
    <3>4. QED BY <3>2, <3>3 DEF DurableState
  <2>3. QED BY <2>1, <2>2, InitRoot
<1>2. QED BY <1>1 DEF Init, Atomic!Init, InFlight, Doubt, Serving, PublishSteps

LEMMA DurableContent ==
    ASSUME IInv, IInv'
    PROVE  DurableState.content = Content /\ DurableState'.content = Content'
<1>1. DurableState.content = Content
  BY DurableIsRoot DEF IInv, DurableInv
<1>2. (DurableState.content = Content)'
  BY DurableIsRoot, PTL DEF IInv, DurableInv
<1>3. QED BY <1>1, <1>2

LEMMA DoubtIsContent ==
    ASSUME IInv, IInv'
    PROVE  /\ Doubt = IF Serving THEN Content \ state.content ELSE {}
           /\ Doubt' = IF Serving' THEN Content' \ state'.content ELSE {}
  BY DurableContent DEF Doubt

\* A step that leaves the root and the acknowledgements alone, and either nothing
\* else that is mapped or only ends the call in flight, is a stutter or a Forget.
LEMMA QuietStep ==
    ASSUME IInv, IInv', root' = root, acked' = acked,
           \/ InFlight' = InFlight /\ Doubt' = Doubt
           \/ InFlight' = {} /\ Doubt' \subseteq Doubt \cup InFlight
    PROVE  [Atomic!Next]_Atomic!vars
<1>1. DurableState'.content = DurableState.content
  BY DurableContent DEF Content
<1>2. CASE InFlight' = InFlight /\ Doubt' = Doubt
  BY <1>1, <1>2 DEF Atomic!vars
<1>3. CASE InFlight' = {} /\ Doubt' \subseteq Doubt \cup InFlight
  <2>1. Doubt' \subseteq DurableState.content
    BY <1>1, DurableContent, DoubtIsContent
  <2>2. Atomic!Forget
    BY <1>1, <1>3, <2>1 DEF Atomic!Forget
  <2>3. QED BY <2>2 DEF Atomic!Next
<1>4. QED BY <1>2, <1>3

\* Submission: the mutation is in flight.
LEMMA MutateRefines ==
    ASSUME IInv, IInv', NEW c \in Caller, NEW m \in Mutation, Mutate(c, m)
    PROVE  Atomic!Next
<1>1. InFlight = {} /\ InFlight' = {m}
  BY DEF Mutate, BeginPublish, InFlight, PublishSteps
<1>2. Content' = Content /\ acked' = acked
  BY DEF Mutate, BeginPublish, disk, history, Content
<1>3. Doubt' = Doubt
  BY <1>2, DoubtIsContent
     DEF Mutate, BeginPublish, disk, object, Serving, OutOfService
<1>4. Atomic!Submit(m)
  BY <1>1, <1>2, <1>3, DurableContent DEF Atomic!Submit
<1>5. QED BY <1>4 DEF Atomic!Next

\* The replacement of the root is the commit, and takes back what was in doubt.
LEMMA ReplaceRootRefines ==
    ASSUME IInv, IInv', ReplaceRoot
    PROVE  Atomic!Next
<1>1. InFlight' = InFlight /\ acked' = acked
  BY DEF ReplaceRoot, InFlight, PublishSteps
<1>2. InFlight = op
  BY DEF ReplaceRoot, InFlight, PublishSteps, IInv, DurableInv, NextInv, TypeOK
<1>3. Content' = state.content \cup op
  <2>1. root' # NoRoot /\ root'.state = next
    BY DEF IInv, DurableInv, NextInv, ReplaceRoot
  <2>2. next.content = state.content \cup op
    BY DEF IInv, DurableInv, NextInv, ReplaceRoot, Preparing
  <2>3. QED BY <2>1, <2>2 DEF Content
<1>4. state.content \subseteq Content /\ Serving
  BY DEF ReplaceRoot, IInv, DurableInv, MemoryInv, Agrees, OneBehind, OutOfService,
         Attached, Preparing, Serving
<1>5. Content \ Doubt = state.content
  BY <1>4, DoubtIsContent
<1>6. Doubt' = {}
  BY DoubtIsContent DEF ReplaceRoot, Serving
<1>7. Atomic!Commit
  BY <1>1, <1>2, <1>3, <1>5, <1>6, DurableContent DEF Atomic!Commit
<1>8. QED BY <1>7 DEF Atomic!Next

\* The return of mutate() is the acknowledgement.
LEMMA CompleteRefines ==
    ASSUME IInv, IInv', Complete
    PROVE  [Atomic!Next]_Atomic!vars
<1>1. Content' = Content /\ state' = state /\ root' = root
  BY DEF Complete, Content, object
<1>2. Content \ state.content = {}
  BY DEF Complete, IInv, DurableInv, MemoryInv, Agrees, OutOfService, Attached, Preparing
<1>3. Doubt = {} /\ Doubt' = {}
  BY <1>1, <1>2, DoubtIsContent
<1>4. CASE purpose \in Caller
  <2>1. InFlight = op /\ InFlight' = {} /\ acked' = acked \cup op
    BY <1>4 DEF Complete, InFlight, PublishSteps, Caller
  <2>2. op \subseteq Content
    BY DEF IInv, DurableInv, NextInv, Complete, Content, PublishSteps
  <2>3. CASE op = {}
    BY <1>1, <1>3, <2>1, <2>3, DurableContent DEF Atomic!vars
  <2>4. CASE op # {}
    <3>1. Atomic!Acknowledge
      BY <1>1, <1>3, <2>1, <2>2, <2>4, DurableContent DEF Atomic!Acknowledge
    <3>2. QED BY <3>1 DEF Atomic!Next
  <2>5. QED BY <2>3, <2>4
<1>5. CASE purpose \notin Caller
  <2>1. purpose = "recover"
    BY <1>5 DEF IInv, TypeOK
  <2>2. InFlight' = {} /\ acked' = acked
    BY <2>1 DEF Complete, InFlight, PublishSteps
  <2>3. QED BY <1>1, <1>3, <2>2, QuietStep
<1>6. QED BY <1>4, <1>5

\* A failed write, or a refused epoch: what the call had made durable before the
\* object took it over is in doubt.
LEMMA AbortRefines ==
    ASSUME IInv, IInv', Abort, root' = root, acked' = acked, pc \in PublishSteps,
           highWater' = highWater
    PROVE  [Atomic!Next]_Atomic!vars
<1>1. InFlight' = {} /\ Content' = Content
  BY DEF Abort, InFlight, PublishSteps, Content
<1>2. Doubt' \subseteq Doubt \cup InFlight
  <2>1. CASE purpose = "recover"
    BY <2>1, DoubtIsContent DEF Abort, Serving
  <2>2. CASE purpose # "recover"
    <3>1. pc' = "ready" /\ state' = state /\ InFlight = op
      BY <2>2 DEF Abort, object, InFlight, IInv, TypeOK
    <3>2. CASE pc = "install"
      <4>1. Content = state.content \cup op
        BY <3>2 DEF IInv, DurableInv, NextInv, Content
      <4>2. QED BY <1>1, <3>1, <4>1, DoubtIsContent
    <3>3. CASE pc # "install"
      <4>1. Serving' => Serving
        BY <3>1, <3>3 DEF Serving, OutOfService, PublishSteps
      <4>2. QED BY <1>1, <3>1, <4>1, DoubtIsContent
    <3>4. QED BY <3>2, <3>3
  <2>3. QED BY <2>1, <2>2
<1>3. QED BY <1>1, <1>2, QuietStep

\* The steps of a publication that leave the root and the memory alone.
LEMMA PrepareRefines ==
    ASSUME IInv, IInv', object' = object, root' = root, acked' = acked,
           pc \in Preparing, pc' \in Preparing, purpose' = purpose, op' = op,
           ~OutOfService, ~OutOfService'
    PROVE  [Atomic!Next]_Atomic!vars
<1>1. Content' = Content /\ state' = state
  BY DEF Content, object
<1>2. Serving /\ Serving'
  BY DEF Serving, Preparing
<1>3. InFlight' = InFlight /\ Doubt' = Doubt
  BY <1>1, <1>2, DoubtIsContent DEF InFlight, Preparing, PublishSteps
<1>4. QED BY <1>3, QuietStep

\* Start-up and reload put nothing in doubt and have no call in flight.
LEMMA RecoveryRefines ==
    ASSUME IInv, IInv', BenignFaults,
           Start \/ Recovery \/ StartReload \/ ReloadRecovered \/ ReloadFails \/ Crash
    PROVE  [Atomic!Next]_Atomic!vars
<1>1. root' = root /\ acked' = acked /\ InFlight' = {}
  <2>1. root' = root /\ acked' = acked
    BY DEF Start, Recovery, StartReload, ReloadRecovered, ReloadFails, Crash, StartRecovered,
           StartFails, TakeOver, FinalizeHighWater, FinalizeFillHighWater, FinalizeWal,
           WriterReady, disk, history
  <2>2. CASE TakeOver
    BY <2>1, <2>2 DEF TakeOver, InFlight, PublishSteps, Caller
  <2>3. CASE ~TakeOver
    <3>1. pc' \in {"start", "down", "reload", "ready", "takeover", "finalize", "finalizeFill"}
      BY <2>3
         DEF Start, Recovery, StartReload, ReloadRecovered, ReloadFails, Crash, StartRecovered,
             StartFails, FinalizeHighWater, FinalizeFillHighWater, FinalizeWal, WriterReady,
             call
    <3>2. QED BY <2>1, <3>1 DEF InFlight, PublishSteps
  <2>4. QED BY <2>2, <2>3
<1>2. Serving' => Content' \ state'.content = {}
  <2>1. CASE Start \/ StartReload \/ StartFails \/ Crash
    BY <2>1 DEF Start, StartReload, StartFails, Crash, Serving
  <2>2. CASE StartRecovered \/ ReloadRecovered
    <3>1. state'.content = Content
      BY <2>2, RecoverTakesOver DEF StartRecovered, ReloadRecovered
    <3>2. QED BY <1>1, <3>1 DEF Content
  <2>3. CASE ReloadFails
    <3>1. highWater = Truncated
      BY <2>3
         DEF ReloadFails, BenignFaults, CanRecover, HasVerifiedRoot, IInv, DurableInv,
             PublishedRootIsVerified
    <3>2. QED BY <2>3, <3>1 DEF ReloadFails, Serving, OutOfService, disk
  <2>4. CASE TakeOver \/ FinalizeHighWater \/ FinalizeFillHighWater \/ FinalizeWal \/ WriterReady
    <3>1. Content' = Content /\ state' = state
      BY <1>1, <2>4
         DEF TakeOver, FinalizeHighWater, FinalizeFillHighWater, FinalizeWal, WriterReady,
             object, Content
    <3>2. Content \ state.content = {}
      BY <2>4
         DEF TakeOver, FinalizeHighWater, FinalizeFillHighWater, FinalizeWal, WriterReady,
             IInv, DurableInv, MemoryInv, Agrees, OutOfService, Attached, Preparing
    <3>3. QED BY <3>1, <3>2
  <2>5. QED BY <2>1, <2>2, <2>3, <2>4 DEF Recovery
<1>3. Doubt' = {}
  BY <1>2, DoubtIsContent
<1>4. QED BY <1>1, <1>3, QuietStep

LEMMA StepRefines ==
    ASSUME IInv, IInv', [Next]_vars, BenignFaults
    PROVE  [Atomic!Next]_Atomic!vars
<1>1. CASE UNCHANGED vars
  <2>1. Content' = Content /\ state' = state /\ (Serving' <=> Serving)
    BY <1>1 DEF vars, disk, object, call, Content, Serving, OutOfService
  <2>2. Doubt' = Doubt /\ InFlight' = InFlight
    BY <1>1, <2>1, DoubtIsContent DEF vars, call, InFlight
  <2>3. QED BY <1>1, <2>2, QuietStep DEF vars, disk, history
<1>2. CASE Start \/ Recovery \/ StartReload \/ ReloadRecovered \/ ReloadFails \/ Crash
  BY <1>2, RecoveryRefines
<1>3. CASE \E c \in Caller, m \in Mutation : Mutate(c, m)
  BY <1>3, MutateRefines
<1>4. CASE (\E c \in Caller : AdvanceMatrixAuthorityEpoch(c)) \/ RejectRequest
  <2>1. Content' = Content /\ state' = state /\ (Serving' <=> Serving)
    BY <1>4
       DEF AdvanceMatrixAuthorityEpoch, BeginPublish, RejectRequest, disk, object, Content,
           Serving, OutOfService
  <2>2. Doubt' = Doubt /\ InFlight' = {} /\ root' = root /\ acked' = acked /\ InFlight = {}
    BY <1>4, <2>1, DoubtIsContent
       DEF AdvanceMatrixAuthorityEpoch, BeginPublish, RejectRequest, disk, history, InFlight,
           PublishSteps
  <2>3. QED BY <2>2, QuietStep
<1>5. CASE Publication
  <2>1. CASE PersistHighWater \/ FillHighWater \/ WriteIndex \/ FillIndex \/ Prepare
    <3>1. /\ object' = object /\ root' = root /\ acked' = acked /\ purpose' = purpose
          /\ op' = op /\ pc \in Preparing /\ pc' \in Preparing
      BY <2>1
         DEF PersistHighWater, FillHighWater, WriteIndex, FillIndex, Prepare, disk, object,
             history, Preparing
    <3>2. ~OutOfService /\ ~OutOfService'
      BY <2>1
         DEF PersistHighWater, FillHighWater, WriteIndex, FillIndex, Prepare, OutOfService
    <3>3. QED BY <3>1, <3>2, PrepareRefines
  <2>2. CASE HighWaterRefused
    BY <2>2, AbortRefines DEF HighWaterRefused, disk, history, PublishSteps
  <2>3. CASE ReplaceRoot
    BY <2>3, ReplaceRootRefines
  <2>4. CASE Install
    <3>1. /\ root' = root /\ acked' = acked /\ InFlight' = InFlight
          /\ ~Serving /\ Content' = Content
      BY <2>4 DEF Install, disk, history, InFlight, PublishSteps, Serving, Content
    <3>2. Content = next.content /\ state' = next
      BY <2>4 DEF Install, IInv, DurableInv, NextInv, Content
    <3>3. Doubt = {} /\ Doubt' = {}
      BY <3>1, <3>2, DoubtIsContent
    <3>4. QED BY <3>1, <3>3, QuietStep
  <2>5. CASE Complete
    BY <2>5, CompleteRefines
  <2>6. QED BY <1>5, <2>1, <2>2, <2>3, <2>4, <2>5 DEF Publication
<1>6. CASE PublishFault
  BY <1>6, AbortRefines DEF PublishFault, disk
<1>7. QED BY <1>1, <1>2, <1>3, <1>4, <1>5, <1>6 DEF Next

\* Every behaviour of the store is, through the refinement mapping, a behaviour
\* of AtomicStore: a mutation commits at the replacement of the root, is
\* acknowledged after it, and is only forgotten by a fault or a crash; one whose
\* call failed past the rename is in doubt until the object agrees with the files.
THEOREM StoreIsAtomic ==
    ASSUME BenignFaults
    PROVE  Spec => AtomicSpec
<1>1. IInv /\ IInv' /\ [Next]_vars => [Atomic!Next]_Atomic!vars
  BY StepRefines
<1>2. Spec => []IInv
  BY Invariance
<1>3. QED BY InitRefines, <1>1, <1>2, PTL DEF Spec, AtomicSpec, Atomic!Spec

=============================================================================

-------------------------- MODULE DeckLifecycleProofs --------------------------
(***************************************************************************)
(* For any number of decks, contents, snapshots, requests, failures and    *)
(* crashes:                                                                *)
(*   - the heads of the store are never older than what was published, no  *)
(*     generation has two contents, and every head owns what it needs and  *)
(*     can be read unless an edit is pending or was materialized;          *)
(*   - a snapshot file that is offered for a restore has the retained head *)
(*     it was written for, and a restore keeps its target;                 *)
(*   - once no write of a deck is on its way, its row shows its head, and  *)
(*     no row ever goes back to an older generation;                       *)
(*   - a permanent deletion that was answered is final and complete.       *)
(* Five inductive invariants, each with the ones before it: IInv,          *)
(* PointersInv, SInv, RowsInv and DeletionsInv.                            *)
(***************************************************************************)
EXTENDS DeckLifecycle, PackageRecordsProofs
-----------------------------------------------------------------------------
(* The inductive invariant *)

Files == [id : Snapshot, gen : Nat, pending : BOOLEAN]
Exports == [pc : {"idle", "work", "drain"}, head : Heads \cup {NoHead}]
Steps == {"idle"} \cup SnapshotSteps \cup DeleteSteps
Histories == [pc : Steps, cur : Heads \cup {NoHead}, target : Snapshot \cup {NoSnapshot},
              snap : Snapshot \cup {NoSnapshot}, pos : Nat, gen : Nat, saw : BOOLEAN,
              kept : BOOLEAN, attempt : 0 .. 2]
Commits == [gen : Nat, body : Body]

RecordsType ==
    /\ heads \in [Deck -> Heads \cup {NoHead}]
    /\ retained \in [Owners -> Heads \cup {NoHead}]
    /\ owned \in [Deck -> SUBSET Revisions]
    /\ commits \in [Deck -> SUBSET Commits]
    /\ epoch \in Nat \ {0}

RequestsType ==
    /\ files \in [Deck -> Seq(Files)]
    /\ export \in [Deck -> Exports]
    /\ hist \in [Deck -> Histories]

CommitOf(h) == [gen |-> h.gen, body |-> h.body]
Newest(h, d) == CommitOf(h) \in commits[d] /\ \A x \in commits[d] : x.gen <= h.gen

\* What makes the head of a deck good also makes the one that a deletion retained
\* good, once the deck has lost its own.
AuthorityInv == \A d \in Deck :
    /\ \A x, y \in commits[d] : x.gen = y.gen => x.body = y.body
    /\ heads[d] # NoHead =>
          Newest(heads[d], d) /\ RevisionsOf(heads[d]) \subseteq owned[d] /\ heads[d].epoch = epoch
    /\ heads[d] = NoHead /\ retained[DeleteOwner(d)] # NoHead => Newest(retained[DeleteOwner(d)], d)

HoldsHead == {"retain", "write", "prune", "release", "forward", "d.retain", "d.quarantine"}

\* A request that compares heads has one, a deletion that goes on to the quarantine
\* has retained it, and a removed file can be put back where it was.
RequestInv(d) ==
    /\ export[d].pc = "work" => export[d].head # NoHead
    /\ hist[d].pc \in HoldsHead => hist[d].cur # NoHead
    /\ hist[d].pc = "forward" => hist[d].target # NoSnapshot
    /\ hist[d].pc = "d.quarantine" => retained[DeleteOwner(d)] = hist[d].cur
    /\ hist[d].pc \in {"retain", "write", "release", "remove"} => hist[d].snap \in Snapshot
    /\ hist[d].pc \in {"release", "remove"} => hist[d].pos \in 1 .. Len(files[d]) + 1

RequestsInv == \A d \in Deck : RequestInv(d)

IInv == RecordsType /\ RequestsType /\ AuthorityInv /\ RequestsInv

-----------------------------------------------------------------------------
(* Owners, heads and requests *)

\* Distinct decks and snapshots have distinct retained owners.
LEMMA OwnersApart ==
    ASSUME NEW d \in Deck
    PROVE  /\ DeleteOwner(d) \in Owners
           /\ \A s \in Snapshot : HistoryOwner(d, s) \in Owners
           /\ \A e : DeleteOwner(e) = DeleteOwner(d) => e = d
           /\ \A e, s : HistoryOwner(e, s) # DeleteOwner(d)
BY DEF DeleteOwner, HistoryOwner, Owners

\* A request moves on: only its step changes.
LEMMA StepTo ==
    ASSUME RequestsType, NEW d \in Deck, NEW step \in Steps, hist' = [hist EXCEPT ![d].pc = step]
    PROVE  /\ hist' \in [Deck -> Histories]
           /\ hist'[d].pc = step /\ hist'[d].cur = hist[d].cur /\ hist'[d].target = hist[d].target
           /\ hist'[d].snap = hist[d].snap /\ \A e \in Deck \ {d} : hist'[e] = hist[e]
BY DEF RequestsType, Histories

\* A request that ends leaves the record of an idle deck.
LEMMA StepDone ==
    ASSUME RequestsType, NEW d \in Deck, Done(d)
    PROVE  /\ hist' \in [Deck -> Histories]
           /\ hist'[d].pc = "idle"
           /\ \A e \in Deck \ {d} : hist'[e] = hist[e]
<1>. DEFINE no == FALSE
<1>. DEFINE zero == 0
<1>1. Idle = [pc |-> "idle", cur |-> NoHead, target |-> NoSnapshot, snap |-> NoSnapshot,
              pos |-> zero, gen |-> zero, saw |-> no, kept |-> no, attempt |-> zero]
  BY DEF Idle
<1>2. no \in BOOLEAN /\ zero \in Nat /\ zero \in 0 .. 2
  OBVIOUS
<1>. HIDE DEF no, zero
<1>3. Idle \in Histories /\ Idle.pc = "idle"
  BY <1>1, <1>2 DEF Histories, Steps
<1>. QED  BY <1>3 DEF Done, RequestsType

\* A deck gets a new head that continues its history.
LEMMA NewHead ==
    ASSUME RecordsType, AuthorityInv, NEW d \in Deck, NEW h \in Heads,
           SetHead(d, h), UNCHANGED <<retained, epoch>>, h.epoch = epoch,
           owned' \in [Deck -> SUBSET Revisions], RevisionsOf(h) \subseteq owned'[d],
           \A e \in Deck \ {d} : owned'[e] = owned[e],
           (\A x \in commits[d] : x.gen < h.gen) \/ Newest(h, d)
    PROVE  RecordsType' /\ AuthorityInv' /\ heads'[d] # NoHead
<1>1. /\ heads'[d] = h /\ h # NoHead /\ \A e \in Deck \ {d} : heads'[e] = heads[e]
      /\ commits'[d] = commits[d] \cup {CommitOf(h)}
      /\ \A e \in Deck \ {d} : commits'[e] = commits[e]
  BY HeadsOK DEF SetHead, RecordsType, CommitOf
<1>2. CommitOf(h) \in Commits /\ CommitOf(h).gen = h.gen /\ CommitOf(h).body = h.body
      /\ h.gen \in Nat
  BY DEF CommitOf, Commits, Heads
<1>3. RecordsType'
  BY <1>2 DEF RecordsType, SetHead, CommitOf
<1>4. \A x \in commits[d] : x.gen \in Nat
  BY DEF RecordsType, Commits
<1>5. \A x, y \in commits'[d] : x.gen = y.gen => x.body = y.body
  <2>1. \A x \in commits[d] : x.gen = h.gen => x.body = h.body
    BY <1>2, <1>4 DEF AuthorityInv, Newest
  <2>. QED  BY <1>1, <1>2, <2>1 DEF AuthorityInv
<1>6. Newest(h, d)'
  BY <1>1, <1>2, <1>4 DEF Newest, CommitOf
<1>7. ASSUME NEW e \in Deck \ {d}
      PROVE  /\ \A x, y \in commits'[e] : x.gen = y.gen => x.body = y.body
             /\ heads'[e] # NoHead => /\ Newest(heads[e], e)' /\ RevisionsOf(heads'[e]) \subseteq owned'[e]
                                      /\ heads'[e].epoch = epoch'
             /\ heads'[e] = NoHead /\ retained'[DeleteOwner(e)] # NoHead
                   => Newest(retained[DeleteOwner(e)], e)'
  BY <1>1 DEF AuthorityInv, Newest, CommitOf
<1>8. RevisionsOf(heads'[d]) \subseteq owned'[d] /\ heads'[d].epoch = epoch' /\ Newest(heads[d], d)'
  BY <1>1, <1>6 DEF Newest
<1>9. AuthorityInv'
  BY <1>1, <1>5, <1>7, <1>8 DEF AuthorityInv
<1>. QED  BY <1>1, <1>3, <1>9

\* Retained heads of snapshots, and of the deletion of a deck that has its head.
LEMMA OwnersChange ==
    ASSUME RecordsType, AuthorityInv, UNCHANGED <<heads, owned, epoch, commits>>,
           retained' \in [Owners -> Heads \cup {NoHead}],
           \A e \in Deck : \/ retained'[DeleteOwner(e)] \in {NoHead, retained[DeleteOwner(e)]}
                           \/ heads[e] # NoHead
    PROVE  RecordsType' /\ AuthorityInv'
<1>1. RecordsType'
  BY DEF RecordsType
<1>2. AuthorityInv'
  BY DEF AuthorityInv, Newest, CommitOf
<1>. QED  BY <1>1, <1>2

\* releaseOwner() of any owner.
LEMMA Releases ==
    ASSUME RecordsType, AuthorityInv, NEW o \in Owners, Release(o)
    PROVE  RecordsType' /\ AuthorityInv' /\ \A p \in Owners \ {o} : retained'[p] = retained[p]
<1>1. /\ retained' \in [Owners -> Heads \cup {NoHead}] /\ retained'[o] = NoHead
      /\ \A p \in Owners \ {o} : retained'[p] = retained[p]
  BY DEF Release, RecordsType
<1>2. \A e \in Deck : retained'[DeleteOwner(e)] \in {NoHead, retained[DeleteOwner(e)]}
  BY <1>1, OwnersApart
<1>. QED  BY <1>1, <1>2, OwnersChange DEF Release

\* The quarantine of a head that the deletion has retained.
LEMMA Quarantines ==
    ASSUME RecordsType, AuthorityInv, NEW d \in Deck, Quarantine(d),
           heads[d] # NoHead, retained[DeleteOwner(d)] = heads[d]
    PROVE  RecordsType' /\ AuthorityInv'
<1>1. /\ heads'[d] = NoHead /\ \A e \in Deck \ {d} : heads'[e] = heads[e]
      /\ \A e \in Deck \ {d} : owned'[e] = owned[e]
      /\ UNCHANGED <<retained, epoch, commits>>
  BY DEF Quarantine, RecordsType
<1>2. RecordsType'
  BY DEF Quarantine, RecordsType
<1>3. AuthorityInv'
  BY <1>1 DEF AuthorityInv, Newest, CommitOf
<1>. QED  BY <1>2, <1>3

\* restoreForward(): all heads move to the next authority epoch.
LEMMA Restores ==
    ASSUME RecordsType, AuthorityInv, NEW d \in Deck, NEW o \in Owners, RestoreForward(o, d),
           heads[d] # NoHead, retained[o] # NoHead
    PROVE  /\ RecordsType' /\ AuthorityInv'
           /\ \A e \in Deck : heads'[e] = NoHead <=> heads[e] = NoHead
<1>. DEFINE next == epoch + 1
<1>. DEFINE gen == heads[d].gen + 1
<1>. DEFINE journal == JournalAfter(retained[o])
<1>. DEFINE h == [retained[o] EXCEPT !.gen = gen, !.epoch = next, !.journal = journal]
<1>. DEFINE moved(e) == [heads[e] EXCEPT !.epoch = next]
<1>1. next \in Nat \ {0} /\ epoch' = next
  BY DEF RestoreForward, RecordsType
<1>2. gen \in Nat \ {0} /\ \A x \in commits[d] : x.gen \in Nat /\ x.gen < gen
  <2>1. heads[d].gen \in Nat
    BY DEF RecordsType, Heads
  <2>2. \A x \in commits[d] : x.gen \in Nat /\ x.gen <= heads[d].gen
    BY DEF AuthorityInv, Newest, RecordsType, Commits
  <2>. QED  BY <2>1, <2>2
<1>3. /\ owned' = [owned EXCEPT ![d] = RevisionsOf(retained[o])]
      /\ commits' = [commits EXCEPT ![d] = @ \cup {CommitOf(h)}]
      /\ retained' = retained
      /\ heads' = [e \in Deck |-> IF e = d THEN h ELSE IF heads[e] = NoHead THEN NoHead ELSE moved(e)]
  BY DEF RestoreForward, CommitOf
<1>. HIDE DEF next, gen
<1>11. journal \in {"null", "set"}
  BY DEF JournalAfter, RecordsType, Heads
<1>. HIDE DEF journal
<1>4. h \in Heads /\ h.gen = gen /\ h.epoch = next /\ RevisionsOf(h) = RevisionsOf(retained[o])
      /\ RevisionsOf(h) \subseteq Revisions /\ CommitOf(h) \in Commits /\ CommitOf(h).gen = gen
  BY <1>1, <1>2, <1>11 DEF RecordsType, Heads, RevisionsOf, CommitOf, Commits
<1>5. ASSUME NEW e \in Deck, heads[e] # NoHead
      PROVE  /\ moved(e) \in Heads /\ moved(e).gen = heads[e].gen /\ moved(e).epoch = next
             /\ CommitOf(moved(e)) = CommitOf(heads[e])
             /\ RevisionsOf(moved(e)) = RevisionsOf(heads[e])
  BY <1>1, <1>5 DEF RecordsType, Heads, RevisionsOf, CommitOf
<1>. HIDE DEF h, moved
<1>6. RecordsType'
  BY <1>1, <1>3, <1>4, <1>5 DEF RecordsType
<1>7. /\ heads'[d] = h /\ owned'[d] = RevisionsOf(h) /\ commits'[d] = commits[d] \cup {CommitOf(h)}
      /\ \A e \in Deck \ {d} :
            /\ heads[e] = NoHead => heads'[e] = NoHead
            /\ heads[e] # NoHead => heads'[e] = moved(e)
            /\ owned'[e] = owned[e] /\ commits'[e] = commits[e]
  BY <1>3, <1>4 DEF RecordsType
<1>8. /\ CommitOf(h) \in commits'[d] /\ \A x \in commits'[d] : x.gen <= h.gen
      /\ \A x, y \in commits'[d] : x.gen = y.gen => x.body = y.body
  <2>1. \A x \in commits'[d] : x.gen <= gen /\ (x.gen = gen => x = CommitOf(h))
    BY <1>2, <1>4, <1>7
  <2>2. CommitOf(h) \in commits'[d]
    BY <1>7
  <2>3. \A x, y \in commits[d] : x.gen = y.gen => x.body = y.body
    BY DEF AuthorityInv
  <2>5. ASSUME NEW x \in commits'[d], NEW y \in commits'[d], x.gen = y.gen
        PROVE  x.body = y.body
    <3>1. CASE x.gen = gen
      BY <2>1, <2>5, <3>1
    <3>2. CASE x.gen # gen
      BY <1>4, <1>7, <2>3, <2>5, <3>2
    <3>. QED  BY <3>1, <3>2
  <2>. QED  BY <1>4, <2>1, <2>2, <2>5
<1>9. AuthorityInv'
  <2>1. Newest(heads[d], d)'
    BY <1>7, <1>8 DEF Newest, CommitOf
  <2>2. ASSUME NEW e \in Deck \ {d}, heads[e] # NoHead
        PROVE  Newest(heads[e], e)'
    <3>1. Newest(heads[e], e)
      BY <2>2 DEF AuthorityInv
    <3>. QED  BY <1>5, <1>7, <2>2, <3>1 DEF Newest, CommitOf
  <2>3. ASSUME NEW e \in Deck \ {d}, heads[e] = NoHead, retained[DeleteOwner(e)] # NoHead
        PROVE  Newest(retained[DeleteOwner(e)], e)'
    BY <1>3, <1>7, <2>3 DEF AuthorityInv, Newest, CommitOf
  <2>4. \A e \in Deck \ {d} : heads'[e] # NoHead =>
           RevisionsOf(heads'[e]) \subseteq owned'[e] /\ heads'[e].epoch = epoch'
    BY <1>1, <1>5, <1>7 DEF AuthorityInv
  <2>5. \A e \in Deck \ {d} : \A x, y \in commits'[e] : x.gen = y.gen => x.body = y.body
    BY <1>7 DEF AuthorityInv
  <2>6. heads'[d] # NoHead /\ RevisionsOf(heads'[d]) \subseteq owned'[d] /\ heads'[d].epoch = epoch'
    BY <1>1, <1>4, <1>7, HeadsOK
  <2>7. retained' = retained /\ heads'[d] # NoHead
        /\ \A e \in Deck \ {d} : heads'[e] = NoHead <=> heads[e] = NoHead
    BY <1>3, <1>5, <1>7, <2>6, HeadsOK
  <2>8. ASSUME NEW e \in Deck
        PROVE  /\ \A x, y \in commits'[e] : x.gen = y.gen => x.body = y.body
               /\ heads'[e] # NoHead => /\ Newest(heads[e], e)' /\ heads'[e].epoch = epoch'
                                        /\ RevisionsOf(heads'[e]) \subseteq owned'[e]
               /\ heads'[e] = NoHead /\ retained'[DeleteOwner(e)] # NoHead
                     => Newest(retained[DeleteOwner(e)], e)'
    <3>1. CASE e = d
      BY <1>8, <2>1, <2>6, <3>1
    <3>2. CASE e # d
      BY <2>2, <2>3, <2>4, <2>5, <2>7, <3>2
    <3>. QED  BY <3>1, <3>2
  <2>. QED  BY <2>8 DEF AuthorityInv
<1>10. \A e \in Deck : heads'[e] = NoHead <=> heads[e] = NoHead
  <2>1. \A e \in Deck \ {d} : heads'[e] = NoHead <=> heads[e] = NoHead
    BY <1>5, <1>7, HeadsOK
  <2>. QED  BY <1>4, <1>7, <2>1, HeadsOK
<1>. QED  BY <1>6, <1>9, <1>10

-----------------------------------------------------------------------------
(* Drains, saves and exports *)

\* What the invariant speaks of is unchanged.
LEMMA Idles ==
    ASSUME IInv, UNCHANGED <<records, files, export, hist>>
    PROVE  IInv'
BY DEF IInv, records, RecordsType, RequestsType, AuthorityInv, RequestsInv, RequestInv, Newest,
       CommitOf

\* Drains change rows and the outbox only.
LEMMA DrainSteps ==
    ASSUME IInv,
           \/ \E d \in Deck : SaveDrain(d) \/ SaveReturns(d) \/ ExportDrain(d) \/ HistoryDrain(d)
           \/ Apply \/ Restart
    PROVE  IInv'
<1>1. UNCHANGED <<records, files, export, hist>>
  BY DEF SaveDrain, SaveReturns, ExportDrain, HistoryDrain, Apply, Restart, RestartDrain,
         RestartReady, BeginsDrain, DrainBegin, DrainEnd, DrainFails, DrainApply, DrainAcknowledge, requests
<1>. QED  BY <1>1, Idles

\* A save publishes the next generation.
LEMMA SaveKeeps ==
    ASSUME IInv, NEW d \in Deck, NEW b \in Body, Save(d, b)
    PROVE  IInv' /\ heads'[d] # NoHead
<1>. USE DEF IInv
<1>. DEFINE next == heads[d].gen + 1
<1>. DEFINE count == IF heads[d].edits = 0 THEN 1 ELSE 2
<1>. DEFINE h == [heads[d] EXCEPT !.gen = next, !.body = b, !.epoch = epoch,
                                  !.edits = count, !.journal = "set"]
<1>1. SetHead(d, h) /\ heads[d] # NoHead /\ heads[d] \in Heads
  BY DEF Save, RecordsType
<1>2. next \in Nat \ {0} /\ count \in 0 .. 2 /\ epoch \in Nat /\ \A x \in commits[d] : x.gen < next
  <2>1. heads[d].gen \in Nat
    BY <1>1 DEF Heads
  <2>2. \A x \in commits[d] : x.gen \in Nat /\ x.gen <= heads[d].gen
    BY <1>1 DEF AuthorityInv, Newest, RecordsType, Commits
  <2>. QED  BY <2>1, <2>2 DEF RecordsType
<1>. HIDE DEF next, count
<1>3. h \in Heads /\ h.gen = next /\ h.epoch = epoch /\ RevisionsOf(h) = RevisionsOf(heads[d])
  BY <1>1, <1>2 DEF Heads, RevisionsOf
<1>. HIDE DEF h
<1>4. UNCHANGED <<retained, epoch, owned, files, export, hist>>
  BY DEF Save
<1>5. RecordsType' /\ AuthorityInv' /\ heads'[d] # NoHead
  <2>1. owned' \in [Deck -> SUBSET Revisions] /\ RevisionsOf(h) \subseteq owned'[d]
    BY <1>1, <1>3, <1>4 DEF RecordsType, AuthorityInv
  <2>. QED  BY <1>1, <1>2, <1>3, <1>4, <2>1, NewHead
<1>6. RequestsType' /\ RequestsInv'
  BY <1>4 DEF RequestsType, RequestsInv, RequestInv
<1>. QED  BY <1>5, <1>6

\* An edited export begins, is refused, or returns.
LEMMA ExportMoves ==
    ASSUME IInv, NEW d \in Deck, ExportBegin(d) \/ ExportRefused(d) \/ ExportReturns(d)
    PROVE  IInv'
<1>. USE DEF IInv
<1>1. UNCHANGED <<records, files, hist>>
  BY DEF ExportBegin, ExportRefused, ExportReturns, recordVars, DrainEnd, DrainFails
<1>2. NoExport \in Exports /\ NoExport.pc = "idle"
  BY DEF NoExport, Exports
<1>3. ASSUME ExportBegin(d)
      PROVE  [pc |-> "work", head |-> heads[d]] \in Exports /\ heads[d] # NoHead
  BY <1>3 DEF ExportBegin, Exports, RecordsType
<1>. DEFINE begun == [pc |-> "work", head |-> heads[d]]
<1>. HIDE DEF begun
<1>4. PICK x \in Exports : export' = [export EXCEPT ![d] = x] /\ (x.pc = "work" => x.head # NoHead)
  <2>1. CASE ExportBegin(d)
    <3>1. begun \in Exports /\ begun.head # NoHead /\ export' = [export EXCEPT ![d] = begun]
      BY <1>3, <2>1 DEF ExportBegin, begun
    <3>. QED  BY <3>1
  <2>2. CASE ExportRefused(d) \/ ExportReturns(d)
    BY <1>2, <2>2 DEF ExportRefused, ExportReturns
  <2>. QED  BY <2>1, <2>2
<1>5. /\ export' \in [Deck -> Exports] /\ \A e \in Deck \ {d} : export'[e] = export[e]
      /\ export'[d].pc = "work" => export'[d].head # NoHead
  BY <1>4 DEF RequestsType
<1>6. RecordsType' /\ AuthorityInv'
  BY <1>1 DEF records, RecordsType, AuthorityInv, Newest, CommitOf
<1>7. RequestsType' /\ RequestsInv'
  BY <1>1, <1>5 DEF records, RequestsType, RequestsInv, RequestInv
<1>. QED  BY <1>6, <1>7

\* An edited export publishes on the very head it read.
LEMMA ExportCommits ==
    ASSUME IInv, NEW d \in Deck, ExportCommit(d)
    PROVE  IInv' /\ heads'[d] # NoHead
<1>. USE DEF IInv
<1>. DEFINE h == heads[d]
<1>1. h \in Heads /\ h # NoHead /\ h = export[d].head /\ UNCHANGED <<retained, epoch, files, hist>>
  BY DEF ExportCommit, SameHead, RequestsType, RequestsInv, RequestInv, RecordsType
<1>2. Newest(h, d) /\ RevisionsOf(h) \subseteq owned[d] /\ h.epoch = epoch
  BY <1>1 DEF AuthorityInv
<1>3. /\ export' \in [Deck -> Exports] /\ export'[d].pc # "work"
      /\ \A e \in Deck \ {d} : export'[e] = export[e]
  BY DEF ExportCommit, NoExport, RequestsType, Exports
<1>4. ASSUME h.body = h.pkg.body PROVE RecordsType' /\ AuthorityInv' /\ heads'[d] # NoHead
  <2>. DEFINE zero == 0
  <2>. DEFINE journal == JournalAfter(h)
  <2>. DEFINE k == [h EXCEPT !.edits = zero, !.journal = journal]
  <2>1. SetHead(d, k) /\ UNCHANGED owned /\ zero \in 0 .. 2 /\ journal \in {"null", "set"}
    BY <1>1, <1>4 DEF ExportCommit, JournalAfter, Heads
  <2>. HIDE DEF zero, journal
  <2>2. k \in Heads /\ k.epoch = epoch /\ CommitOf(k) = CommitOf(h) /\ k.gen = h.gen
        /\ RevisionsOf(k) = RevisionsOf(h)
    BY <1>1, <1>2, <2>1 DEF Heads, CommitOf, RevisionsOf
  <2>3. Newest(k, d)
    BY <1>2, <2>2 DEF Newest
  <2>. HIDE DEF k
  <2>. QED  BY <1>1, <1>2, <2>1, <2>2, <2>3, NewHead DEF RecordsType
<1>5. ASSUME h.body # h.pkg.body PROVE RecordsType' /\ AuthorityInv' /\ heads'[d] # NoHead
  <2>. DEFINE zero == 0
  <2>. DEFINE gen == h.gen + 1
  <2>. DEFINE ord == h.pkg.ord + 1
  <2>. DEFINE r == [ord |-> ord, body |-> h.body]
  <2>. DEFINE k == [h EXCEPT !.gen = gen, !.pkg = r, !.edits = zero, !.journal = "set",
                             !.epoch = epoch]
  <2>1. /\ SetHead(d, k) /\ owned' = [owned EXCEPT ![d] = @ \cup {r}]
        /\ zero \in 0 .. 2 /\ epoch \in Nat
    BY <1>1, <1>5 DEF ExportCommit, RecordsType
  <2>2. gen \in Nat \ {0} /\ \A x \in commits[d] : x.gen < gen
    <3>1. h.gen \in Nat
      BY <1>1 DEF Heads
    <3>2. \A x \in commits[d] : x.gen \in Nat /\ x.gen <= h.gen
      BY <1>2 DEF Newest, RecordsType, Commits
    <3>. QED  BY <3>1, <3>2
  <2>3. r \in Revisions
    BY <1>1 DEF Heads, Revisions
  <2>. HIDE DEF zero, gen, r
  <2>4. k \in Heads /\ k.epoch = epoch /\ k.gen = gen /\ k.pkg = r /\ k.original = h.original
    BY <1>1, <2>1, <2>2, <2>3 DEF Heads
  <2>5. RevisionsOf(k) \subseteq owned[d] \cup {r}
    BY <1>2, <2>4 DEF RevisionsOf
  <2>6. /\ owned' \in [Deck -> SUBSET Revisions] /\ RevisionsOf(k) \subseteq owned'[d]
        /\ \A e \in Deck \ {d} : owned'[e] = owned[e]
    BY <2>1, <2>3, <2>5 DEF RecordsType
  <2>. HIDE DEF k
  <2>. QED  BY <1>1, <2>1, <2>2, <2>4, <2>6, NewHead
<1>6. RecordsType' /\ AuthorityInv' /\ heads'[d] # NoHead
  BY <1>4, <1>5
<1>7. RequestsType' /\ RequestsInv'
  BY <1>1, <1>3 DEF RequestsType, RequestsInv, RequestInv
<1>. QED  BY <1>6, <1>7

-----------------------------------------------------------------------------
(* Requests that hold the history lock *)

\* A step of the request of one deck.
LEMMA HistStep ==
    ASSUME IInv, NEW d \in Deck, RecordsType', AuthorityInv', UNCHANGED export,
           files' \in [Deck -> Seq(Files)], hist' \in [Deck -> Histories],
           \A e \in Deck \ {d} : /\ files'[e] = files[e] /\ hist'[e] = hist[e]
                                 /\ retained'[DeleteOwner(e)] = retained[DeleteOwner(e)],
           RequestInv(d)'
    PROVE  IInv'
<1>1. RequestsType'
  BY DEF IInv, RequestsType
<1>2. RequestsInv'
  <2>1. ASSUME NEW e \in Deck \ {d} PROVE RequestInv(e)'
    BY DEF IInv, RequestsInv, RequestInv
  <2>. QED  BY <2>1 DEF RequestsInv
<1>. QED  BY <1>1, <1>2 DEF IInv

\* The records are unchanged.
LEMMA Unchanged ==
    ASSUME IInv, UNCHANGED records
    PROVE  RecordsType' /\ AuthorityInv' /\ UNCHANGED <<heads, retained>>
BY DEF IInv, records, RecordsType, AuthorityInv, Newest, CommitOf

\* The request is answered.
LEMMA Finishes ==
    ASSUME IInv, NEW d \in Deck, Done(d), RecordsType', AuthorityInv', UNCHANGED export,
           files' \in [Deck -> Seq(Files)],
           \A e \in Deck \ {d} : /\ files'[e] = files[e]
                                 /\ retained'[DeleteOwner(e)] = retained[DeleteOwner(e)]
    PROVE  IInv'
<1>1. /\ hist' \in [Deck -> Histories] /\ hist'[d].pc = "idle"
      /\ \A e \in Deck \ {d} : hist'[e] = hist[e]
  BY StepDone DEF IInv
<1>2. RequestInv(d)'
  BY <1>1 DEF IInv, RequestsInv, RequestInv, HoldsHead
<1>. QED  BY <1>1, <1>2, HistStep

\* The request goes on.
LEMMA GoesOn ==
    ASSUME IInv, NEW d \in Deck, NEW step \in Steps \ {"release", "remove"}, Goto(d, step),
           RecordsType', AuthorityInv', UNCHANGED export, files' \in [Deck -> Seq(Files)],
           \A e \in Deck \ {d} : /\ files'[e] = files[e]
                                 /\ retained'[DeleteOwner(e)] = retained[DeleteOwner(e)],
           step \in HoldsHead => hist[d].cur # NoHead,
           step = "forward" => hist[d].target # NoSnapshot, step # "d.quarantine",
           step \in {"retain", "write"} => hist[d].snap \in Snapshot
    PROVE  IInv'
<1>1. /\ hist' \in [Deck -> Histories] /\ hist'[d].pc = step /\ hist'[d].snap = hist[d].snap
      /\ hist'[d].cur = hist[d].cur /\ hist'[d].target = hist[d].target
      /\ \A e \in Deck \ {d} : hist'[e] = hist[e]
  BY StepTo DEF IInv, Goto
<1>2. RequestInv(d)'
  BY <1>1 DEF IInv, RequestsInv, RequestInv
<1>. QED  BY <1>1, <1>2, HistStep

\* Requests that end without changing the records.
LEMMA Answers ==
    ASSUME IInv, NEW d \in Deck,
           \/ RetainRefused(d) \/ ForwardRefused(d) \/ RestoreReturns(d) \/ UndoReturns(d)
           \/ DeleteReturns(d) \/ DeleteUndoFails(d)
    PROVE  IInv'
<1>1. Done(d) /\ UNCHANGED <<records, files, export>>
  BY DEF RetainRefused, ForwardRefused, RestoreReturns, UndoReturns, DeleteReturns, DeleteUndoFails,
         recordVars, Unaffected, Elsewhere, DrainEnd, DrainFails
<1>. QED  BY <1>1, Unchanged, Finishes DEF IInv, RequestsType

\* Steps of a snapshot that leave the records alone.
LEMMA SnapshotMoves ==
    ASSUME IInv, NEW d \in Deck, SnapshotFileFails(d) \/ PruneDone(d)
    PROVE  IInv'
<1>1. UNCHANGED <<records, files, export>>
  BY DEF SnapshotFileFails, PruneDone, recordVars, Unaffected, Elsewhere
<1>2. files \in [Deck -> Seq(Files)] /\ RequestInv(d)
  BY DEF IInv, RequestsType, RequestsInv
<1>3. CASE SnapshotFileFails(d)
  <2>1. Goto(d, "unretain") /\ "unretain" \in Steps \ {"release", "remove"}
    BY <1>3 DEF SnapshotFileFails, Steps, SnapshotSteps
  <2>. QED  BY <1>1, <1>2, <2>1, Unchanged, GoesOn DEF HoldsHead
<1>4. CASE PruneDone(d) /\ hist[d].target = NoSnapshot
  <2>1. Done(d)
    BY <1>4 DEF PruneDone
  <2>. QED  BY <1>1, <1>2, <2>1, Unchanged, Finishes
<1>5. CASE PruneDone(d) /\ hist[d].target # NoSnapshot
  <2>1. Goto(d, "forward") /\ hist[d].cur # NoHead /\ "forward" \in Steps \ {"release", "remove"}
    BY <1>2, <1>5 DEF PruneDone, At, RequestInv, HoldsHead, Steps, SnapshotSteps
  <2>. QED  BY <1>1, <1>2, <1>5, <2>1, Unchanged, GoesOn
<1>. QED  BY <1>3, <1>4, <1>5

\* The retained head of a snapshot is no deletion's.
LEMMA HistoryOwnerWrites ==
    ASSUME RecordsType, AuthorityInv, NEW d \in Deck, NEW s, NEW x \in Heads \cup {NoHead},
           retained' = [retained EXCEPT ![HistoryOwner(d, s)] = x],
           UNCHANGED <<heads, owned, epoch, commits>>
    PROVE  /\ RecordsType' /\ AuthorityInv'
           /\ \A e \in Deck : retained'[DeleteOwner(e)] = retained[DeleteOwner(e)]
<1>1. retained' \in [Owners -> Heads \cup {NoHead}]
  BY DEF RecordsType
<1>2. \A e \in Deck : retained'[DeleteOwner(e)] = retained[DeleteOwner(e)]
  BY OwnersApart DEF RecordsType
<1>. QED  BY <1>1, <1>2, OwnersChange

\* A request takes the history lock.
LEMMA Begins ==
    ASSUME IInv, NEW d \in Deck, NEW x \in Histories, hist' = [hist EXCEPT ![d] = x],
           UNCHANGED <<records, files, export>>,
           x.pc = "d.read" \/ (x.pc = "retain" /\ x.cur # NoHead /\ x.snap \in Snapshot)
    PROVE  IInv'
<1>1. /\ hist' \in [Deck -> Histories] /\ hist'[d] = x
      /\ \A e \in Deck \ {d} : hist'[e] = hist[e]
  BY DEF IInv, RequestsType
<1>2. RequestInv(d)'
  BY <1>1 DEF IInv, RequestsInv, RequestInv, HoldsHead
<1>. QED  BY <1>1, <1>2, Unchanged, HistStep DEF IInv, RequestsType

\* A snapshot, a restore or a deletion takes the history lock.
LEMMA RequestBegins ==
    ASSUME IInv, NEW d \in Deck,
           \/ \E s \in Snapshot : SnapshotBegin(d, s)
           \/ \E i \in DOMAIN files[d], s \in Snapshot : RestoreBegin(d, i, s)
           \/ DeleteBegin(d)
    PROVE  IInv'
<1>. DEFINE no == FALSE
<1>. DEFINE zero == 0
<1>. DEFINE saw == rows[d] # NoRow
<1>1. Idle = [pc |-> "idle", cur |-> NoHead, target |-> NoSnapshot, snap |-> NoSnapshot,
              pos |-> zero, gen |-> zero, saw |-> no, kept |-> no, attempt |-> zero]
  BY DEF Idle
<1>2. no \in BOOLEAN /\ saw \in BOOLEAN /\ zero \in Nat /\ zero \in 0 .. 2 /\ heads[d] \in Heads \cup {NoHead}
  BY DEF IInv, RecordsType
<1>3. UNCHANGED <<records, files, export>>
  BY DEF SnapshotBegin, RestoreBegin, DeleteBegin, recordVars, Unaffected, Elsewhere
<1>4. DeleteBegin(d) => hist' = [hist EXCEPT ![d] = [Idle EXCEPT !.pc = "d.read", !.saw = saw]]
  BY DEF DeleteBegin
<1>. HIDE DEF no, zero, saw
<1>5. CASE DeleteBegin(d)
  <2>. DEFINE x == [Idle EXCEPT !.pc = "d.read", !.saw = saw]
  <2>1. x \in Histories /\ x.pc = "d.read"
    BY <1>1, <1>2 DEF Histories, Steps, DeleteSteps
  <2>. QED  BY <1>3, <1>4, <1>5, <2>1, Begins
<1>6. ASSUME NEW s \in Snapshot, SnapshotBegin(d, s) PROVE IInv'
  <2>. DEFINE x == [Idle EXCEPT !.pc = "retain", !.cur = heads[d], !.snap = s]
  <2>1. x \in Histories /\ x.pc = "retain" /\ x.cur = heads[d] /\ x.snap = s
    BY <1>1, <1>2 DEF Histories, Steps, SnapshotSteps
  <2>2. hist' = [hist EXCEPT ![d] = x] /\ heads[d] # NoHead
    BY <1>6 DEF SnapshotBegin, CanSnapshot
  <2>. QED  BY <1>3, <2>1, <2>2, Begins
<1>7. ASSUME NEW i \in DOMAIN files[d], NEW s \in Snapshot, RestoreBegin(d, i, s) PROVE IInv'
  <2>. DEFINE t == files[d][i].id
  <2>. DEFINE x == [Idle EXCEPT !.pc = "retain", !.cur = heads[d], !.snap = s, !.target = t]
  <2>1. t \in Snapshot
    <3>1. files[d] \in Seq(Files)
      BY DEF IInv, RequestsType
    <3>2. files[d][i] \in Files
      BY <3>1, ElementOfSeq
    <3>. QED  BY <3>2 DEF Files
  <2>2. hist' = [hist EXCEPT ![d] = x] /\ heads[d] # NoHead
    BY <1>7 DEF RestoreBegin, CanSnapshot
  <2>. HIDE DEF t
  <2>3. x \in Histories /\ x.pc = "retain" /\ x.cur = heads[d] /\ x.snap = s
    BY <1>1, <1>2, <2>1 DEF Histories, Steps, SnapshotSteps
  <2>. QED  BY <1>3, <2>2, <2>3, Begins
<1>. QED  BY <1>5, <1>6, <1>7

\* A snapshot retains or releases its head.
LEMMA SnapshotOwners ==
    ASSUME IInv, NEW d \in Deck, RetainSnapshot(d) \/ UnretainSnapshot(d) \/ ReleaseSnapshot(d)
    PROVE  IInv'
<1>. DEFINE o == HistoryOwner(d, hist[d].snap)
<1>1. UNCHANGED <<heads, owned, epoch, commits, files, export>>
  BY DEF RetainSnapshot, UnretainSnapshot, ReleaseSnapshot, Retain, Release, StoreOnly, Unaffected, Elsewhere
<1>2. PICK x \in Heads \cup {NoHead} : retained' = [retained EXCEPT ![o] = x]
  BY DEF IInv, RecordsType, RetainSnapshot, UnretainSnapshot, ReleaseSnapshot, Retain, Release
<1>3. /\ RecordsType' /\ AuthorityInv' /\ files' \in [Deck -> Seq(Files)]
      /\ \A e \in Deck : retained'[DeleteOwner(e)] = retained[DeleteOwner(e)]
  BY <1>1, <1>2, HistoryOwnerWrites DEF IInv, RequestsType
<1>4. RequestInv(d)
  BY DEF IInv, RequestsInv
<1>5. CASE Done(d)
  BY <1>1, <1>3, <1>5, Finishes
<1>8. CASE RetainSnapshot(d) /\ Goto(d, "unretain")
  <2>1. "unretain" \in Steps \ {"release", "remove"} /\ "unretain" \notin HoldsHead
    BY DEF HoldsHead, Steps, SnapshotSteps
  <2>. QED  BY <1>1, <1>3, <1>8, <2>1, GoesOn
<1>6. CASE RetainSnapshot(d) /\ Goto(d, "write")
  <2>1. Goto(d, "write") /\ hist[d].cur # NoHead /\ hist[d].snap \in Snapshot
        /\ "write" \in Steps \ {"release", "remove"}
    BY <1>4, <1>6 DEF RetainSnapshot, At, RequestInv, HoldsHead, Steps, SnapshotSteps
  <2>. QED  BY <1>1, <1>3, <2>1, GoesOn
<1>7. CASE At(d, "release") /\ Goto(d, "prune")
  <2>1. hist[d].cur # NoHead /\ "prune" \in Steps \ {"release", "remove"}
    BY <1>4, <1>7 DEF At, RequestInv, HoldsHead, Steps, SnapshotSteps
  <2>. QED  BY <1>1, <1>3, <1>7, <2>1, GoesOn
<1>. QED  BY <1>5, <1>6, <1>7, <1>8 DEF RetainSnapshot, UnretainSnapshot, ReleaseSnapshot

\* The oldest of a set of positions.
LEMMA OldestExists ==
    ASSUME NEW T, T \subseteq Nat, T # {}
    PROVE  (CHOOSE i \in T : \A j \in T : i <= j) \in T
<1>. DEFINE less == {x \in Nat \X Nat : x[1] < x[2]}
<1>1. IsWellFoundedOn(less, Nat)
  BY NatLessThanWellFounded, Zenon DEF OpToRel
<1>2. PICK i \in T : \A j \in T : <<j, i>> \notin less
  <2>. HIDE DEF less
  <2>. QED  BY <1>1, WFMin, Zenon
<1>3. ASSUME NEW j \in T PROVE i <= j
  <2>. DEFINE x == <<j, i>>
  <2>1. j \in Nat /\ i \in Nat /\ x \in Nat \X Nat /\ x[1] = j /\ x[2] = i
    OBVIOUS
  <2>2. ~(x[1] < x[2])
    BY <1>2, <2>1
  <2>. QED  BY <2>1, <2>2
<1>. QED  BY <1>3

\* A snapshot is removed with its file first; the file may come back.
LEMMA FileRemoved ==
    ASSUME IInv, NEW d \in Deck, NEW i \in DOMAIN files[d], NEW step \in {"release", "remove"},
           RemoveFile(d, i, step), step = "release" => hist[d].cur # NoHead
    PROVE  IInv'
<1>. DEFINE f == files[d]
<1>1. f \in Seq(Files) /\ hist[d] \in Histories
  BY DEF IInv, RequestsType
<1>2. i \in 1 .. Len(f) /\ Len(f) \in Nat /\ \A j \in 1 .. Len(f) : f[j] \in Files
  BY <1>1, LenProperties, ElementOfSeq
<1>3. /\ SubSeq(f, 1, i - 1) \in Seq(Files) /\ Len(SubSeq(f, 1, i - 1)) = i - 1
      /\ SubSeq(f, i + 1, Len(f)) \in Seq(Files) /\ Len(SubSeq(f, i + 1, Len(f))) = Len(f) - i
  <2>. HIDE DEF f
  <2>1. \A j \in 1 .. i - 1 : f[j] \in Files
    BY <1>2
  <2>2. \A j \in i + 1 .. Len(f) : f[j] \in Files
    BY <1>2
  <2>3. 1 \in Int /\ i - 1 \in Int /\ i + 1 \in Int /\ Len(f) \in Int
    BY <1>2
  <2>4. SubSeq(f, 1, i - 1) \in Seq(Files) /\ Len(SubSeq(f, 1, i - 1)) = i - 1
    BY <1>2, <2>1, <2>3, SubSeqProperties
  <2>5. SubSeq(f, i + 1, Len(f)) \in Seq(Files) /\ Len(SubSeq(f, i + 1, Len(f))) = Len(f) - i
    BY <1>2, <2>2, <2>3, SubSeqProperties
  <2>. QED  BY <2>4, <2>5
<1>4. Without(d, i) \in Seq(Files) /\ Len(Without(d, i)) = Len(f) - 1
  <2>1. Without(d, i) = SubSeq(f, 1, i - 1) \o SubSeq(f, i + 1, Len(f))
    BY DEF Without
  <2>. HIDE DEF f
  <2>. QED  BY <1>2, <1>3, <2>1, ConcatProperties
<1>5. /\ files' \in [Deck -> Seq(Files)] /\ files'[d] = Without(d, i)
      /\ \A e \in Deck \ {d} : files'[e] = files[e]
  BY <1>4 DEF IInv, RequestsType, RemoveFile
<1>6. /\ hist' \in [Deck -> Histories] /\ \A e \in Deck \ {d} : hist'[e] = hist[e]
      /\ hist'[d].pc = step /\ hist'[d].cur = hist[d].cur
      /\ hist'[d].snap = f[i].id /\ hist'[d].pos = i /\ f[i].id \in Snapshot
  <2>. DEFINE s == f[i].id
  <2>. DEFINE g == f[i].gen
  <2>1. s \in Snapshot /\ g \in Nat /\ i \in Nat /\ step \in Steps
    BY <1>2 DEF Files, Steps, SnapshotSteps
  <2>2. hist' = [hist EXCEPT ![d].pc = step, ![d].snap = s, ![d].pos = i, ![d].gen = g]
    BY DEF RemoveFile
  <2>. HIDE DEF s, g
  <2>. DEFINE x == [hist[d] EXCEPT !.pc = step, !.snap = s, !.pos = i, !.gen = g]
  <2>3. /\ x \in Histories /\ x.pc = step /\ x.cur = hist[d].cur
        /\ x.snap = s /\ x.pos = i
    BY <1>1, <2>1 DEF Histories
  <2>4. hist' = [hist EXCEPT ![d] = x] /\ hist \in [Deck -> Histories]
    BY <2>2 DEF IInv, RequestsType
  <2>. HIDE DEF x
  <2>5. /\ hist' \in [Deck -> Histories] /\ \A e \in Deck \ {d} : hist'[e] = hist[e]
        /\ hist'[d] = x
    BY <2>3, <2>4
  <2>. QED  BY <2>1, <2>3, <2>5 DEF s
<1>7. UNCHANGED <<records, export>>
  BY DEF RemoveFile, recordVars, Unaffected, Elsewhere
<1>8. hist'[d].pos \in 1 .. Len(files'[d]) + 1
  BY <1>2, <1>4, <1>5, <1>6
<1>9. RequestInv(d)'
  BY <1>6, <1>7, <1>8 DEF IInv, RequestsInv, RequestInv, HoldsHead
<1>. QED  BY <1>5, <1>6, <1>7, <1>9, Unchanged, HistStep

\* The oldest snapshot is pruned, or one is removed on request.
LEMMA Removes ==
    ASSUME IInv, NEW d \in Deck, PruneOldest(d) \/ \E i \in DOMAIN files[d] : RemoveBegin(d, i)
    PROVE  IInv'
<1>1. CASE PruneOldest(d)
  <2>1. DOMAIN files[d] \subseteq Nat
    <3>1. files[d] \in Seq(Files)
      BY DEF IInv, RequestsType
    <3>. QED  BY <3>1
  <2>2. OldestPrunable(d) \in DOMAIN files[d]
    <3>1. Prunable(d) \subseteq DOMAIN files[d] /\ Prunable(d) # {}
      BY <1>1 DEF PruneOldest, Prunable
    <3>. QED  BY <2>1, <3>1, OldestExists DEF OldestPrunable
  <2>3. hist[d].cur # NoHead /\ RemoveFile(d, OldestPrunable(d), "release")
    BY <1>1 DEF PruneOldest, At, IInv, RequestsInv, RequestInv, HoldsHead
  <2>. QED  BY <2>2, <2>3, FileRemoved
<1>2. ASSUME NEW i \in DOMAIN files[d], RemoveBegin(d, i) PROVE IInv'
  BY <1>2, FileRemoved DEF RemoveBegin
<1>. QED  BY <1>1, <1>2

\* The file of a snapshot is written.
LEMMA FileWritten ==
    ASSUME IInv, NEW d \in Deck, WriteSnapshotFile(d)
    PROVE  IInv'
<1>. DEFINE no == FALSE
<1>. DEFINE x == [id |-> hist[d].snap, gen |-> hist[d].cur.gen, pending |-> no]
<1>1. hist[d].cur \in Heads /\ hist[d].snap \in Snapshot /\ hist[d].pc = "write"
  BY DEF IInv, RequestsType, RequestsInv, RequestInv, HoldsHead, Histories, WriteSnapshotFile, At
<1>2. x \in Files
  BY <1>1 DEF Files, Heads
<1>3. files' = [files EXCEPT ![d] = Append(@, x)]
  BY DEF WriteSnapshotFile
<1>. HIDE DEF x
<1>4. files' \in [Deck -> Seq(Files)] /\ \A e \in Deck \ {d} : files'[e] = files[e]
  BY <1>2, <1>3, AppendProperties DEF IInv, RequestsType
<1>5. Goto(d, "prune") /\ UNCHANGED <<records, export>> /\ hist[d].cur # NoHead
      /\ "prune" \in Steps \ {"release", "remove"}
  BY <1>1, HeadsOK DEF WriteSnapshotFile, recordVars, Unaffected, Elsewhere, Steps, SnapshotSteps
<1>. QED  BY <1>4, <1>5, Unchanged, GoesOn

\* A removed file comes back where it was.
LEMMA FileComesBack ==
    ASSUME IInv, NEW d \in Deck, ReleaseFails(d)
    PROVE  IInv'
<1>. DEFINE f == files[d]
<1>. DEFINE p == hist[d].pos
<1>. DEFINE yes == TRUE
<1>. DEFINE x == [id |-> hist[d].snap, gen |-> hist[d].gen, pending |-> yes]
<1>1. f \in Seq(Files) /\ hist[d] \in Histories /\ hist[d].snap \in Snapshot /\ p \in 1 .. Len(f) + 1
  BY DEF IInv, RequestsType, RequestsInv, RequestInv, ReleaseFails
<1>2. Len(f) \in Nat /\ \A j \in 1 .. Len(f) : f[j] \in Files
  BY <1>1, LenProperties, ElementOfSeq
<1>3. x \in Files
  BY <1>1 DEF Files, Histories
<1>4. files' = [files EXCEPT ![d] = SubSeq(@, 1, p - 1) \o <<x>> \o SubSeq(@, p, Len(@))]
  BY DEF ReleaseFails
<1>. HIDE DEF x, p
<1>5. SubSeq(f, 1, p - 1) \o <<x>> \o SubSeq(f, p, Len(f)) \in Seq(Files)
  <2>. HIDE DEF f
  <2>1. \A j \in 1 .. p - 1 : f[j] \in Files
    BY <1>1, <1>2
  <2>2. \A j \in p .. Len(f) : f[j] \in Files
    BY <1>1, <1>2
  <2>3. 1 \in Int /\ p - 1 \in Int /\ p \in Int /\ Len(f) \in Int
    BY <1>1, <1>2
  <2>4. SubSeq(f, 1, p - 1) \in Seq(Files) /\ SubSeq(f, p, Len(f)) \in Seq(Files)
    BY <2>1, <2>2, <2>3, SubSeqProperties
  <2>5. <<x>> \in Seq(Files)
    BY <1>3
  <2>. QED  BY <2>4, <2>5, ConcatProperties
<1>6. files' \in [Deck -> Seq(Files)] /\ \A e \in Deck \ {d} : files'[e] = files[e]
  BY <1>4, <1>5 DEF IInv, RequestsType
<1>7. Done(d) /\ UNCHANGED <<records, export>>
  BY DEF ReleaseFails, Unaffected, Elsewhere
<1>. QED  BY <1>6, <1>7, Unchanged, Finishes

\* A restore publishes the retained head as the next generation.
LEMMA Forwards ==
    ASSUME IInv, NEW d \in Deck, Forward(d)
    PROVE  IInv' /\ \A e \in Deck : heads'[e] = NoHead <=> heads[e] = NoHead
<1>. DEFINE o == HistoryOwner(d, hist[d].target)
<1>1. hist[d].cur # NoHead /\ hist[d].target \in Snapshot
  BY DEF IInv, RequestsType, Histories, RequestsInv, RequestInv, HoldsHead, Forward, At
<1>2. o \in Owners /\ RestoreForward(o, d) /\ heads[d] # NoHead /\ retained[o] # NoHead
  BY <1>1, OwnersApart DEF Forward, CanRestoreForward
<1>3. /\ RecordsType' /\ AuthorityInv' /\ UNCHANGED retained
      /\ \A e \in Deck : heads'[e] = NoHead <=> heads[e] = NoHead
  BY <1>2, Restores DEF IInv, RestoreForward
<1>4. /\ Goto(d, "drain") \/ Done(d)
      /\ UNCHANGED <<files, export>> /\ "drain" \in Steps \ {"release", "remove"}
  BY DEF Forward, StoreOnly, Unaffected, Elsewhere, Steps, SnapshotSteps
<1>. QED  BY <1>3, <1>4, GoesOn, Finishes DEF IInv, RequestsType, HoldsHead

-----------------------------------------------------------------------------
(* The permanent deletion *)

\* A deletion reads the head of its deck.
LEMMA DeleteReads ==
    ASSUME IInv, NEW d \in Deck, DeleteRead(d)
    PROVE  IInv'
<1>1. UNCHANGED <<records, files, export>> /\ files \in [Deck -> Seq(Files)]
  BY DEF DeleteRead, recordVars, Unaffected, Elsewhere, IInv, RequestsType
<1>2. CASE Done(d)
  BY <1>1, <1>2, Unchanged, Finishes
<1>3. CASE Goto(d, "d.splice")
  <2>1. "d.splice" \in Steps \ {"release", "remove"} /\ "d.splice" \notin HoldsHead
    BY DEF Steps, DeleteSteps, HoldsHead
  <2>. QED  BY <1>1, <1>3, <2>1, Unchanged, GoesOn
<1>4. CASE heads[d] # NoHead
  <2>1. hist' = [hist EXCEPT ![d].pc = "d.retain", ![d].cur = heads[d]]
    BY <1>4 DEF DeleteRead
  <2>2. /\ hist' \in [Deck -> Histories] /\ \A e \in Deck \ {d} : hist'[e] = hist[e]
        /\ hist'[d].pc = "d.retain" /\ hist'[d].cur = heads[d]
    <3>. DEFINE h == heads[d]
    <3>. DEFINE x == [hist[d] EXCEPT !.pc = "d.retain", !.cur = h]
    <3>1. "d.retain" \in Steps /\ h \in Heads \cup {NoHead} /\ hist[d] \in Histories
      BY DEF Steps, DeleteSteps, IInv, RecordsType, RequestsType
    <3>2. hist' = [hist EXCEPT ![d] = x] /\ hist \in [Deck -> Histories]
      BY <2>1 DEF IInv, RequestsType
    <3>. HIDE DEF h
    <3>3. x \in Histories /\ x.pc = "d.retain" /\ x.cur = h
      BY <3>1 DEF Histories
    <3>. HIDE DEF x
    <3>. QED  BY <3>2, <3>3 DEF h
  <2>3. RequestInv(d)'
    BY <1>1, <1>4, <2>2 DEF IInv, RequestsInv, RequestInv, HoldsHead
  <2>. QED  BY <1>1, <2>2, <2>3, Unchanged, HistStep
<1>. QED  BY <1>2, <1>3, <1>4 DEF DeleteRead

\* A deletion retains the head it read, or finds another one.
LEMMA DeleteRetains ==
    ASSUME IInv, NEW d \in Deck, DeleteRetain(d)
    PROVE  IInv'
<1>1. hist[d].cur # NoHead /\ files \in [Deck -> Seq(Files)] /\ RequestInv(d)
      /\ UNCHANGED <<files, export>>
  BY DEF IInv, RequestsType, RequestsInv, RequestInv, HoldsHead, DeleteRetain, At, StoreOnly, Unaffected, Elsewhere
<1>2. CASE heads[d] # hist[d].cur
  <2>1. Done(d) /\ UNCHANGED records
    BY <1>2 DEF DeleteRetain
  <2>. QED  BY <1>1, <2>1, Unchanged, Finishes
<1>3. CASE heads[d] = hist[d].cur
  <2>. DEFINE o == DeleteOwner(d)
  <2>. DEFINE yes == TRUE
  <2>1. retained' = [retained EXCEPT ![o] = heads[d]] /\ UNCHANGED <<heads, owned, epoch, commits>>
    BY <1>3 DEF DeleteRetain, Retain
  <2>2. /\ retained' \in [Owners -> Heads \cup {NoHead}] /\ retained'[o] = heads[d]
        /\ \A p \in Owners \ {o} : retained'[p] = retained[p]
    BY <2>1, OwnersApart DEF IInv, RecordsType
  <2>3. \A e \in Deck \ {d} : retained'[DeleteOwner(e)] = retained[DeleteOwner(e)]
    BY <2>2, OwnersApart
  <2>4. RecordsType' /\ AuthorityInv'
    BY <1>1, <1>3, <2>1, <2>2, <2>3, OwnersChange DEF IInv
  <2>9. CASE Done(d)
    BY <1>1, <2>3, <2>4, <2>9, Finishes
  <2>. SUFFICES ASSUME ~Done(d) PROVE IInv'
    BY <2>9
  <2>5. hist' = [hist EXCEPT ![d].pc = "d.quarantine", ![d].kept = yes]
    BY <1>3 DEF DeleteRetain
  <2>6. yes \in BOOLEAN /\ "d.quarantine" \in Steps
    BY DEF Steps, DeleteSteps
  <2>. HIDE DEF yes, o
  <2>7. /\ hist' \in [Deck -> Histories] /\ \A e \in Deck \ {d} : hist'[e] = hist[e]
        /\ hist'[d].pc = "d.quarantine" /\ hist'[d].cur = hist[d].cur
    <3>. DEFINE x == [hist[d] EXCEPT !.pc = "d.quarantine", !.kept = yes]
    <3>1. x \in Histories /\ x.pc = "d.quarantine" /\ x.cur = hist[d].cur
      BY <2>6 DEF IInv, RequestsType, Histories
    <3>2. hist' = [hist EXCEPT ![d] = x] /\ hist \in [Deck -> Histories]
      BY <2>5 DEF IInv, RequestsType
    <3>. HIDE DEF x
    <3>. QED  BY <3>1, <3>2
  <2>8. RequestInv(d)'
    BY <1>1, <1>3, <2>2, <2>7 DEF RequestInv, o
  <2>. QED  BY <1>1, <2>3, <2>4, <2>7, <2>8, HistStep
<1>. QED  BY <1>2, <1>3

\* A quarantine succeeds, or throws before or after it was committed.
LEMMA DeleteQuarantines ==
    ASSUME IInv, NEW d \in Deck, DeleteQuarantine(d) \/ DeleteQuarantineFails(d)
    PROVE  IInv'
<1>1. /\ hist[d].cur # NoHead /\ retained[DeleteOwner(d)] = hist[d].cur /\ heads[d] = hist[d].cur
      /\ files \in [Deck -> Seq(Files)] /\ RequestInv(d) /\ UNCHANGED <<files, export>>
  BY DEF IInv, RequestsType, RequestsInv, RequestInv, HoldsHead, DeleteQuarantine,
         DeleteQuarantineFails, At, StoreOnly, Unaffected, Elsewhere
<1>2. RecordsType' /\ AuthorityInv' /\ UNCHANGED retained
  <2>1. CASE Quarantine(d)
    BY <1>1, <2>1, Quarantines DEF IInv, Quarantine
  <2>2. CASE UNCHANGED records
    BY <2>2, Unchanged
  <2>. QED  BY <2>1, <2>2 DEF DeleteQuarantine, DeleteQuarantineFails
<1>3. CASE DeleteQuarantine(d)
  <2>1. Goto(d, "d.splice") /\ "d.splice" \in Steps \ {"release", "remove"} /\ "d.splice" \notin HoldsHead
    BY <1>3 DEF DeleteQuarantine, Steps, DeleteSteps, HoldsHead
  <2>. QED  BY <1>1, <1>2, <2>1, GoesOn
<1>4. CASE DeleteQuarantineFails(d)
  <2>. DEFINE one == 1
  <2>. DEFINE step == IF hist[d].attempt = 0 THEN hist[d].pc ELSE "d.undo"
  <2>1. hist[d] \in Histories /\ hist[d].pc = "d.quarantine"
    BY <1>4 DEF IInv, RequestsType, DeleteQuarantineFails, At
  <2>2. one \in 0 .. 2 /\ step \in Steps /\ step \in {"d.quarantine", "d.undo"}
    BY <2>1 DEF Steps, DeleteSteps
  <2>3. hist' = [hist EXCEPT ![d].attempt = one, ![d].pc = step]
    <3>1. hist' = [hist EXCEPT ![d].attempt = 1,
                       ![d].pc = IF hist[d].attempt = 0 THEN @ ELSE "d.undo"]
      BY <1>4 DEF DeleteQuarantineFails
    <3>2. hist \in [Deck -> Histories]
      BY DEF IInv, RequestsType
    <3>. QED  BY <2>1, <3>1, <3>2 DEF Histories
  <2>. HIDE DEF one, step
  <2>4. /\ hist' \in [Deck -> Histories] /\ \A e \in Deck \ {d} : hist'[e] = hist[e]
        /\ hist'[d].pc = step /\ hist'[d].cur = hist[d].cur
    <3>. DEFINE x == [hist[d] EXCEPT !.attempt = one, !.pc = step]
    <3>1. x \in Histories /\ x.pc = step /\ x.cur = hist[d].cur
      BY <2>1, <2>2 DEF Histories
    <3>2. hist' = [hist EXCEPT ![d] = x] /\ hist \in [Deck -> Histories]
      BY <2>3 DEF IInv, RequestsType
    <3>. HIDE DEF x
    <3>. QED  BY <3>1, <3>2
  <2>5. RequestInv(d)'
    BY <1>1, <1>2, <2>2, <2>4 DEF RequestInv, HoldsHead
  <2>. QED  BY <1>1, <1>2, <2>4, <2>5, HistStep
<1>. QED  BY <1>3, <1>4

\* Steps of a deletion that leave the records alone.
LEMMA DeleteMoves ==
    ASSUME IInv, NEW d \in Deck,
           \/ DeleteQuarantineStale(d) \/ DeleteSplice(d) \/ DeleteSpliceFails(d) \/ DeleteCheck(d)
    PROVE  IInv'
<1>1. UNCHANGED <<records, files, export>> /\ files \in [Deck -> Seq(Files)] /\ RequestInv(d)
  BY DEF DeleteQuarantineStale, DeleteSplice, DeleteSpliceFails, DeleteCheck, recordVars, Unaffected, Elsewhere,
         IInv, RequestsType, RequestsInv
<1>2. CASE Done(d)
  BY <1>1, <1>2, Unchanged, Finishes
<1>3. ASSUME NEW step \in {"d.splice", "d.stale", "d.check", "d.owners"}, Goto(d, step)
      PROVE  IInv'
  <2>1. step \in Steps \ {"release", "remove"} /\ step \notin HoldsHead
        /\ step \notin {"forward", "d.quarantine", "retain", "write"}
    BY DEF Steps, DeleteSteps, HoldsHead
  <2>. QED  BY <1>1, <1>3, <2>1, Unchanged, GoesOn
<1>4. CASE hist' = [hist EXCEPT ![d].pc = "d.undo", ![d].attempt = 2]
  <2>. DEFINE two == 2
  <2>. DEFINE x == [hist[d] EXCEPT !.pc = "d.undo", !.attempt = two]
  <2>1. hist \in [Deck -> Histories] /\ hist[d] \in Histories /\ two \in 0 .. 2 /\ "d.undo" \in Steps
    BY DEF IInv, RequestsType, Steps, DeleteSteps
  <2>2. hist' = [hist EXCEPT ![d] = x]
    BY <1>4, <2>1
  <2>. HIDE DEF two
  <2>3. x \in Histories /\ x.pc = "d.undo"
    BY <2>1 DEF Histories
  <2>. HIDE DEF x
  <2>4. hist' \in [Deck -> Histories] /\ hist'[d] = x /\ \A e \in Deck \ {d} : hist'[e] = hist[e]
    BY <2>1, <2>2, <2>3
  <2>5. RequestInv(d)'
    BY <1>1, <2>3, <2>4 DEF RequestInv, HoldsHead
  <2>. QED  BY <1>1, <2>4, <2>5, Unchanged, HistStep
<1>5. CASE DeleteQuarantineStale(d)
  BY <1>3, <1>5 DEF DeleteQuarantineStale
<1>6. CASE DeleteSplice(d)
  BY <1>3, <1>6 DEF DeleteSplice
<1>7. CASE DeleteSpliceFails(d)
  BY <1>2, <1>4, <1>7 DEF DeleteSpliceFails
<1>8. CASE DeleteCheck(d)
  BY <1>2, <1>3, <1>4, <1>8 DEF DeleteCheck
<1>. QED  BY <1>5, <1>6, <1>7, <1>8

\* A deletion releases its owner.
LEMMA DeleteReleases ==
    ASSUME IInv, NEW d \in Deck, DeleteStale(d) \/ DeleteUndoRelease(d) \/ DeleteRelease(d)
    PROVE  IInv'
<1>1. Release(DeleteOwner(d)) /\ UNCHANGED <<files, export>> /\ files \in [Deck -> Seq(Files)]
  BY DEF DeleteStale, DeleteUndoRelease, DeleteRelease, StoreOnly, Unaffected, Elsewhere, IInv, RequestsType
<1>2. /\ RecordsType' /\ AuthorityInv'
      /\ \A e \in Deck \ {d} : retained'[DeleteOwner(e)] = retained[DeleteOwner(e)]
  BY <1>1, Releases, OwnersApart DEF IInv
<1>3. CASE Done(d)
  BY <1>1, <1>2, <1>3, Finishes
<1>4. ASSUME NEW step \in {"d.undoDrain", "d.files"}, Goto(d, step)
      PROVE  IInv'
  <2>1. step \in Steps \ {"release", "remove"} /\ step \notin HoldsHead
        /\ step \notin {"forward", "d.quarantine", "retain", "write"}
    BY DEF Steps, DeleteSteps, HoldsHead
  <2>. QED  BY <1>1, <1>2, <1>4, <2>1, GoesOn
<1>. QED  BY <1>3, <1>4 DEF DeleteStale, DeleteUndoRelease, DeleteRelease

\* A deletion releases the snapshots and removes their files.
LEMMA DeleteFinishes ==
    ASSUME IInv, NEW d \in Deck, DeleteOwners(d) \/ DeleteFiles(d)
    PROVE  IInv'
<1>1. UNCHANGED export /\ files \in [Deck -> Seq(Files)] /\ RequestInv(d)
  BY DEF DeleteOwners, DeleteFiles, Unaffected, Elsewhere, IInv, RequestsType, RequestsInv
<1>2. /\ "d.release" \in Steps \ {"release", "remove"} /\ "d.drain" \in Steps \ {"release", "remove"}
      /\ "d.release" \notin HoldsHead /\ "d.drain" \notin HoldsHead
  BY DEF Steps, DeleteSteps, HoldsHead
<1>3. CASE DeleteFiles(d)
  <2>1. files' = [files EXCEPT ![d] = <<>>] /\ UNCHANGED records /\ Goto(d, "d.drain")
    BY <1>3 DEF DeleteFiles, recordVars
  <2>2. files' \in [Deck -> Seq(Files)] /\ \A e \in Deck \ {d} : files'[e] = files[e]
    BY <1>1, <2>1
  <2>. QED  BY <1>1, <1>2, <2>1, <2>2, Unchanged, GoesOn
<1>4. CASE DeleteOwners(d) /\ HistoryOwnersOf(d) = {}
  <2>1. UNCHANGED <<records, files>> /\ Goto(d, "d.release")
    BY <1>4 DEF DeleteOwners, StoreOnly
  <2>. QED  BY <1>1, <1>2, <2>1, Unchanged, GoesOn
<1>5. CASE DeleteOwners(d) /\ HistoryOwnersOf(d) # {}
  <2>1. UNCHANGED <<hist, files>> /\ hist \in [Deck -> Histories] /\ At(d, "d.owners")
    BY <1>5 DEF DeleteOwners, StoreOnly, IInv, RequestsType
  <2>2. PICK s \in Snapshot : Release(HistoryOwner(d, s))
    BY <1>5 DEF DeleteOwners, HistoryOwnersOf
  <2>3. /\ RecordsType' /\ AuthorityInv'
        /\ \A e \in Deck : retained'[DeleteOwner(e)] = retained[DeleteOwner(e)]
    BY <2>2, HistoryOwnerWrites DEF IInv, Release
  <2>4. RequestInv(d)'
    BY <1>1, <2>1 DEF RequestInv, HoldsHead, At
  <2>. QED  BY <1>1, <2>1, <2>3, <2>4, HistStep
<1>. QED  BY <1>3, <1>4, <1>5

\* The compensation pushes the head that the deletion retained.
LEMMA DeleteUndoes ==
    ASSUME IInv, NEW d \in Deck, DeleteUndo(d)
    PROVE  IInv'
<1>1. UNCHANGED <<files, export>> /\ files \in [Deck -> Seq(Files)]
      /\ "d.undoRelease" \in Steps \ {"release", "remove"} /\ "d.undoRelease" \notin HoldsHead
      /\ Goto(d, "d.undoRelease")
  BY DEF DeleteUndo, StoreOnly, Unaffected, Elsewhere, IInv, RequestsType, Steps, DeleteSteps, HoldsHead
<1>2. RecordsType' /\ AuthorityInv' /\ UNCHANGED retained
  <2>1. CASE UNCHANGED records
    BY <2>1, Unchanged
  <2>2. ASSUME CanRestoreQuarantined(DeleteOwner(d), d), RestoreQuarantined(DeleteOwner(d), d)
        PROVE  RecordsType' /\ AuthorityInv' /\ UNCHANGED retained
    <3>. DEFINE h == retained[DeleteOwner(d)]
    <3>1. h \in Heads /\ h.epoch = epoch /\ heads[d] = NoHead /\ h # NoHead
      BY <2>2, OwnersApart DEF CanRestoreQuarantined, IInv, RecordsType
    <3>2. Newest(h, d)
      BY <3>1 DEF IInv, AuthorityInv
    <3>3. /\ SetHead(d, h) /\ UNCHANGED <<retained, epoch>>
          /\ owned' = [owned EXCEPT ![d] = RevisionsOf(h)]
      BY <2>2 DEF RestoreQuarantined
    <3>4. RevisionsOf(h) \subseteq Revisions
      BY <3>1 DEF RevisionsOf, Heads
    <3>. HIDE DEF h
    <3>5. /\ owned' \in [Deck -> SUBSET Revisions] /\ RevisionsOf(h) \subseteq owned'[d]
          /\ \A e \in Deck \ {d} : owned'[e] = owned[e]
      BY <3>3, <3>4 DEF IInv, RecordsType
    <3>. QED  BY <3>1, <3>2, <3>3, <3>5, NewHead DEF IInv
  <2>. QED  BY <2>1, <2>2 DEF DeleteUndo
<1>. QED  BY <1>1, <1>2, GoesOn

-----------------------------------------------------------------------------
(* Crashes, the first state, and every step *)

\* A crash forgets the requests and keeps the records.
LEMMA Crashes ==
    ASSUME IInv, Crash
    PROVE  IInv'
<1>. DEFINE no == FALSE
<1>. DEFINE zero == 0
<1>1. Idle = [pc |-> "idle", cur |-> NoHead, target |-> NoSnapshot, snap |-> NoSnapshot,
              pos |-> zero, gen |-> zero, saw |-> no, kept |-> no, attempt |-> zero]
  BY DEF Idle
<1>2. no \in BOOLEAN /\ zero \in Nat /\ zero \in 0 .. 2
  OBVIOUS
<1>. HIDE DEF no, zero
<1>3. Idle \in Histories /\ Idle.pc = "idle" /\ NoExport \in Exports /\ NoExport.pc = "idle"
  BY <1>1, <1>2 DEF Histories, Steps, NoExport, Exports
<1>4. hist' = [d \in Deck |-> Idle] /\ export' = [d \in Deck |-> NoExport] /\ UNCHANGED <<records, files>>
  BY DEF Crash
<1>5. RequestsType'
  BY <1>3, <1>4 DEF IInv, RequestsType
<1>6. RequestsInv'
  BY <1>3, <1>4 DEF RequestsInv, RequestInv, HoldsHead
<1>. QED  BY <1>4, <1>5, <1>6, Unchanged DEF IInv

\* The first state.
LEMMA Starts ==
    ASSUME Init
    PROVE  IInv
<1>. DEFINE no == FALSE
<1>. DEFINE zero == 0
<1>. DEFINE one == 1
<1>. DEFINE b0 == CHOOSE b \in Body : TRUE
<1>. DEFINE h == FirstHead(b0)
<1>. DEFINE r == [ord |-> zero, body |-> b0]
<1>1. /\ Idle = [pc |-> "idle", cur |-> NoHead, target |-> NoSnapshot, snap |-> NoSnapshot,
                 pos |-> zero, gen |-> zero, saw |-> no, kept |-> no, attempt |-> zero]
      /\ h = [gen |-> one, body |-> b0, pkg |-> r, original |-> r,
              edits |-> zero, journal |-> "null", epoch |-> one]
  BY DEF Idle, FirstHead
<1>2. no \in BOOLEAN /\ zero \in Nat /\ zero \in 0 .. 2 /\ one \in Nat \ {0} /\ b0 \in Body
  BY HeadsOK
<1>3. /\ heads = [d \in Deck |-> IF d \in Imported THEN h ELSE NoHead]
      /\ owned = [d \in Deck |-> IF d \in Imported THEN RevisionsOf(heads[d]) ELSE {}]
      /\ retained = [o \in Owners |-> NoHead] /\ epoch = one
      /\ commits = [d \in Deck |-> IF d \in Imported THEN {[gen |-> one, body |-> heads[d].body]} ELSE {}]
      /\ files = [d \in Deck |-> <<>>] /\ hist = [d \in Deck |-> Idle]
      /\ export = [d \in Deck |-> NoExport]
  BY DEF Init
<1>. HIDE DEF no, zero, one, b0, h
<1>4. /\ Idle \in Histories /\ Idle.pc = "idle" /\ NoExport \in Exports /\ NoExport.pc = "idle"
  BY <1>1, <1>2 DEF Histories, Steps, NoExport, Exports
<1>5. r \in Revisions
  BY <1>2 DEF Revisions
<1>. HIDE DEF r
<1>6. /\ h \in Heads /\ h # NoHead /\ h.gen = one /\ h.epoch = one /\ h.body = b0
      /\ RevisionsOf(h) \subseteq Revisions
      /\ CommitOf(h) = [gen |-> one, body |-> b0] /\ CommitOf(h) \in Commits
      /\ CommitOf(h).gen = one
  BY <1>1, <1>2, <1>5, HeadsOK DEF Heads, RevisionsOf, CommitOf, Commits
<1>7. \A d \in Deck :
        /\ d \in Imported => heads[d] = h /\ owned[d] = RevisionsOf(h) /\ commits[d] = {CommitOf(h)}
        /\ d \notin Imported => heads[d] = NoHead /\ owned[d] = {} /\ commits[d] = {}
  BY <1>3, <1>6
<1>8. RecordsType
  <2>1. owned \in [Deck -> SUBSET Revisions] /\ commits \in [Deck -> SUBSET Commits]
    BY <1>3, <1>6, <1>7
  <2>. QED  BY <1>2, <1>3, <1>6, <2>1 DEF RecordsType
<1>9. RequestsType /\ RequestsInv
  BY <1>3, <1>4 DEF RequestsType, RequestsInv, RequestInv, HoldsHead
<1>10. \A d \in Deck : retained[DeleteOwner(d)] = NoHead
  BY <1>3, OwnersApart
<1>11. one <= one
  BY <1>2
<1>12. AuthorityInv
  BY <1>3, <1>6, <1>7, <1>10, <1>11 DEF AuthorityInv, Newest
<1>. QED  BY <1>8, <1>9, <1>12 DEF IInv

\* The invariant holds in every state of every behaviour.
LEMMA Invariance == Spec => []IInv
<1>1. Init => IInv
  BY Starts
<1>2. IInv /\ [Next]_vars => IInv'
  <2>. SUFFICES ASSUME IInv, [Next]_vars PROVE IInv'
    OBVIOUS
  <2>1. CASE UNCHANGED vars
    BY <2>1, Idles DEF vars, recordVars, requests
  <2>2. ASSUME NEW d \in Deck, Begin(d) PROVE IInv'
    BY <2>2, SaveKeeps, ExportMoves, RequestBegins, Removes DEF Begin
  <2>3. ASSUME NEW d \in Deck, SaveStep(d) \/ ExportStep(d) PROVE IInv'
    BY <2>3, DrainSteps, ExportMoves, ExportCommits DEF SaveStep, ExportStep
  <2>4. ASSUME NEW d \in Deck, SnapshotStep(d) PROVE IInv'
    BY <2>4, SnapshotOwners, Answers, FileWritten, Removes, SnapshotMoves, Forwards DEF SnapshotStep
  <2>5. ASSUME NEW d \in Deck, DeleteStep(d) PROVE IInv'
    BY <2>5, DeleteReads, DeleteRetains, DeleteQuarantines, DeleteMoves, DeleteReleases,
       DeleteUndoes, DeleteFinishes, Answers DEF DeleteStep
  <2>6. ASSUME NEW d \in Deck, Failures(d) PROVE IInv'
    BY <2>6, ExportMoves, SnapshotMoves, FileComesBack, DeleteQuarantines, DeleteMoves DEF Failures
  <2>7. CASE Apply \/ Restart
    BY <2>7, DrainSteps
  <2>8. CASE Crash
    BY <2>8, Crashes
  <2>. QED  BY <2>1, <2>2, <2>3, <2>4, <2>5, <2>6, <2>7, <2>8, DrainSteps DEF Next, HistoryStep
<1>. QED  BY <1>1, <1>2, PTL DEF Spec

-----------------------------------------------------------------------------
(* The authority pointers of a head *)

\* A head on the imported package with nothing pending has no journal, and a
\* materialized package comes after the imported one.
Sound(h) ==
    /\ h.original.ord <= h.pkg.ord
    /\ h.edits = 0 /\ h.pkg = h.original => h.journal = "null"

PointersInv ==
    /\ \A d \in Deck : heads[d] # NoHead => Sound(heads[d])
    /\ \A o \in Owners : retained[o] # NoHead => Sound(retained[o])

\* An owner retains the head of a deck, or lets go of one.
LEMMA OwnersKeepPointers ==
    ASSUME IInv, PointersInv, NEW o, NEW x, x = NoHead \/ \E d \in Deck : x = heads[d],
           retained' = [retained EXCEPT ![o] = x], UNCHANGED heads
    PROVE  PointersInv'
<1>1. x # NoHead => Sound(x)
  BY DEF PointersInv
<1>2. \A p \in Owners : retained'[p] \in {retained[p], x}
  BY DEF IInv, RecordsType
<1>. QED  BY <1>1, <1>2 DEF PointersInv

\* A deck gets a head, or loses it.
LEMMA HeadKeepsPointers ==
    ASSUME IInv, PointersInv, NEW d \in Deck, NEW h, h # NoHead => Sound(h),
           heads' = [heads EXCEPT ![d] = h], UNCHANGED retained
    PROVE  PointersInv'
<1>1. \A e \in Deck : heads'[e] \in {heads[e], h}
  BY DEF IInv, RecordsType
<1>. QED  BY <1>1 DEF PointersInv

\* A save leaves an edit pending.
LEMMA SaveKeepsPointers ==
    ASSUME IInv, PointersInv, NEW d \in Deck, NEW b \in Body, Save(d, b)
    PROVE  PointersInv'
<1>. DEFINE next == heads[d].gen + 1
<1>. DEFINE count == IF heads[d].edits = 0 THEN 1 ELSE 2
<1>. DEFINE h == [heads[d] EXCEPT !.gen = next, !.body = b, !.epoch = epoch,
                                  !.edits = count, !.journal = "set"]
<1>1. heads[d] \in Heads /\ Sound(heads[d]) /\ count # 0
  BY DEF Save, IInv, RecordsType, PointersInv
<1>2. heads' = [heads EXCEPT ![d] = h] /\ UNCHANGED retained
  BY DEF Save, SetHead
<1>. HIDE DEF next, count
<1>3. h.edits = count /\ h.pkg = heads[d].pkg /\ h.original = heads[d].original
  BY <1>1 DEF Heads
<1>. HIDE DEF h
<1>4. Sound(h)
  BY <1>1, <1>3 DEF Sound
<1>. QED  BY <1>2, <1>4, HeadKeepsPointers

\* An export settles the journal, or puts another package in place.
LEMMA ExportKeepsPointers ==
    ASSUME IInv, PointersInv, NEW d \in Deck, ExportCommit(d)
    PROVE  PointersInv'
<1>. DEFINE h == heads[d]
<1>1. h = export[d].head /\ h \in Heads /\ Sound(h) /\ UNCHANGED retained
  BY DEF ExportCommit, SameHead, IInv, RequestsType, RequestsInv, RequestInv, RecordsType, PointersInv
<1>2. h.pkg.ord \in Nat /\ h.original.ord \in Nat /\ h.original.ord <= h.pkg.ord
  BY <1>1 DEF Heads, Revisions, Sound
<1>3. CASE h.body = h.pkg.body
  <2>. DEFINE zero == 0
  <2>. DEFINE journal == JournalAfter(h)
  <2>. DEFINE k == [h EXCEPT !.edits = zero, !.journal = journal]
  <2>1. heads' = [heads EXCEPT ![d] = k]
    BY <1>1, <1>3 DEF ExportCommit, SetHead
  <2>. HIDE DEF zero, journal
  <2>2. k.pkg = h.pkg /\ k.original = h.original /\ k.journal = journal
    BY <1>1 DEF Heads
  <2>. HIDE DEF k
  <2>3. Sound(k)
    BY <1>2, <2>2 DEF Sound, JournalAfter, journal
  <2>. QED  BY <1>1, <2>1, <2>3, HeadKeepsPointers
<1>4. CASE h.body # h.pkg.body
  <2>. DEFINE zero == 0
  <2>. DEFINE gen == h.gen + 1
  <2>. DEFINE ord == h.pkg.ord + 1
  <2>. DEFINE r == [ord |-> ord, body |-> h.body]
  <2>. DEFINE k == [h EXCEPT !.gen = gen, !.pkg = r, !.edits = zero, !.journal = "set",
                             !.epoch = epoch]
  <2>1. heads' = [heads EXCEPT ![d] = k]
    BY <1>1, <1>4 DEF ExportCommit, SetHead
  <2>2. r.ord = ord /\ h.original.ord <= ord /\ h.original.ord # ord
    BY <1>2
  <2>. HIDE DEF zero, gen, r
  <2>3. k.pkg = r /\ k.original = h.original
    BY <1>1 DEF Heads
  <2>. HIDE DEF k, ord
  <2>4. Sound(k)
    BY <2>2, <2>3 DEF Sound
  <2>. QED  BY <1>1, <2>1, <2>4, HeadKeepsPointers
<1>. QED  BY <1>3, <1>4

\* A restore drops the journal of a head that is back on the imported package.
LEMMA ForwardKeepsPointers ==
    ASSUME IInv, PointersInv, NEW d \in Deck, Forward(d)
    PROVE  PointersInv'
<1>. DEFINE o == HistoryOwner(d, hist[d].target)
<1>. DEFINE next == epoch + 1
<1>. DEFINE gen == heads[d].gen + 1
<1>. DEFINE journal == JournalAfter(retained[o])
<1>. DEFINE h == [retained[o] EXCEPT !.gen = gen, !.epoch = next, !.journal = journal]
<1>. DEFINE moved(e) == [heads[e] EXCEPT !.epoch = next]
<1>1. o \in Owners /\ retained[o] # NoHead /\ UNCHANGED retained
      /\ heads' = [e \in Deck |-> IF e = d THEN h ELSE IF heads[e] = NoHead THEN NoHead ELSE moved(e)]
  <2>1. hist[d].target \in Snapshot
    BY DEF IInv, RequestsType, Histories, RequestsInv, RequestInv, Forward, At
  <2>. QED  BY <2>1, OwnersApart DEF Forward, CanRestoreForward, RestoreForward
<1>2. retained[o] \in Heads /\ Sound(retained[o])
  BY <1>1 DEF IInv, RecordsType, PointersInv
<1>. HIDE DEF next, gen, o
<1>3. h.pkg = retained[o].pkg /\ h.original = retained[o].original /\ h.journal = journal
  BY <1>2 DEF Heads
<1>4. ASSUME NEW e \in Deck, heads[e] # NoHead
      PROVE  Sound(moved(e))
  <2>1. heads[e] \in Heads /\ Sound(heads[e])
    BY <1>4 DEF IInv, RecordsType, PointersInv
  <2>2. /\ moved(e).pkg = heads[e].pkg /\ moved(e).original = heads[e].original
        /\ moved(e).edits = heads[e].edits /\ moved(e).journal = heads[e].journal
    BY <2>1 DEF Heads
  <2>. HIDE DEF moved
  <2>. QED  BY <2>1, <2>2 DEF Sound
<1>. HIDE DEF h, moved
<1>5. Sound(h)
  BY <1>2, <1>3 DEF Sound, JournalAfter, journal
<1>. QED  BY <1>1, <1>4, <1>5 DEF PointersInv

\* Every step keeps the pointers.
LEMMA PointersInvariance == Spec => []PointersInv
<1>1. Init => PointersInv
  <2>. SUFFICES ASSUME Init PROVE PointersInv
    OBVIOUS
  <2>. DEFINE h == FirstHead(CHOOSE b \in Body : TRUE)
  <2>1. /\ \A d \in Deck : heads[d] \in {h, NoHead}
        /\ \A o \in Owners : retained[o] = NoHead
    BY DEF Init
  <2>2. h.pkg = h.original /\ h.original.ord = 0 /\ h.journal = "null"
    BY DEF FirstHead
  <2>. HIDE DEF h
  <2>3. Sound(h)
    BY <2>2 DEF Sound
  <2>. QED  BY <2>1, <2>3 DEF PointersInv
<1>2. IInv /\ PointersInv /\ [Next]_vars => PointersInv'
  <2>. SUFFICES ASSUME IInv, PointersInv, [Next]_vars PROVE PointersInv'
    OBVIOUS
  <2>0. CASE UNCHANGED records
    BY <2>0 DEF records, PointersInv
  <2>1. CASE UNCHANGED vars
    BY <2>0, <2>1 DEF vars, recordVars
  <2>2. ASSUME NEW d \in Deck, Begin(d) PROVE PointersInv'
    BY <2>0, <2>2, SaveKeepsPointers
       DEF Begin, ExportBegin, DeleteBegin, SnapshotBegin, RestoreBegin, RemoveBegin, RemoveFile,
           recordVars
  <2>3. ASSUME NEW d \in Deck, SaveStep(d) \/ ExportStep(d) \/ HistoryDrain(d) PROVE PointersInv'
    BY <2>0, <2>3, ExportKeepsPointers
       DEF SaveStep, SaveDrain, SaveReturns, ExportStep, ExportDrain, ExportReturns, HistoryDrain,
           BeginsDrain, DrainBegin, DrainEnd, DrainFails
  <2>4. ASSUME NEW d \in Deck, SnapshotStep(d) PROVE PointersInv'
    <3>1. CASE RetainSnapshot(d) \/ UnretainSnapshot(d) \/ ReleaseSnapshot(d)
      BY <3>1, OwnersKeepPointers DEF RetainSnapshot, UnretainSnapshot, ReleaseSnapshot, Retain, Release
    <3>2. CASE \/ RetainRefused(d) \/ WriteSnapshotFile(d) \/ PruneOldest(d) \/ PruneDone(d)
               \/ ForwardRefused(d) \/ RestoreReturns(d)
      BY <2>0, <3>2 DEF RetainRefused, WriteSnapshotFile, PruneOldest, RemoveFile, PruneDone,
                        ForwardRefused, RestoreReturns, DrainEnd, DrainFails, recordVars
    <3>. QED  BY <2>4, <3>1, <3>2, ForwardKeepsPointers DEF SnapshotStep
  <2>5. ASSUME NEW d \in Deck, Quarantine(d) PROVE PointersInv'
    BY <2>5, HeadKeepsPointers DEF Quarantine
  <2>6. ASSUME NEW d \in Deck, DeleteStep(d) PROVE PointersInv'
    <3>1. CASE DeleteRetain(d) \/ DeleteStale(d) \/ DeleteUndoRelease(d) \/ DeleteRelease(d)
      BY <2>0, <3>1, OwnersKeepPointers
         DEF DeleteRetain, DeleteStale, DeleteUndoRelease, DeleteRelease, Retain, Release
    <3>2. CASE DeleteQuarantine(d)
      BY <2>5, <3>2 DEF DeleteQuarantine
    <3>3. CASE DeleteOwners(d)
      BY <2>0, <3>3, OwnersKeepPointers DEF DeleteOwners, Release
    <3>4. CASE DeleteUndo(d)
      <4>1. CASE UNCHANGED records
        BY <2>0, <4>1
      <4>2. CASE CanRestoreQuarantined(DeleteOwner(d), d) /\ RestoreQuarantined(DeleteOwner(d), d)
        <5>. DEFINE h == retained[DeleteOwner(d)]
        <5>1. h # NoHead => Sound(h)
          BY OwnersApart DEF PointersInv
        <5>2. heads' = [heads EXCEPT ![d] = h] /\ UNCHANGED retained
          BY <4>2 DEF RestoreQuarantined, SetHead
        <5>. HIDE DEF h
        <5>. QED  BY <5>1, <5>2, HeadKeepsPointers
      <4>. QED  BY <3>4, <4>1, <4>2 DEF DeleteUndo
    <3>5. CASE \/ DeleteRead(d) \/ DeleteQuarantineStale(d) \/ DeleteSplice(d) \/ DeleteCheck(d)
               \/ DeleteUndoFails(d) \/ UndoReturns(d) \/ DeleteFiles(d) \/ DeleteReturns(d)
      BY <2>0, <3>5 DEF DeleteRead, DeleteQuarantineStale, DeleteSplice, DeleteCheck, DeleteUndoFails,
                        UndoReturns, DeleteFiles, DeleteReturns, DrainEnd, DrainFails, recordVars
    <3>. QED  BY <2>6, <3>1, <3>2, <3>3, <3>4, <3>5 DEF DeleteStep
  <2>7. ASSUME NEW d \in Deck, Failures(d) PROVE PointersInv'
    BY <2>0, <2>5, <2>7 DEF Failures, ExportRefused, SnapshotFileFails, ReleaseFails,
                            DeleteQuarantineFails, DeleteSpliceFails, recordVars
  <2>8. CASE Apply \/ Restart \/ Crash
    BY <2>0, <2>8 DEF Apply, DrainApply, DrainAcknowledge, Restart, RestartDrain, RestartReady, Crash,
                      BeginsDrain, DrainBegin, DrainEnd, DrainFails
  <2>. QED  BY <2>1, <2>2, <2>3, <2>4, <2>6, <2>7, <2>8 DEF Next, HistoryStep
<1>. QED  BY <1>1, <1>2, Invariance, PTL DEF Spec

\* An export, a restore or a compensation that worked on a stale head never
\* overwrites what was published, and no generation has two contents.
THEOREM HeadsAreNeverOverwritten == Spec => []NoCommitIsOverwritten
<1>1. IInv => NoCommitIsOverwritten
  BY DEF IInv, AuthorityInv, Newest, NoCommitIsOverwritten
<1>. QED  BY <1>1, Invariance, PTL

\* Every head owns the revisions it needs and carries the authority epoch of the
\* state, although the restore of one deck moves it for all of them; and with nothing
\* pending on the imported package it can be read.
THEOREM HeadsStayServable == Spec => []HeadsAreServable
<1>1. IInv /\ PointersInv => HeadsAreServable
  BY DEF IInv, AuthorityInv, PointersInv, Sound, HeadsAreServable, Readable, HasAuthority
<1>. QED  BY <1>1, Invariance, PointersInvariance, PTL

-----------------------------------------------------------------------------
(* Snapshots: the inductive invariant *)

\* The deck has its head, or the deletion that took it can still put it back.
Recoverable(d) ==
    \/ heads[d] # NoHead
    \/ hist[d].pc \in {"d.quarantine", "d.splice", "d.check", "d.undo"} /\ hist[d].kept = TRUE

Distinct(d) ==
    \A i, j \in DOMAIN files[d] : files[d][i].id = files[d][j].id => i = j

Backs(h, f) == f.pending = FALSE => h # NoHead /\ h.gen = f.gen /\ Presentable(h)

Backed(d) ==
    Recoverable(d) =>
        \A i \in DOMAIN files[d] : Backs(retained[HistoryOwner(d, files[d][i].id)], files[d][i])

\* The snapshot a request works on is no file yet, or no longer.
InHand == {"retain", "write", "unretain", "release", "remove"}

Unfiled(d) ==
    /\ hist[d].pc \in InHand => \A i \in DOMAIN files[d] : files[d][i].id # hist[d].snap
    /\ hist[d].pc = "write" => retained[HistoryOwner(d, hist[d].snap)] = hist[d].cur
    /\ hist[d].pc \in {"retain", "write"} => Presentable(hist[d].cur)

Targeted(d) ==
    hist[d].pc \in SnapshotSteps \ {"remove"} /\ hist[d].target # NoSnapshot =>
        /\ retained[HistoryOwner(d, hist[d].target)] # NoHead
        /\ hist[d].pc \in InHand => hist[d].snap # hist[d].target

\* What a deletion has done before each of its steps.
Deleting(d) ==
    /\ hist[d].pc \in {"d.splice", "d.check", "d.owners", "d.release", "d.files"} =>
          heads[d] = NoHead
    /\ hist[d].pc \in {"d.read", "d.retain"} => hist[d].kept = FALSE
    /\ hist[d].pc \in {"d.quarantine", "d.undo"} => hist[d].kept = TRUE

SnapshotInv(d) ==
    Distinct(d) /\ Backed(d) /\ Unfiled(d) /\ Targeted(d) /\ Deleting(d)

SInv == IInv /\ \A d \in Deck : SnapshotInv(d)

-----------------------------------------------------------------------------
(* Files *)

\* Two lists one after the other.
LEMMA Joined ==
    ASSUME NEW S, NEW a \in Seq(S), NEW b \in Seq(S)
    PROVE  /\ a \o b \in Seq(S) /\ DOMAIN (a \o b) = 1 .. Len(a) + Len(b)
           /\ \A k \in 1 .. Len(a) + Len(b) :
                (a \o b)[k] = IF k <= Len(a) THEN a[k] ELSE b[k - Len(a)]
<1>. DEFINE w == a \o b
<1>1. /\ w \in Seq(S) /\ Len(w) = Len(a) + Len(b)
      /\ \A k \in 1 .. Len(a) + Len(b) : w[k] = IF k <= Len(a) THEN a[k] ELSE b[k - Len(a)]
  BY ConcatProperties, Zenon
<1>. HIDE DEF w
<1>2. DOMAIN w = 1 .. Len(a) + Len(b)
  BY <1>1, LenProperties
<1>. QED  BY <1>1, <1>2, Zenon DEF w

\* A part of a list.
LEMMA Part ==
    ASSUME NEW S, NEW f \in Seq(S), NEW m \in Nat \ {0}, NEW n \in Nat, m <= n + 1, n <= Len(f)
    PROVE  /\ SubSeq(f, m, n) \in Seq(S) /\ Len(SubSeq(f, m, n)) = n - m + 1
           /\ \A k \in 1 .. n - m + 1 : SubSeq(f, m, n)[k] = f[m + k - 1]
<1>. DEFINE l == Len(f)
<1>1. l \in Nat /\ \A j \in 1 .. l : f[j] \in S
  BY LenProperties, ElementOfSeq
<1>2. n <= l
  OBVIOUS
<1>. HIDE DEF l
<1>3. \A j \in m .. n : f[j] \in S
  BY <1>1, <1>2
<1>. DEFINE a == SubSeq(f, m, n)
<1>4. m \in Int /\ n \in Int
  OBVIOUS
<1>5. /\ a \in Seq(S) /\ Len(a) = IF m <= n THEN n - m + 1 ELSE 0
      /\ \A k \in 1 .. n - m + 1 : a[k] = f[m + k - 1]
  BY <1>3, <1>4, SubSeqProperties
<1>. HIDE DEF a
<1>6. Len(a) = n - m + 1
  BY <1>5
<1>. QED  BY <1>5, <1>6, Zenon DEF a

\* A file is taken out of the list.
Removed(f, i) == SubSeq(f, 1, i - 1) \o SubSeq(f, i + 1, Len(f))

\* A list without one of its elements.
LEMMA TakenOut ==
    ASSUME NEW S, NEW f \in Seq(S), NEW i \in 1 .. Len(f)
    PROVE  /\ Removed(f, i) \in Seq(S) /\ DOMAIN Removed(f, i) = 1 .. Len(f) - 1
           /\ \A k \in 1 .. Len(f) - 1 : Removed(f, i)[k] = IF k < i THEN f[k] ELSE f[k + 1]
<1>. DEFINE n == Len(f)
<1>0. n \in Nat /\ i \in 1 .. n /\ n = Len(f)
  BY LenProperties
<1>. HIDE DEF n
<1>. DEFINE m == i - 1
<1>. DEFINE a == SubSeq(f, 1, m)
<1>. DEFINE b == SubSeq(f, i + 1, n)
<1>1. m \in Nat /\ m <= n /\ 1 \in Nat \ {0} /\ 1 <= m + 1 /\ i + 1 \in Nat \ {0} /\ i + 1 <= n + 1
      /\ n - i \in Nat /\ m + (n - i) = n - 1 /\ m - 1 + 1 = m /\ n - (i + 1) + 1 = n - i
  BY <1>0
<1>2. a \in Seq(S) /\ Len(a) = m - 1 + 1 /\ \A k \in 1 .. m - 1 + 1 : a[k] = f[1 + k - 1]
  <2>. HIDE DEF m
  <2>1. m <= Len(f)
    BY <1>0, <1>1
  <2>. QED  BY <1>0, <1>1, <2>1, Part
<1>3. /\ b \in Seq(S) /\ Len(b) = n - (i + 1) + 1
      /\ \A k \in 1 .. n - (i + 1) + 1 : b[k] = f[i + 1 + k - 1]
  <2>1. n <= Len(f)
    BY <1>0
  <2>. QED  BY <1>0, <1>1, <2>1, Part
<1>4. Removed(f, i) = a \o b
  BY <1>0 DEF Removed
<1>. HIDE DEF a, b
<1>5. \A k \in 1 .. m : a[k] = f[k]
  BY <1>1, <1>2
<1>6. \A k \in 1 .. n - i : b[k] = f[i + k]
  BY <1>1, <1>3
<1>7. Len(a) = m /\ Len(b) = n - i
  BY <1>1, <1>2, <1>3
<1>. DEFINE w == a \o b
<1>8. /\ w \in Seq(S) /\ DOMAIN w = 1 .. m + (n - i)
      /\ \A k \in 1 .. m + (n - i) : w[k] = IF k <= m THEN a[k] ELSE b[k - m]
  <2>. DEFINE q == n - i
  <2>1. /\ m \in Nat /\ q \in Nat /\ Len(a) = m /\ Len(b) = q
        /\ a \in Seq(S) /\ b \in Seq(S)
    BY <1>1, <1>2, <1>3, <1>7
  <2>. HIDE DEF m, q
  <2>2. /\ w \in Seq(S) /\ DOMAIN w = 1 .. m + q
        /\ \A k \in 1 .. m + q : w[k] = IF k <= m THEN a[k] ELSE b[k - m]
    <3>1. /\ w \in Seq(S) /\ DOMAIN w = 1 .. Len(a) + Len(b)
          /\ \A k \in 1 .. Len(a) + Len(b) : w[k] = IF k <= Len(a) THEN a[k] ELSE b[k - Len(a)]
      BY <2>1, Joined, Zenon
    <3>. HIDE DEF w
    <3>. QED  BY <2>1, <3>1
  <2>. QED  BY <2>2, Zenon DEF q
<1>. HIDE DEF w
<1>9. ASSUME NEW k \in 1 .. n - 1 PROVE w[k] = IF k < i THEN f[k] ELSE f[k + 1]
  <2>1. k \in 1 .. m + (n - i)
    BY <1>0, <1>1
  <2>2. CASE k < i
    <3>1. k \in 1 .. m /\ k <= m
      BY <1>0, <2>2
    <3>. HIDE DEF m
    <3>. QED  BY <1>5, <1>8, <2>1, <2>2, <3>1
  <2>3. CASE ~(k < i)
    <3>1. k - m \in 1 .. n - i /\ i + (k - m) = k + 1 /\ ~(k <= m)
      BY <1>0, <2>3
    <3>2. w[k] = b[k - m]
      BY <1>8, <2>1, <3>1
    <3>. QED  BY <1>6, <2>3, <3>1, <3>2
  <2>. QED  BY <2>2, <2>3
<1>10. n = Len(f)
  BY <1>0
<1>. QED  BY <1>1, <1>4, <1>8, <1>9, <1>10 DEF w

\* A file is put back into the list.
Inserted(f, p, x) == SubSeq(f, 1, p - 1) \o <<x>> \o SubSeq(f, p, Len(f))

\* A list with an element put back.
LEMMA PutBack ==
    ASSUME NEW S, NEW f \in Seq(S), NEW p \in 1 .. Len(f) + 1, NEW x \in S
    PROVE  /\ Inserted(f, p, x) \in Seq(S) /\ DOMAIN Inserted(f, p, x) = 1 .. Len(f) + 1
           /\ \A k \in 1 .. Len(f) + 1 :
                Inserted(f, p, x)[k] = IF k < p THEN f[k] ELSE IF k = p THEN x ELSE f[k - 1]
<1>. DEFINE n == Len(f)
<1>0. n \in Nat /\ p \in 1 .. n + 1 /\ n = Len(f)
  BY LenProperties
<1>. HIDE DEF n
<1>. DEFINE m == p - 1
<1>. DEFINE q == n - p + 1
<1>. DEFINE a == SubSeq(f, 1, m)
<1>. DEFINE b == SubSeq(f, p, n)
<1>. DEFINE c == a \o <<x>>
<1>1. m \in Nat /\ m <= n /\ 1 \in Nat \ {0} /\ 1 <= m + 1 /\ p \in Nat \ {0} /\ p <= n + 1 /\ p \in Nat
      /\ q \in Nat /\ p + q = n + 1 /\ m - 1 + 1 = m /\ m + 1 = p
  BY <1>0
<1>2. a \in Seq(S) /\ Len(a) = m - 1 + 1 /\ \A k \in 1 .. m - 1 + 1 : a[k] = f[1 + k - 1]
  <2>. HIDE DEF m
  <2>1. m <= Len(f)
    BY <1>0, <1>1
  <2>. QED  BY <1>0, <1>1, <2>1, Part
<1>3. b \in Seq(S) /\ Len(b) = q /\ \A k \in 1 .. q : b[k] = f[p + k - 1]
  <2>1. n <= Len(f)
    BY <1>0
  <2>. QED  BY <1>0, <1>1, <2>1, Part
<1>4. Inserted(f, p, x) = c \o b
  BY <1>0 DEF Inserted
<1>. HIDE DEF a, b
<1>5. \A k \in 1 .. m : a[k] = f[k]
  BY <1>1, <1>2
<1>6. c \in Seq(S) /\ Len(c) = p /\ c[p] = x /\ \A k \in 1 .. m : c[k] = f[k]
  <2>1. c = Append(a, x)
    BY <1>2, AppendIsConcat, Zenon
  <2>. DEFINE d == Append(a, x)
  <2>2. /\ d \in Seq(S) /\ Len(d) = Len(a) + 1 /\ d[Len(a) + 1] = x
        /\ \A k \in 1 .. Len(a) : d[k] = a[k]
    <3>. HIDE DEF m
    <3>. QED  BY <1>2, AppendProperties
  <2>3. Len(a) = m /\ Len(a) + 1 = p
    BY <1>1, <1>2
  <2>. HIDE DEF d, m
  <2>4. d \in Seq(S) /\ Len(d) = p /\ d[p] = x /\ \A k \in 1 .. m : d[k] = f[k]
    BY <1>5, <2>2, <2>3, Zenon
  <2>. QED  BY <2>1, <2>4, Zenon DEF d
<1>. HIDE DEF c
<1>. DEFINE w == c \o b
<1>7. /\ w \in Seq(S) /\ DOMAIN w = 1 .. p + q
      /\ \A k \in 1 .. p + q : w[k] = IF k <= p THEN c[k] ELSE b[k - p]
  <2>1. /\ p \in Nat /\ q \in Nat /\ Len(c) = p /\ Len(b) = q
        /\ c \in Seq(S) /\ b \in Seq(S)
    BY <1>1, <1>3, <1>6
  <2>. HIDE DEF q
  <2>2. /\ w \in Seq(S) /\ DOMAIN w = 1 .. Len(c) + Len(b)
        /\ \A k \in 1 .. Len(c) + Len(b) : w[k] = IF k <= Len(c) THEN c[k] ELSE b[k - Len(c)]
    BY <2>1, Joined, Zenon
  <2>. HIDE DEF w
  <2>. QED  BY <2>1, <2>2
<1>. HIDE DEF w
<1>8. ASSUME NEW k \in 1 .. n + 1
      PROVE  w[k] = IF k < p THEN f[k] ELSE IF k = p THEN x ELSE f[k - 1]
  <2>1. k \in 1 .. p + q
    BY <1>0, <1>1
  <2>2. CASE k < p
    BY <1>6, <1>7, <2>1, <2>2
  <2>3. CASE k = p
    BY <1>6, <1>7, <2>1, <2>3
  <2>4. CASE k > p
    <3>1. k - p \in 1 .. q /\ p + (k - p) - 1 = k - 1 /\ ~(k <= p)
      BY <1>0, <2>4
    <3>2. w[k] = b[k - p]
      BY <1>7, <2>1, <3>1
    <3>. QED  BY <1>3, <2>4, <3>1, <3>2
  <2>. QED  BY <2>2, <2>3, <2>4
<1>10. n = Len(f)
  BY <1>0
<1>. QED  BY <1>1, <1>4, <1>7, <1>8, <1>10 DEF w

-----------------------------------------------------------------------------
(* What a step of one deck leaves of the others *)

\* Files and requests name snapshots.
LEMMA Names ==
    ASSUME IInv, NEW d \in Deck
    PROVE  /\ files[d] \in Seq(Files) /\ hist[d] \in Histories
           /\ \A i \in DOMAIN files[d] : files[d][i] \in Files /\ files[d][i].id \in Snapshot
           /\ hist[d].target # NoSnapshot => hist[d].target \in Snapshot
           /\ hist[d].pc \in {"retain", "write", "release", "remove"} => hist[d].snap \in Snapshot
<1>1. files[d] \in Seq(Files) /\ hist[d] \in Histories
  BY DEF IInv, RequestsType
<1>2. \A i \in DOMAIN files[d] : files[d][i] \in Files
  <2>. DEFINE f == files[d]
  <2>1. f \in Seq(Files)
    BY <1>1
  <2>. HIDE DEF f
  <2>2. \A i \in DOMAIN f : f[i] \in Files
    BY <2>1, ElementOfSeq, LenProperties
  <2>. QED  BY <2>2 DEF f
<1>3. \A i \in DOMAIN files[d] : files[d][i].id \in Snapshot
  BY <1>2 DEF Files
<1>4. /\ hist[d].target # NoSnapshot => hist[d].target \in Snapshot
      /\ hist[d].pc \in {"retain", "write", "release", "remove"} => hist[d].snap \in Snapshot
  BY <1>1 DEF IInv, RequestsInv, RequestInv, Histories
<1>. QED  BY <1>1, <1>2, <1>3, <1>4

\* The snapshots of a deck do not depend on anything else.
LEMMA Undisturbed ==
    ASSUME SInv, NEW d \in Deck, files'[d] = files[d], hist'[d] = hist[d],
           heads'[d] = NoHead <=> heads[d] = NoHead,
           \A s \in Snapshot : retained'[HistoryOwner(d, s)] = retained[HistoryOwner(d, s)]
    PROVE  SnapshotInv(d)'
<1>1. IInv /\ SnapshotInv(d)
  BY DEF SInv
<1>2. Distinct(d)'
  BY <1>1 DEF SnapshotInv, Distinct
<1>3. Recoverable(d)' <=> Recoverable(d)
  BY DEF Recoverable
<1>4. Backed(d)'
  BY <1>1, <1>3, Names DEF SnapshotInv, Backed
<1>5. Unfiled(d)'
  BY <1>1, Names DEF SnapshotInv, Unfiled, InHand
<1>6. Targeted(d)'
  BY <1>1, Names DEF SnapshotInv, Targeted
<1>7. Deleting(d)'
  BY <1>1 DEF SnapshotInv, Deleting
<1>. QED  BY <1>2, <1>4, <1>5, <1>6, <1>7 DEF SnapshotInv

\* Nothing happens to files, requests and retained heads.
LEMMA Quiet ==
    ASSUME SInv, IInv', UNCHANGED <<files, hist, retained>>,
           \A e \in Deck : heads'[e] = NoHead <=> heads[e] = NoHead
    PROVE  SInv'
BY Undisturbed DEF SInv

\* A step of one deck, with what it leaves alone of the others.
LEMMA OwnStep ==
    ASSUME SInv, IInv', NEW d \in Deck, SnapshotInv(d)',
           \A e \in Deck \ {d} :
              /\ files'[e] = files[e] /\ hist'[e] = hist[e]
              /\ heads'[e] = NoHead <=> heads[e] = NoHead
              /\ \A s \in Snapshot : retained'[HistoryOwner(e, s)] = retained[HistoryOwner(e, s)]
    PROVE  SInv'
<1>1. ASSUME NEW e \in Deck \ {d} PROVE SnapshotInv(e)'
  BY Undisturbed
<1>. QED  BY <1>1 DEF SInv

\* The request moves on, or is answered; the snapshots stay.
LEMMA Moves ==
    ASSUME SInv, NEW d \in Deck, files'[d] = files[d],
           \A s \in Snapshot : retained'[HistoryOwner(d, s)] = retained[HistoryOwner(d, s)],
           Recoverable(d)' => Recoverable(d), Unfiled(d)', Targeted(d)', Deleting(d)'
    PROVE  SnapshotInv(d)'
<1>1. IInv /\ SnapshotInv(d)
  BY DEF SInv
<1>2. Distinct(d)'
  BY <1>1 DEF SnapshotInv, Distinct
<1>3. Backed(d)'
  BY <1>1, Names DEF SnapshotInv, Backed
<1>. QED  BY <1>2, <1>3 DEF SnapshotInv

\* An idle deck only has its files.
LEMMA Ends ==
    ASSUME NEW d \in Deck, hist'[d].pc = "idle", Distinct(d)', Backed(d)'
    PROVE  SnapshotInv(d)'
BY DEF SnapshotInv, Unfiled, Targeted, Deleting, InHand, SnapshotSteps

\* Owners of snapshots are owners of one snapshot of one deck.
LEMMA HistoryOwnerReleased ==
    ASSUME IInv, NEW d \in Deck, NEW s \in Snapshot, NEW x,
           retained' = [retained EXCEPT ![HistoryOwner(d, s)] = x]
    PROVE  /\ retained'[HistoryOwner(d, s)] = x
           /\ \A t \in Snapshot \ {s} : retained'[HistoryOwner(d, t)] = retained[HistoryOwner(d, t)]
           /\ \A e \in Deck \ {d}, t \in Snapshot :
                retained'[HistoryOwner(e, t)] = retained[HistoryOwner(e, t)]
<1>1. /\ \A e \in Deck, t \in Snapshot : HistoryOwner(e, t) \in Owners
      /\ \A e \in Deck, t \in Snapshot : HistoryOwner(e, t) = HistoryOwner(d, s) => e = d /\ t = s
  BY DEF HistoryOwner, Owners
<1>. QED  BY <1>1 DEF IInv, RecordsType

\* The owner of a deletion is no owner of a snapshot.
LEMMA DeleteOwnerWritten ==
    ASSUME IInv, NEW d \in Deck, NEW x, retained' = [retained EXCEPT ![DeleteOwner(d)] = x]
    PROVE  \A e \in Deck, t \in Snapshot :
              retained'[HistoryOwner(e, t)] = retained[HistoryOwner(e, t)]
<1>1. \A e \in Deck, t \in Snapshot :
         HistoryOwner(e, t) \in Owners /\ HistoryOwner(e, t) # DeleteOwner(d)
  BY DEF HistoryOwner, DeleteOwner, Owners
<1>. QED  BY <1>1 DEF IInv, RecordsType

\* A request moves on and keeps what it knows.
LEMMA Fields ==
    ASSUME IInv, NEW d \in Deck, NEW step \in Steps, Goto(d, step)
    PROVE  /\ hist'[d].pc = step /\ hist'[d].snap = hist[d].snap /\ hist'[d].cur = hist[d].cur
           /\ hist'[d].target = hist[d].target /\ hist'[d].kept = hist[d].kept
           /\ \A e \in Deck \ {d} : hist'[e] = hist[e]
BY DEF Goto, IInv, RequestsType, Histories

-----------------------------------------------------------------------------
(* Saves, exports and drains *)

\* Records, files and requests stay.
LEMMA StillSteps ==
    ASSUME SInv, IInv', UNCHANGED <<records, files, hist>>
    PROVE  SInv'
<1>1. UNCHANGED <<heads, retained>>
  BY DEF records
<1>. QED  BY <1>1, Quiet

\* A save or an edited export publishes.
LEMMA EditSteps ==
    ASSUME SInv, NEW d \in Deck, (\E b \in Body : Save(d, b)) \/ ExportCommit(d)
    PROVE  SInv'
<1>1. IInv' /\ heads'[d] # NoHead
  BY SaveKeeps, ExportCommits DEF SInv
<1>2. heads[d] # NoHead /\ UNCHANGED <<files, hist, retained>>
  <2>1. CASE \E b \in Body : Save(d, b)
    BY <2>1 DEF Save
  <2>2. CASE ExportCommit(d)
    BY <2>2 DEF ExportCommit, SameHead, SInv, IInv, RequestsInv, RequestInv
  <2>. QED  BY <2>1, <2>2
<1>3. \A e \in Deck \ {d} : heads'[e] = heads[e]
  BY DEF Save, ExportCommit, SetHead, SInv, IInv, RecordsType
<1>. QED  BY <1>1, <1>2, <1>3, Quiet

-----------------------------------------------------------------------------
(* Snapshots and restores *)

\* A request takes the history lock.
LEMMA TakesLock ==
    ASSUME SInv, IInv', NEW d \in Deck,
           \/ \E s \in Snapshot : SnapshotBegin(d, s)
           \/ \E i \in DOMAIN files[d], s \in Snapshot : RestoreBegin(d, i, s)
           \/ DeleteBegin(d)
    PROVE  SInv'
<1>. USE DEF SInv
<1>1. UNCHANGED <<records, files>> /\ UNCHANGED <<heads, retained>>
  BY DEF SnapshotBegin, RestoreBegin, DeleteBegin, recordVars, records
<1>2. hist \in [Deck -> Histories]
  BY DEF IInv, RequestsType
<1>3. \A e \in Deck \ {d} : hist'[e] = hist[e]
  BY <1>2 DEF SnapshotBegin, RestoreBegin, DeleteBegin
<1>4. ASSUME DeleteBegin(d) PROVE SnapshotInv(d)'
  <2>. DEFINE saw == rows[d] # NoRow
  <2>1. hist' = [hist EXCEPT ![d] = [Idle EXCEPT !.pc = "d.read", !.saw = saw]]
    BY <1>4 DEF DeleteBegin
  <2>. HIDE DEF saw
  <2>2. hist'[d].pc = "d.read" /\ hist'[d].kept = FALSE
    BY <1>2, <2>1 DEF Idle
  <2>3. Recoverable(d)' => Recoverable(d)
    BY <1>1, <2>2 DEF Recoverable
  <2>4. Unfiled(d)' /\ Targeted(d)' /\ Deleting(d)'
    BY <2>2 DEF Unfiled, Targeted, Deleting, InHand, SnapshotSteps
  <2>. QED  BY <1>1, <2>3, <2>4, Moves
<1>5. ASSUME NEW s \in Snapshot, SnapshotBegin(d, s) PROVE SnapshotInv(d)'
  <2>1. hist' = [hist EXCEPT ![d] = [Idle EXCEPT !.pc = "retain", !.cur = heads[d], !.snap = s]]
        /\ FreshSnapshot(d, s) /\ Presentable(heads[d])
    BY <1>5 DEF SnapshotBegin, CanSnapshot
  <2>2. /\ hist'[d].pc = "retain" /\ hist'[d].snap = s /\ hist'[d].target = NoSnapshot
        /\ hist'[d].cur = heads[d]
    BY <1>2, <2>1 DEF Idle
  <2>3. Recoverable(d)' => Recoverable(d)
    BY <1>1, <2>2 DEF Recoverable
  <2>4. Unfiled(d)' /\ Targeted(d)' /\ Deleting(d)'
    BY <1>1, <2>1, <2>2 DEF Unfiled, Targeted, Deleting, FreshSnapshot, FileIds
  <2>. QED  BY <1>1, <2>3, <2>4, Moves
<1>6. ASSUME NEW i \in DOMAIN files[d], NEW s \in Snapshot, RestoreBegin(d, i, s)
      PROVE SnapshotInv(d)'
  <2>1. /\ hist' = [hist EXCEPT ![d] = [Idle EXCEPT !.pc = "retain", !.cur = heads[d], !.snap = s,
                                                    !.target = files[d][i].id]]
        /\ FreshSnapshot(d, s) /\ retained[HistoryOwner(d, files[d][i].id)] # NoHead
        /\ Presentable(heads[d])
    BY <1>6 DEF RestoreBegin, CanSnapshot
  <2>2. /\ hist'[d].pc = "retain" /\ hist'[d].snap = s /\ hist'[d].target = files[d][i].id
        /\ hist'[d].cur = heads[d]
    BY <1>2, <2>1 DEF Idle
  <2>3. Recoverable(d)' => Recoverable(d)
    BY <1>1, <2>2 DEF Recoverable
  <2>4. Unfiled(d)' /\ Targeted(d)' /\ Deleting(d)'
    BY <1>1, <2>1, <2>2 DEF Unfiled, Targeted, Deleting, FreshSnapshot, FileIds
  <2>. QED  BY <1>1, <2>3, <2>4, Moves
<1>7. SnapshotInv(d)'
  BY <1>4, <1>5, <1>6
<1>. QED  BY <1>1, <1>3, <1>7, OwnStep

\* The head of a snapshot is retained before its file exists.
LEMMA SnapshotRetained ==
    ASSUME SInv, IInv', NEW d \in Deck, RetainSnapshot(d)
    PROVE  SInv'
<1>. USE DEF SInv
<1>. DEFINE s == hist[d].snap
<1>1. /\ SnapshotInv(d) /\ s \in Snapshot /\ hist[d].pc = "retain" /\ hist[d].cur = heads[d]
      /\ hist[d].cur # NoHead
  BY Names DEF RetainSnapshot, At, IInv, RequestsInv, RequestInv, HoldsHead
<1>2. UNCHANGED <<heads, files>> /\ retained' = [retained EXCEPT ![HistoryOwner(d, s)] = heads[d]]
  BY DEF RetainSnapshot, Retain, StoreOnly
<1>3. /\ hist'[d].pc \in {"write", "unretain"} /\ hist'[d].snap = s /\ hist'[d].cur = hist[d].cur
      /\ hist'[d].target = hist[d].target /\ \A e \in Deck \ {d} : hist'[e] = hist[e]
  <2>1. PICK step \in {"write", "unretain"} : Goto(d, step) /\ step \in Steps
    BY DEF RetainSnapshot, Steps, SnapshotSteps
  <2>. QED  BY <2>1, Fields
<1>4. /\ retained'[HistoryOwner(d, s)] = heads[d]
      /\ \A t \in Snapshot \ {s} : retained'[HistoryOwner(d, t)] = retained[HistoryOwner(d, t)]
      /\ \A e \in Deck \ {d}, t \in Snapshot :
           retained'[HistoryOwner(e, t)] = retained[HistoryOwner(e, t)]
  BY <1>1, <1>2, HistoryOwnerReleased
<1>5. \A i \in DOMAIN files[d] : files[d][i].id \in Snapshot /\ files[d][i].id # s
  BY <1>1, Names DEF SnapshotInv, Unfiled, InHand
<1>6. Distinct(d)'
  BY <1>1, <1>2 DEF SnapshotInv, Distinct
<1>7. Backed(d)'
  <2>1. Recoverable(d)
    BY <1>1 DEF Recoverable
  <2>. QED  BY <1>1, <1>2, <1>4, <1>5, <2>1 DEF SnapshotInv, Backed
<1>8. Unfiled(d)' /\ Deleting(d)'
  BY <1>1, <1>2, <1>3, <1>4, <1>5 DEF SnapshotInv, Unfiled, Deleting, InHand
<1>9. Targeted(d)'
  <2>1. hist[d].target # NoSnapshot => /\ retained[HistoryOwner(d, hist[d].target)] # NoHead
                                       /\ s # hist[d].target /\ hist[d].target \in Snapshot
    BY <1>1, Names DEF SnapshotInv, Targeted, InHand, SnapshotSteps
  <2>. QED  BY <1>3, <1>4, <2>1 DEF Targeted
<1>10. SnapshotInv(d)'
  BY <1>6, <1>7, <1>8, <1>9 DEF SnapshotInv
<1>. QED  BY <1>2, <1>3, <1>4, <1>10, OwnStep

\* The head of a snapshot is released when it has no file.
LEMMA SnapshotReleased ==
    ASSUME SInv, IInv', NEW d \in Deck, UnretainSnapshot(d) \/ ReleaseSnapshot(d)
    PROVE  SInv'
<1>. USE DEF SInv
<1>. DEFINE s == hist[d].snap
<1>1. SnapshotInv(d) /\ hist[d].pc \in {"unretain", "release", "remove"} /\ hist[d] \in Histories
  BY Names DEF UnretainSnapshot, ReleaseSnapshot, At
<1>2. UNCHANGED <<heads, files>> /\ retained' = [retained EXCEPT ![HistoryOwner(d, s)] = NoHead]
  BY DEF UnretainSnapshot, ReleaseSnapshot, Release, StoreOnly
<1>3. \A i \in DOMAIN files[d] : files[d][i].id \in Snapshot /\ files[d][i].id # s
  BY <1>1, Names DEF SnapshotInv, Unfiled, InHand
<1>4. /\ \A t \in Snapshot \ {s} : retained'[HistoryOwner(d, t)] = retained[HistoryOwner(d, t)]
      /\ \A e \in Deck \ {d}, t \in Snapshot :
           retained'[HistoryOwner(e, t)] = retained[HistoryOwner(e, t)]
  <2>1. CASE s \in Snapshot
    BY <1>2, <2>1, HistoryOwnerReleased
  <2>2. CASE s \notin Snapshot
    <3>1. /\ \A e \in Deck, t \in Snapshot : HistoryOwner(e, t) \in Owners
          /\ \A e \in Deck, t \in Snapshot : HistoryOwner(e, t) # HistoryOwner(d, s)
      BY <2>2 DEF HistoryOwner, Owners
    <3>. QED  BY <1>2, <3>1 DEF IInv, RecordsType
  <2>. QED  BY <2>1, <2>2
<1>5. Distinct(d)'
  BY <1>1, <1>2 DEF SnapshotInv, Distinct
<1>6. CASE Done(d)
  <2>1. hist'[d].pc = "idle" /\ hist'[d].kept = FALSE /\ \A e \in Deck \ {d} : hist'[e] = hist[e]
    BY <1>6 DEF Done, Idle, IInv, RequestsType
  <2>2. Recoverable(d)' => Recoverable(d)
    BY <1>2, <2>1 DEF Recoverable
  <2>3. Backed(d)'
    BY <1>1, <1>2, <1>3, <1>4, <2>2 DEF SnapshotInv, Backed
  <2>4. SnapshotInv(d)'
    BY <1>5, <2>1, <2>3, Ends
  <2>. QED  BY <1>2, <1>4, <2>1, <2>4, OwnStep
<1>7. CASE At(d, "release") /\ Goto(d, "prune")
  <2>1. /\ hist'[d].pc = "prune" /\ hist'[d].target = hist[d].target
        /\ \A e \in Deck \ {d} : hist'[e] = hist[e]
    <3>1. "prune" \in Steps
      BY DEF Steps, SnapshotSteps
    <3>. QED  BY <1>7, <3>1, Fields
  <2>2. Recoverable(d)' => Recoverable(d)
    BY <1>2, <2>1 DEF Recoverable
  <2>3. Backed(d)'
    BY <1>1, <1>2, <1>3, <1>4, <2>2 DEF SnapshotInv, Backed
  <2>4. Unfiled(d)' /\ Deleting(d)'
    BY <2>1 DEF Unfiled, Deleting, InHand
  <2>5. Targeted(d)'
    <3>1. hist[d].target # NoSnapshot => /\ retained[HistoryOwner(d, hist[d].target)] # NoHead
                                         /\ s # hist[d].target /\ hist[d].target \in Snapshot
      BY <1>1, <1>7, Names DEF SnapshotInv, Targeted, InHand, SnapshotSteps, At
    <3>. QED  BY <1>4, <2>1, <3>1 DEF Targeted, InHand
  <2>6. SnapshotInv(d)'
    BY <1>5, <2>3, <2>4, <2>5 DEF SnapshotInv
  <2>. QED  BY <1>2, <1>4, <2>1, <2>6, OwnStep
<1>. QED  BY <1>6, <1>7 DEF UnretainSnapshot, ReleaseSnapshot

\* The file of a snapshot is written when its head is retained.
LEMMA SnapshotFiled ==
    ASSUME SInv, IInv', NEW d \in Deck, WriteSnapshotFile(d)
    PROVE  SInv'
<1>. USE DEF SInv
<1>. DEFINE f == files[d]
<1>. DEFINE no == FALSE
<1>. DEFINE x == [id |-> hist[d].snap, gen |-> hist[d].cur.gen, pending |-> no]
<1>1. /\ SnapshotInv(d) /\ hist[d].snap \in Snapshot /\ hist[d].pc = "write" /\ f \in Seq(Files)
      /\ hist[d].cur # NoHead /\ hist[d].cur \in Heads
  BY Names DEF WriteSnapshotFile, At, IInv, RequestsInv, RequestInv, HoldsHead, Histories
<1>2. UNCHANGED <<heads, retained>> /\ files' = [files EXCEPT ![d] = Append(@, x)]
  BY DEF WriteSnapshotFile, recordVars, records
<1>3. /\ hist'[d].pc = "prune" /\ hist'[d].target = hist[d].target
      /\ \A e \in Deck \ {d} : hist'[e] = hist[e]
  <2>1. Goto(d, "prune") /\ "prune" \in Steps
    BY DEF WriteSnapshotFile, Steps, SnapshotSteps
  <2>. QED  BY <2>1, Fields
<1>4. x \in Files /\ x.id = hist[d].snap /\ x.gen = hist[d].cur.gen
  BY <1>1 DEF Files, Heads
<1>5. files'[d] = Append(f, x) /\ \A e \in Deck \ {d} : files'[e] = files[e]
  BY <1>2 DEF IInv, RequestsType
<1>. HIDE DEF x
<1>. DEFINE n == Len(f)
<1>6. /\ n \in Nat /\ DOMAIN f = 1 .. n /\ DOMAIN files'[d] = 1 .. n + 1
      /\ files'[d][n + 1] = x /\ \A k \in 1 .. n : files'[d][k] = f[k]
  <2>1. /\ Append(f, x) \in Seq(Files) /\ Len(Append(f, x)) = n + 1
        /\ Append(f, x)[n + 1] = x /\ \A k \in 1 .. n : Append(f, x)[k] = f[k]
    BY <1>1, <1>4, AppendProperties
  <2>2. n \in Nat /\ DOMAIN f = 1 .. n
    BY <1>1, LenProperties
  <2>3. DOMAIN Append(f, x) = 1 .. n + 1
    BY <2>1, LenProperties
  <2>. QED  BY <1>5, <2>1, <2>2, <2>3
<1>. HIDE DEF n
<1>7. \A k \in 1 .. n : files'[d][k].id # x.id /\ files'[d][k].id = files[d][k].id
  BY <1>1, <1>4, <1>6 DEF SnapshotInv, Unfiled, InHand
<1>8. Distinct(d)'
  <2>1. \A i, j \in 1 .. n : files[d][i].id = files[d][j].id => i = j
    BY <1>1, <1>6 DEF SnapshotInv, Distinct
  <2>2. ASSUME NEW i \in 1 .. n + 1, NEW j \in 1 .. n + 1, files'[d][i].id = files'[d][j].id
        PROVE  i = j
    <3>1. CASE i \in 1 .. n /\ j \in 1 .. n
      BY <1>7, <2>1, <2>2, <3>1
    <3>2. CASE i = n + 1 /\ j \in 1 .. n
      BY <1>6, <1>7, <2>2, <3>2
    <3>3. CASE i \in 1 .. n /\ j = n + 1
      BY <1>6, <1>7, <2>2, <3>3
    <3>. QED  BY <1>6, <3>1, <3>2, <3>3
  <2>. QED  BY <1>6, <2>2 DEF Distinct
<1>9. Backed(d)'
  <2>1. Recoverable(d)' => Recoverable(d)
    BY <1>2, <1>3 DEF Recoverable
  <2>2. Backs(retained'[HistoryOwner(d, x.id)], x)
    BY <1>1, <1>2, <1>4 DEF SnapshotInv, Unfiled, Backs
  <2>3. ASSUME Recoverable(d), NEW i \in 1 .. n + 1
        PROVE  Backs(retained'[HistoryOwner(d, files'[d][i].id)], files'[d][i])
    <3>1. CASE i \in 1 .. n
      BY <1>1, <1>2, <1>6, <2>3, <3>1 DEF SnapshotInv, Backed
    <3>2. CASE i = n + 1
      BY <1>6, <2>2, <3>2
    <3>. QED  BY <1>6, <3>1, <3>2
  <2>. QED  BY <1>6, <2>1, <2>3 DEF Backed
<1>10. Unfiled(d)' /\ Deleting(d)'
  BY <1>3 DEF Unfiled, Deleting, InHand
<1>11. Targeted(d)'
  BY <1>1, <1>2, <1>3 DEF SnapshotInv, Targeted, InHand, SnapshotSteps
<1>12. SnapshotInv(d)'
  BY <1>8, <1>9, <1>10, <1>11 DEF SnapshotInv
<1>. QED  BY <1>2, <1>3, <1>5, <1>12, OwnStep

\* A snapshot file is removed; nothing refers to it any more.
LEMMA FileTaken ==
    ASSUME SInv, IInv', NEW d \in Deck, NEW i \in DOMAIN files[d], NEW step \in {"release", "remove"},
           RemoveFile(d, i, step), hist[d].pc \in {"prune", "idle"},
           step = "release" => hist[d].pc = "prune" /\ files[d][i].id # hist[d].target
    PROVE  SInv'
<1>. USE DEF SInv
<1>. DEFINE f == files[d]
<1>. DEFINE n == Len(f)
<1>. DEFINE w == Removed(f, i)
<1>. DEFINE s == files[d][i].id
<1>. DEFINE g == files[d][i].gen
<1>1. SnapshotInv(d) /\ f \in Seq(Files) /\ n \in Nat /\ DOMAIN f = 1 .. n /\ i \in 1 .. n
  BY Names, LenProperties
<1>2. UNCHANGED <<heads, retained>>
  BY DEF RemoveFile, recordVars, records
<1>3. w \in Seq(Files) /\ DOMAIN w = 1 .. n - 1
      /\ \A k \in 1 .. n - 1 : w[k] = IF k < i THEN f[k] ELSE f[k + 1]
  <2>1. f \in Seq(Files) /\ i \in 1 .. Len(f)
    BY <1>1
  <2>. HIDE DEF f
  <2>. QED  BY <2>1, TakenOut, Zenon
<1>4. files'[d] = w /\ \A e \in Deck \ {d} : files'[e] = files[e]
  <2>1. Without(d, i) = w
    BY DEF Without, Removed
  <2>. QED  BY <2>1 DEF RemoveFile, IInv, RequestsType
<1>5. /\ hist'[d].pc = step /\ hist'[d].snap = s /\ hist'[d].target = hist[d].target
      /\ \A e \in Deck \ {d} : hist'[e] = hist[e]
  <2>. DEFINE x == [hist[d] EXCEPT !.pc = step, !.snap = s, !.pos = i, !.gen = g]
  <2>1. hist[d] \in Histories /\ hist \in [Deck -> Histories]
    BY DEF IInv, RequestsType
  <2>2. hist' = [hist EXCEPT ![d] = x]
    <3>1. hist' = [hist EXCEPT ![d].pc = step, ![d].snap = s, ![d].pos = i, ![d].gen = g]
      BY DEF RemoveFile
    <3>. HIDE DEF s, g
    <3>. QED  BY <2>1, <3>1
  <2>. HIDE DEF s, g
  <2>3. x.pc = step /\ x.snap = s /\ x.target = hist[d].target
    BY <2>1 DEF Histories
  <2>. HIDE DEF x
  <2>. QED  BY <2>1, <2>2, <2>3
<1>. HIDE DEF n, w
<1>6. \A k \in 1 .. n - 1 : \E j \in 1 .. n : j # i /\ w[k] = f[j] /\ j = IF k < i THEN k ELSE k + 1
  <2>1. ASSUME NEW k \in 1 .. n - 1
        PROVE  \E j \in 1 .. n : j # i /\ w[k] = f[j] /\ j = IF k < i THEN k ELSE k + 1
    <3>1. CASE k < i
      <4>1. k \in 1 .. n /\ k # i /\ w[k] = f[k]
        BY <1>1, <1>3, <3>1
      <4>. QED  BY <3>1, <4>1
    <3>2. CASE ~(k < i)
      <4>1. k + 1 \in 1 .. n /\ k + 1 # i /\ w[k] = f[k + 1]
        BY <1>1, <1>3, <3>2
      <4>. QED  BY <3>2, <4>1
    <3>. QED  BY <3>1, <3>2
  <2>. QED  BY <2>1
<1>7. \A a, b \in 1 .. n : f[a].id = f[b].id => a = b
  BY <1>1 DEF SnapshotInv, Distinct
<1>8. Distinct(d)'
  <2>1. ASSUME NEW a \in 1 .. n - 1, NEW b \in 1 .. n - 1, w[a].id = w[b].id
        PROVE  a = b
    <3>1. PICK p \in 1 .. n : w[a] = f[p] /\ p = IF a < i THEN a ELSE a + 1
      BY <1>6
    <3>2. PICK q \in 1 .. n : w[b] = f[q] /\ q = IF b < i THEN b ELSE b + 1
      BY <1>6
    <3>3. p = q
      BY <1>7, <2>1, <3>1, <3>2
    <3>. QED  BY <1>1, <3>1, <3>2, <3>3
  <2>. QED  BY <1>3, <1>4, <2>1 DEF Distinct
<1>9. Unfiled(d)'
  <2>1. \A k \in 1 .. n - 1 : w[k].id # s
    BY <1>1, <1>6, <1>7
  <2>. HIDE DEF s
  <2>. QED  BY <1>3, <1>4, <1>5, <2>1 DEF Unfiled
<1>10. Backed(d)'
  <2>1. Recoverable(d)' => Recoverable(d)
    BY <1>2, <1>5 DEF Recoverable
  <2>2. Recoverable(d) => \A j \in 1 .. n : Backs(retained[HistoryOwner(d, f[j].id)], f[j])
    BY <1>1 DEF SnapshotInv, Backed
  <2>3. Recoverable(d) => \A k \in 1 .. n - 1 : Backs(retained[HistoryOwner(d, w[k].id)], w[k])
    BY <1>6, <2>2
  <2>. QED  BY <1>2, <1>3, <1>4, <2>1, <2>3 DEF Backed
<1>11. Targeted(d)' /\ Deleting(d)'
  <2>1. Deleting(d)'
    BY <1>5 DEF Deleting
  <2>2. CASE step = "remove"
    BY <1>5, <2>1, <2>2 DEF Targeted
  <2>3. CASE step = "release"
    BY <1>1, <1>2, <1>5, <2>1, <2>3 DEF SnapshotInv, Targeted, SnapshotSteps
  <2>. QED  BY <2>2, <2>3
<1>12. SnapshotInv(d)'
  BY <1>8, <1>9, <1>10, <1>11 DEF SnapshotInv
<1>. QED  BY <1>2, <1>4, <1>5, <1>12, OwnStep

\* The oldest prunable snapshot is never the target of the restore.
LEMMA FileRemovals ==
    ASSUME SInv, IInv', NEW d \in Deck, PruneOldest(d) \/ \E i \in DOMAIN files[d] : RemoveBegin(d, i)
    PROVE  SInv'
<1>1. CASE PruneOldest(d)
  <2>1. DOMAIN files[d] \subseteq Nat
    BY Names, LenProperties DEF SInv
  <2>2. OldestPrunable(d) \in Prunable(d)
    <3>1. Prunable(d) \subseteq Nat /\ Prunable(d) # {}
      BY <1>1, <2>1 DEF PruneOldest, Prunable
    <3>. QED  BY <3>1, OldestExists DEF OldestPrunable
  <2>3. /\ OldestPrunable(d) \in DOMAIN files[d]
        /\ files[d][OldestPrunable(d)].id # hist[d].target
    BY <2>2 DEF Prunable
  <2>4. hist[d].pc = "prune" /\ RemoveFile(d, OldestPrunable(d), "release")
    BY <1>1 DEF PruneOldest, At
  <2>. QED  BY <2>3, <2>4, FileTaken
<1>2. ASSUME NEW i \in DOMAIN files[d], RemoveBegin(d, i) PROVE SInv'
  BY <1>2, FileTaken DEF RemoveBegin, At
<1>. QED  BY <1>1, <1>2

\* A request that is answered leaves its snapshots as they are.
LEMMA Answered ==
    ASSUME SInv, IInv', NEW d \in Deck, Done(d), UNCHANGED files,
           \A e \in Deck : heads'[e] = NoHead <=> heads[e] = NoHead,
           \A e \in Deck, t \in Snapshot :
              retained'[HistoryOwner(e, t)] = retained[HistoryOwner(e, t)]
    PROVE  SInv'
<1>1. hist'[d].pc = "idle" /\ hist'[d].kept = FALSE /\ \A e \in Deck \ {d} : hist'[e] = hist[e]
  BY DEF Done, Idle, SInv, IInv, RequestsType
<1>2. Recoverable(d)' => Recoverable(d)
  BY <1>1 DEF Recoverable
<1>3. Unfiled(d)' /\ Targeted(d)' /\ Deleting(d)'
  BY <1>1 DEF Unfiled, Targeted, Deleting, InHand, SnapshotSteps
<1>. QED  BY <1>1, <1>2, <1>3, Moves, OwnStep

\* A request that goes on with no snapshot in hand.
LEMMA GoesAhead ==
    ASSUME SInv, IInv', NEW d \in Deck, NEW step \in Steps \ (InHand \cup SnapshotSteps),
           Goto(d, step), UNCHANGED files,
           \A e \in Deck \ {d} : heads'[e] = NoHead <=> heads[e] = NoHead,
           \A e \in Deck, t \in Snapshot :
              retained'[HistoryOwner(e, t)] = retained[HistoryOwner(e, t)],
           Recoverable(d)' => Recoverable(d), Deleting(d)'
    PROVE  SInv'
<1>1. hist'[d].pc = step /\ \A e \in Deck \ {d} : hist'[e] = hist[e]
  BY Fields DEF SInv
<1>2. Unfiled(d)' /\ Targeted(d)'
  BY <1>1 DEF Unfiled, Targeted, InHand, SnapshotSteps
<1>. QED  BY <1>1, <1>2, Moves, OwnStep

\* Requests that end and leave the snapshots alone.
LEMMA SnapshotAnswers ==
    ASSUME SInv, IInv', NEW d \in Deck,
           \/ RetainRefused(d) \/ ForwardRefused(d) \/ RestoreReturns(d) \/ UndoReturns(d)
           \/ DeleteReturns(d) \/ DeleteUndoFails(d)
    PROVE  SInv'
<1>1. Done(d) /\ UNCHANGED <<records, files>>
  BY DEF RetainRefused, ForwardRefused, RestoreReturns, UndoReturns, DeleteReturns, DeleteUndoFails,
         recordVars, DrainEnd, DrainFails
<1>2. UNCHANGED <<heads, retained>>
  BY <1>1 DEF records
<1>. QED  BY <1>1, <1>2, Answered

\* A file that could not be written, and the end of the pruning.
LEMMA SnapshotGoesOn ==
    ASSUME SInv, IInv', NEW d \in Deck, SnapshotFileFails(d) \/ PruneDone(d)
    PROVE  SInv'
<1>. USE DEF SInv
<1>1. UNCHANGED <<records, files>> /\ UNCHANGED <<heads, retained>> /\ SnapshotInv(d)
  BY DEF SnapshotFileFails, PruneDone, recordVars, records
<1>2. CASE SnapshotFileFails(d)
  <2>1. Goto(d, "unretain") /\ hist[d].pc = "write" /\ "unretain" \in Steps
    BY <1>2 DEF SnapshotFileFails, At, Steps, SnapshotSteps
  <2>2. /\ hist'[d].pc = "unretain" /\ hist'[d].snap = hist[d].snap
        /\ hist'[d].target = hist[d].target /\ \A e \in Deck \ {d} : hist'[e] = hist[e]
    BY <2>1, Fields
  <2>3. Recoverable(d)' => Recoverable(d)
    BY <1>1, <2>2 DEF Recoverable
  <2>4. Unfiled(d)' /\ Targeted(d)' /\ Deleting(d)'
    BY <1>1, <2>1, <2>2 DEF SnapshotInv, Unfiled, Targeted, Deleting, InHand, SnapshotSteps
  <2>. QED  BY <1>1, <2>2, <2>3, <2>4, Moves, OwnStep
<1>3. CASE PruneDone(d) /\ hist[d].target = NoSnapshot
  <2>1. Done(d)
    BY <1>3 DEF PruneDone
  <2>. QED  BY <1>1, <2>1, Answered
<1>4. CASE PruneDone(d) /\ hist[d].target # NoSnapshot
  <2>1. Goto(d, "forward") /\ hist[d].pc = "prune" /\ "forward" \in Steps
    BY <1>4 DEF PruneDone, At, Steps, SnapshotSteps
  <2>2. /\ hist'[d].pc = "forward" /\ hist'[d].target = hist[d].target
        /\ \A e \in Deck \ {d} : hist'[e] = hist[e]
    BY <2>1, Fields
  <2>3. Recoverable(d)' => Recoverable(d)
    BY <1>1, <2>2 DEF Recoverable
  <2>4. Unfiled(d)' /\ Targeted(d)' /\ Deleting(d)'
    BY <1>1, <2>1, <2>2 DEF SnapshotInv, Unfiled, Targeted, Deleting, InHand, SnapshotSteps
  <2>. QED  BY <1>1, <2>2, <2>3, <2>4, Moves, OwnStep
<1>. QED  BY <1>2, <1>3, <1>4

\* The restore itself moves heads, not snapshots.
LEMMA RestoreForwards ==
    ASSUME SInv, NEW d \in Deck, Forward(d)
    PROVE  SInv'
<1>. USE DEF SInv
<1>1. IInv' /\ \A e \in Deck : heads'[e] = NoHead <=> heads[e] = NoHead
  BY Forwards
<1>2. UNCHANGED <<retained, files>> /\ SnapshotInv(d)
  BY DEF Forward, RestoreForward
<1>7. CASE Done(d)
  BY <1>1, <1>2, <1>7, Answered
<1>. SUFFICES ASSUME ~Done(d) PROVE SInv'
  BY <1>7
<1>3. Goto(d, "drain") /\ hist[d].pc = "forward" /\ "drain" \in Steps
  BY DEF Forward, At, Steps, SnapshotSteps
<1>4. /\ hist'[d].pc = "drain" /\ hist'[d].target = hist[d].target
      /\ \A e \in Deck \ {d} : hist'[e] = hist[e]
  BY <1>3, Fields
<1>5. Recoverable(d)' => Recoverable(d)
  BY <1>1, <1>4 DEF Recoverable
<1>6. Unfiled(d)' /\ Targeted(d)' /\ Deleting(d)'
  BY <1>2, <1>3, <1>4 DEF SnapshotInv, Unfiled, Targeted, Deleting, InHand, SnapshotSteps
<1>. QED  BY <1>1, <1>2, <1>4, <1>5, <1>6, Moves, OwnStep

\* A file that comes back is marked: it is not offered for a restore.
LEMMA FileReturned ==
    ASSUME SInv, IInv', NEW d \in Deck, ReleaseFails(d)
    PROVE  SInv'
<1>. USE DEF SInv
<1>. DEFINE f == files[d]
<1>. DEFINE p == hist[d].pos
<1>. DEFINE yes == TRUE
<1>. DEFINE x == [id |-> hist[d].snap, gen |-> hist[d].gen, pending |-> yes]
<1>. DEFINE w == Inserted(f, p, x)
<1>. DEFINE n == Len(f)
<1>1. /\ SnapshotInv(d) /\ f \in Seq(Files) /\ hist[d] \in Histories /\ hist[d].snap \in Snapshot
      /\ hist[d].pc \in {"release", "remove"} /\ p \in 1 .. Len(f) + 1 /\ n \in Nat /\ DOMAIN f = 1 .. n
  BY Names, LenProperties DEF IInv, RequestsInv, RequestInv, ReleaseFails
<1>2. UNCHANGED <<heads, retained>> /\ Done(d)
  BY DEF ReleaseFails, records
<1>3. hist'[d].pc = "idle" /\ hist'[d].kept = FALSE /\ \A e \in Deck \ {d} : hist'[e] = hist[e]
  BY <1>2 DEF Done, Idle, IInv, RequestsType
<1>4. x \in Files /\ x.id = hist[d].snap /\ x.pending = TRUE
  BY <1>1 DEF Files, Histories
<1>5. files'[d] = w /\ \A e \in Deck \ {d} : files'[e] = files[e]
  <2>1. files' = [files EXCEPT ![d] = SubSeq(@, 1, p - 1) \o <<x>> \o SubSeq(@, p, Len(@))]
    BY DEF ReleaseFails
  <2>. QED  BY <2>1 DEF IInv, RequestsType, Inserted
<1>. HIDE DEF x
<1>6. /\ w \in Seq(Files) /\ DOMAIN w = 1 .. n + 1
      /\ \A k \in 1 .. n + 1 : w[k] = IF k < p THEN f[k] ELSE IF k = p THEN x ELSE f[k - 1]
  <2>1. f \in Seq(Files) /\ p \in 1 .. Len(f) + 1 /\ x \in Files
    BY <1>1, <1>4
  <2>. HIDE DEF f, p
  <2>2. /\ Inserted(f, p, x) \in Seq(Files) /\ DOMAIN Inserted(f, p, x) = 1 .. Len(f) + 1
        /\ \A k \in 1 .. Len(f) + 1 :
             Inserted(f, p, x)[k] = IF k < p THEN f[k] ELSE IF k = p THEN x ELSE f[k - 1]
    BY <2>1, PutBack
  <2>. QED  BY <2>2, Zenon
<1>. HIDE DEF w, n, p
<1>7. \A k \in 1 .. n + 1 : \/ k = p /\ w[k] = x
                            \/ k # p /\ \E j \in 1 .. n : w[k] = f[j] /\ j = IF k < p THEN k ELSE k - 1
  <2>0. p \in 1 .. n + 1
    BY <1>1 DEF n
  <2>1. ASSUME NEW k \in 1 .. n + 1
        PROVE  \/ k = p /\ w[k] = x
               \/ k # p /\ \E j \in 1 .. n : w[k] = f[j] /\ j = IF k < p THEN k ELSE k - 1
    <3>1. CASE k < p
      <4>1. k \in 1 .. n /\ k # p /\ w[k] = f[k]
        BY <1>1, <1>6, <2>0, <3>1
      <4>. QED  BY <3>1, <4>1
    <3>2. CASE k = p
      BY <1>6, <3>2, <2>0
    <3>3. CASE k > p
      <4>1. k - 1 \in 1 .. n /\ k # p /\ ~(k < p)
        <5>1. n \in Nat /\ p \in 1 .. n + 1 /\ k \in 1 .. n + 1
          BY <1>1, <2>0
        <5>. QED  BY <3>3, <5>1
      <4>2. w[k] = f[k - 1]
        <5>1. w[k] = IF k < p THEN f[k] ELSE IF k = p THEN x ELSE f[k - 1]
          BY <1>6
        <5>. QED  BY <4>1, <5>1, Zenon
      <4>. QED  BY <4>1, <4>2
    <3>. QED  BY <2>0, <3>1, <3>2, <3>3
  <2>. QED  BY <2>1
<1>8. /\ \A a, b \in 1 .. n : f[a].id = f[b].id => a = b
      /\ \A a \in 1 .. n : f[a].id # x.id
  BY <1>1, <1>4 DEF SnapshotInv, Distinct, Unfiled, InHand
<1>9. Distinct(d)'
  <2>1. ASSUME NEW a \in 1 .. n + 1, NEW b \in 1 .. n + 1, w[a].id = w[b].id
        PROVE  a = b
    <3>0. p \in 1 .. n + 1
      BY <1>1 DEF n
    <3>1. CASE a = p \/ b = p
      BY <1>7, <1>8, <2>1, <3>1
    <3>2. CASE a # p /\ b # p
      <4>1. PICK i \in 1 .. n : w[a] = f[i] /\ i = IF a < p THEN a ELSE a - 1
        BY <1>7, <3>2
      <4>2. PICK j \in 1 .. n : w[b] = f[j] /\ j = IF b < p THEN b ELSE b - 1
        BY <1>7, <3>2
      <4>3. i = j
        BY <1>8, <2>1, <4>1, <4>2
      <4>. QED  BY <1>1, <3>0, <3>2, <4>1, <4>2, <4>3
    <3>. QED  BY <3>1, <3>2
  <2>. QED  BY <1>5, <1>6, <2>1 DEF Distinct
<1>10. Backed(d)'
  <2>1. Recoverable(d)' => Recoverable(d)
    BY <1>2, <1>3 DEF Recoverable
  <2>2. Recoverable(d) => \A j \in 1 .. n : Backs(retained[HistoryOwner(d, f[j].id)], f[j])
    BY <1>1 DEF SnapshotInv, Backed
  <2>3. Backs(retained[HistoryOwner(d, x.id)], x)
    BY <1>4 DEF Backs
  <2>4. Recoverable(d) => \A k \in 1 .. n + 1 : Backs(retained[HistoryOwner(d, w[k].id)], w[k])
    BY <1>7, <2>2, <2>3
  <2>. QED  BY <1>2, <1>5, <1>6, <2>1, <2>4 DEF Backed
<1>11. SnapshotInv(d)'
  BY <1>3, <1>9, <1>10, Ends
<1>. QED  BY <1>2, <1>3, <1>5, <1>11, OwnStep

-----------------------------------------------------------------------------
(* The permanent deletion *)

\* A deletion reads the head of its deck, and goes on without one.
LEMMA DeletionReads ==
    ASSUME SInv, IInv', NEW d \in Deck, DeleteRead(d)
    PROVE  SInv'
<1>. USE DEF SInv
<1>1. /\ UNCHANGED <<records, files>> /\ UNCHANGED <<heads, retained>>
      /\ SnapshotInv(d) /\ hist[d].pc = "d.read"
  BY DEF DeleteRead, recordVars, records, At
<1>2. hist[d].kept = FALSE
  BY <1>1 DEF SnapshotInv, Deleting
<1>3. CASE Done(d)
  BY <1>1, <1>3, Answered
<1>4. CASE heads[d] = NoHead /\ Goto(d, "d.splice")
  <2>1. "d.splice" \in Steps \ (InHand \cup SnapshotSteps)
    BY DEF Steps, DeleteSteps, InHand, SnapshotSteps
  <2>2. hist'[d].pc = "d.splice" /\ hist'[d].kept = FALSE
    BY <1>2, <1>4, <2>1, Fields
  <2>3. Recoverable(d)' => Recoverable(d)
    BY <1>1, <2>2 DEF Recoverable
  <2>4. Deleting(d)'
    BY <1>1, <1>4, <2>2 DEF Deleting
  <2>. QED  BY <1>1, <1>4, <2>1, <2>3, <2>4, GoesAhead
<1>5. CASE heads[d] # NoHead
  <2>. DEFINE h == heads[d]
  <2>. DEFINE x == [hist[d] EXCEPT !.pc = "d.retain", !.cur = h]
  <2>1. hist \in [Deck -> Histories] /\ hist[d] \in Histories
    BY DEF IInv, RequestsType
  <2>2. hist' = [hist EXCEPT ![d] = x]
    BY <1>5, <2>1 DEF DeleteRead
  <2>3. x.pc = "d.retain" /\ x.kept = hist[d].kept
    BY <2>1 DEF Histories
  <2>. HIDE DEF x
  <2>4. /\ hist'[d].pc = "d.retain" /\ hist'[d].kept = FALSE
        /\ \A e \in Deck \ {d} : hist'[e] = hist[e]
    BY <1>2, <2>1, <2>2, <2>3
  <2>5. Recoverable(d)
    BY <1>5 DEF Recoverable
  <2>6. Unfiled(d)' /\ Targeted(d)' /\ Deleting(d)'
    BY <2>4 DEF Unfiled, Targeted, Deleting, InHand, SnapshotSteps
  <2>. QED  BY <1>1, <2>4, <2>5, <2>6, Moves, OwnStep
<1>. QED  BY <1>3, <1>4, <1>5 DEF DeleteRead

\* A deletion retains the head before it takes it.
LEMMA DeletionRetains ==
    ASSUME SInv, IInv', NEW d \in Deck, DeleteRetain(d)
    PROVE  SInv'
<1>. USE DEF SInv
<1>1. UNCHANGED files /\ hist[d].cur # NoHead
  BY DEF DeleteRetain, StoreOnly, At, IInv, RequestsInv, RequestInv, HoldsHead
<1>2. CASE heads[d] # hist[d].cur
  <2>1. Done(d) /\ UNCHANGED <<heads, retained>>
    BY <1>2 DEF DeleteRetain, records
  <2>. QED  BY <1>1, <2>1, Answered
<1>4. CASE heads[d] = hist[d].cur /\ Done(d)
  <2>1. UNCHANGED heads /\ retained' = [retained EXCEPT ![DeleteOwner(d)] = heads[d]]
    BY <1>4 DEF DeleteRetain, Retain
  <2>. QED  BY <1>1, <1>4, <2>1, DeleteOwnerWritten, Answered
<1>3. CASE heads[d] = hist[d].cur /\ ~Done(d)
  <2>. DEFINE yes == TRUE
  <2>. DEFINE x == [hist[d] EXCEPT !.pc = "d.quarantine", !.kept = yes]
  <2>1. hist \in [Deck -> Histories] /\ hist[d] \in Histories
    BY DEF IInv, RequestsType
  <2>2. hist' = [hist EXCEPT ![d] = x]
    <3>1. hist' = [hist EXCEPT ![d].pc = "d.quarantine", ![d].kept = yes]
      BY <1>3 DEF DeleteRetain
    <3>. HIDE DEF yes
    <3>. QED  BY <2>1, <3>1
  <2>3. x.pc = "d.quarantine" /\ x.kept = TRUE
    BY <2>1 DEF Histories
  <2>. HIDE DEF x
  <2>4. /\ hist'[d].pc = "d.quarantine" /\ hist'[d].kept = TRUE
        /\ \A e \in Deck \ {d} : hist'[e] = hist[e]
    BY <2>1, <2>2, <2>3
  <2>5. UNCHANGED heads /\ retained' = [retained EXCEPT ![DeleteOwner(d)] = heads[d]]
    BY <1>3 DEF DeleteRetain, Retain
  <2>6. Recoverable(d)
    BY <1>1, <1>3 DEF Recoverable
  <2>7. Unfiled(d)' /\ Targeted(d)' /\ Deleting(d)'
    BY <2>4 DEF Unfiled, Targeted, Deleting, InHand, SnapshotSteps
  <2>. QED  BY <1>1, <2>4, <2>5, <2>6, <2>7, DeleteOwnerWritten, Moves, OwnStep
<1>. QED  BY <1>2, <1>3, <1>4

\* A quarantine takes the head; the deletion has retained it.
LEMMA DeletionQuarantines ==
    ASSUME SInv, IInv', NEW d \in Deck, DeleteQuarantine(d) \/ DeleteQuarantineFails(d)
    PROVE  SInv'
<1>. USE DEF SInv
<1>1. /\ SnapshotInv(d) /\ UNCHANGED <<retained, files>> /\ hist[d].pc = "d.quarantine"
      /\ \A e \in Deck \ {d} : heads'[e] = heads[e]
  BY DEF DeleteQuarantine, DeleteQuarantineFails, Quarantine, StoreOnly, At, records, IInv, RecordsType
<1>2. hist[d].kept = TRUE /\ Recoverable(d)
  BY <1>1 DEF SnapshotInv, Deleting, Recoverable
<1>3. CASE DeleteQuarantine(d)
  <2>1. "d.splice" \in Steps \ (InHand \cup SnapshotSteps)
    BY DEF Steps, DeleteSteps, InHand, SnapshotSteps
  <2>2. Goto(d, "d.splice") /\ heads'[d] = NoHead
    BY <1>3 DEF DeleteQuarantine, Quarantine, IInv, RecordsType
  <2>3. hist'[d].pc = "d.splice"
    BY <2>1, <2>2, Fields
  <2>4. Deleting(d)'
    BY <2>2, <2>3 DEF Deleting
  <2>. QED  BY <1>1, <1>2, <2>1, <2>2, <2>4, GoesAhead
<1>4. CASE DeleteQuarantineFails(d)
  <2>. DEFINE one == 1
  <2>. DEFINE step == IF hist[d].attempt = 0 THEN hist[d].pc ELSE "d.undo"
  <2>. DEFINE x == [hist[d] EXCEPT !.attempt = one, !.pc = step]
  <2>1. hist \in [Deck -> Histories] /\ hist[d] \in Histories
    BY DEF IInv, RequestsType
  <2>2. hist' = [hist EXCEPT ![d].attempt = one, ![d].pc = step]
    <3>1. hist' = [hist EXCEPT ![d].attempt = 1,
                       ![d].pc = IF hist[d].attempt = 0 THEN @ ELSE "d.undo"]
      BY <1>4 DEF DeleteQuarantineFails
    <3>. QED  BY <2>1, <3>1 DEF Histories
  <2>3. step \in {"d.quarantine", "d.undo"}
    BY <1>1
  <2>. HIDE DEF one, step
  <2>4. x.pc = step /\ x.kept = hist[d].kept
    BY <2>1 DEF Histories
  <2>5. hist' = [hist EXCEPT ![d] = x]
    BY <2>1, <2>2
  <2>. HIDE DEF x
  <2>6. /\ hist'[d].pc = step /\ hist'[d].kept = TRUE /\ \A e \in Deck \ {d} : hist'[e] = hist[e]
    BY <1>2, <2>1, <2>4, <2>5
  <2>7. Unfiled(d)' /\ Targeted(d)' /\ Deleting(d)'
    BY <2>3, <2>6 DEF Unfiled, Targeted, Deleting, InHand, SnapshotSteps
  <2>. QED  BY <1>1, <1>2, <2>6, <2>7, Moves, OwnStep
<1>. QED  BY <1>3, <1>4

\* Steps of a deletion that leave the records alone.
LEMMA DeletionMoves ==
    ASSUME SInv, IInv', NEW d \in Deck,
           \/ DeleteQuarantineStale(d) \/ DeleteSplice(d) \/ DeleteSpliceFails(d) \/ DeleteCheck(d)
    PROVE  SInv'
<1>. USE DEF SInv
<1>1. UNCHANGED <<records, files>> /\ UNCHANGED <<heads, retained>> /\ SnapshotInv(d)
      /\ hist[d].pc \in {"d.quarantine", "d.splice", "d.check"}
  BY DEF DeleteQuarantineStale, DeleteSplice, DeleteSpliceFails, DeleteCheck, recordVars, records, At
<1>2. /\ hist[d].pc = "d.quarantine" => hist[d].kept = TRUE
      /\ hist[d].pc # "d.quarantine" => heads[d] = NoHead
  BY <1>1 DEF SnapshotInv, Deleting
<1>3. CASE Done(d)
  BY <1>1, <1>3, Answered
<1>4. ASSUME NEW step \in {"d.splice", "d.stale", "d.check", "d.owners"}, Goto(d, step),
             step # "d.stale" => heads[d] = NoHead
      PROVE  SInv'
  <2>1. step \in Steps \ (InHand \cup SnapshotSteps)
    BY DEF Steps, DeleteSteps, InHand, SnapshotSteps
  <2>2. hist'[d].pc = step /\ hist'[d].kept = hist[d].kept
    BY <1>4, <2>1, Fields
  <2>3. Recoverable(d)' => Recoverable(d)
    BY <1>1, <2>2 DEF Recoverable
  <2>4. Deleting(d)'
    BY <1>1, <1>4, <2>2 DEF Deleting
  <2>. QED  BY <1>1, <1>4, <2>1, <2>3, <2>4, GoesAhead
<1>5. ASSUME hist' = [hist EXCEPT ![d].pc = "d.undo", ![d].attempt = 2], hist[d].kept
      PROVE  SInv'
  <2>. DEFINE two == 2
  <2>. DEFINE x == [hist[d] EXCEPT !.pc = "d.undo", !.attempt = two]
  <2>1. hist \in [Deck -> Histories] /\ hist[d] \in Histories /\ hist[d].kept = TRUE
    <3>1. hist[d].kept \in BOOLEAN
      BY DEF IInv, RequestsType, Histories
    <3>. QED  BY <1>5, <3>1 DEF IInv, RequestsType
  <2>2. hist' = [hist EXCEPT ![d] = x]
    BY <1>5, <2>1
  <2>. HIDE DEF two
  <2>3. x.pc = "d.undo" /\ x.kept = TRUE
    BY <2>1 DEF Histories
  <2>. HIDE DEF x
  <2>4. /\ hist'[d].pc = "d.undo" /\ hist'[d].kept = TRUE
        /\ \A e \in Deck \ {d} : hist'[e] = hist[e]
    BY <2>1, <2>2, <2>3
  <2>5. Recoverable(d)
    BY <1>1, <2>1 DEF Recoverable
  <2>6. Unfiled(d)' /\ Targeted(d)' /\ Deleting(d)'
    BY <2>4 DEF Unfiled, Targeted, Deleting, InHand, SnapshotSteps
  <2>. QED  BY <1>1, <2>4, <2>5, <2>6, Moves, OwnStep
<1>6. CASE DeleteQuarantineStale(d)
  <2>1. CASE heads[d] = NoHead
    <3>1. Goto(d, "d.splice")
      BY <1>6, <2>1 DEF DeleteQuarantineStale
    <3>. QED  BY <1>4, <2>1, <3>1
  <2>2. CASE heads[d] # NoHead
    <3>1. Goto(d, "d.stale")
      BY <1>6, <2>2 DEF DeleteQuarantineStale
    <3>. QED  BY <1>4, <3>1
  <2>. QED  BY <2>1, <2>2
<1>7. CASE DeleteSplice(d)
  <2>1. heads[d] = NoHead
    BY <1>2, <1>7 DEF DeleteSplice, At
  <2>. QED  BY <1>4, <1>7, <2>1 DEF DeleteSplice
<1>8. CASE DeleteSpliceFails(d)
  BY <1>3, <1>5, <1>8 DEF DeleteSpliceFails
<1>9. CASE DeleteCheck(d)
  <2>1. heads[d] = NoHead
    BY <1>2, <1>9 DEF DeleteCheck, At
  <2>. QED  BY <1>3, <1>4, <1>5, <1>9, <2>1 DEF DeleteCheck
<1>. QED  BY <1>6, <1>7, <1>8, <1>9

\* The owner of the deletion is none of a snapshot.
LEMMA DeletionReleases ==
    ASSUME SInv, IInv', NEW d \in Deck, DeleteStale(d) \/ DeleteUndoRelease(d) \/ DeleteRelease(d)
    PROVE  SInv'
<1>. USE DEF SInv
<1>1. /\ UNCHANGED <<heads, files>> /\ retained' = [retained EXCEPT ![DeleteOwner(d)] = NoHead]
      /\ SnapshotInv(d)
  BY DEF DeleteStale, DeleteUndoRelease, DeleteRelease, Release, StoreOnly
<1>2. \A e \in Deck, t \in Snapshot : retained'[HistoryOwner(e, t)] = retained[HistoryOwner(e, t)]
  BY <1>1, DeleteOwnerWritten
<1>3. CASE Done(d)
  BY <1>1, <1>2, <1>3, Answered
<1>4. ASSUME NEW step \in {"d.undoDrain", "d.files"}, Goto(d, step),
             step = "d.files" => hist[d].pc = "d.release"
      PROVE  SInv'
  <2>1. step \in Steps \ (InHand \cup SnapshotSteps)
    BY DEF Steps, DeleteSteps, InHand, SnapshotSteps
  <2>2. hist'[d].pc = step
    BY <1>4, <2>1, Fields
  <2>3. Recoverable(d)' => Recoverable(d)
    BY <1>1, <2>2 DEF Recoverable
  <2>4. Deleting(d)'
    BY <1>1, <1>4, <2>2 DEF SnapshotInv, Deleting
  <2>. QED  BY <1>1, <1>2, <1>4, <2>1, <2>3, <2>4, GoesAhead
<1>5. CASE DeleteStale(d)
  BY <1>3, <1>5 DEF DeleteStale
<1>6. CASE DeleteUndoRelease(d)
  BY <1>3, <1>4, <1>6 DEF DeleteUndoRelease
<1>7. CASE DeleteRelease(d)
  BY <1>4, <1>7 DEF DeleteRelease, At
<1>. QED  BY <1>5, <1>6, <1>7

\* Once the snapshots are released the deck has no head to restore them into.
LEMMA DeletionFinishes ==
    ASSUME SInv, IInv', NEW d \in Deck, DeleteOwners(d) \/ DeleteFiles(d)
    PROVE  SInv'
<1>. USE DEF SInv
<1>1. /\ SnapshotInv(d) /\ UNCHANGED heads /\ hist[d].pc \in {"d.owners", "d.files"}
      /\ heads[d] = NoHead
  BY DEF DeleteOwners, DeleteFiles, Release, recordVars, records, At, SnapshotInv, Deleting
<1>2. CASE DeleteFiles(d)
  <2>1. Goto(d, "d.drain") /\ UNCHANGED <<retained>> /\ files' = [files EXCEPT ![d] = <<>>]
    BY <1>2 DEF DeleteFiles, recordVars, records
  <2>2. "d.drain" \in Steps
    BY DEF Steps, DeleteSteps
  <2>3. hist'[d].pc = "d.drain" /\ \A e \in Deck \ {d} : hist'[e] = hist[e]
    BY <2>1, <2>2, Fields
  <2>4. files'[d] = <<>> /\ \A e \in Deck \ {d} : files'[e] = files[e]
    BY <2>1 DEF IInv, RequestsType
  <2>5. DOMAIN files'[d] = {}
    BY <2>4
  <2>6. SnapshotInv(d)'
    BY <2>3, <2>5 DEF SnapshotInv, Distinct, Backed, Unfiled, Targeted, Deleting, InHand, SnapshotSteps
  <2>. QED  BY <1>1, <2>1, <2>3, <2>4, <2>6, OwnStep
<1>3. CASE DeleteOwners(d) /\ HistoryOwnersOf(d) = {}
  <2>1. Goto(d, "d.release") /\ UNCHANGED <<retained, files>>
        /\ "d.release" \in Steps \ (InHand \cup SnapshotSteps)
    BY <1>3 DEF DeleteOwners, records, StoreOnly, Steps, DeleteSteps, InHand, SnapshotSteps
  <2>2. hist'[d].pc = "d.release"
    BY <2>1, Fields
  <2>3. (Recoverable(d)' => Recoverable(d)) /\ Deleting(d)'
    BY <1>1, <2>2 DEF Recoverable, Deleting
  <2>. QED  BY <1>1, <2>1, <2>3, GoesAhead
<1>4. CASE DeleteOwners(d) /\ HistoryOwnersOf(d) # {}
  <2>1. UNCHANGED <<hist, files>> /\ hist[d].pc = "d.owners"
    BY <1>4 DEF DeleteOwners, StoreOnly, At
  <2>2. PICK s \in Snapshot : retained' = [retained EXCEPT ![HistoryOwner(d, s)] = NoHead]
    BY <1>4 DEF DeleteOwners, HistoryOwnersOf, Release
  <2>3. \A e \in Deck \ {d}, t \in Snapshot :
          retained'[HistoryOwner(e, t)] = retained[HistoryOwner(e, t)]
    BY <2>2, HistoryOwnerReleased
  <2>4. Backed(d)'
    BY <1>1, <2>1 DEF Backed, Recoverable
  <2>5. Distinct(d)'
    BY <1>1, <2>1 DEF SnapshotInv, Distinct
  <2>6. Unfiled(d)' /\ Targeted(d)' /\ Deleting(d)'
    BY <1>1, <2>1 DEF Unfiled, Targeted, Deleting, InHand, SnapshotSteps
  <2>7. SnapshotInv(d)'
    BY <2>4, <2>5, <2>6 DEF SnapshotInv
  <2>. QED  BY <1>1, <2>1, <2>3, <2>7, OwnStep
<1>. QED  BY <1>2, <1>3, <1>4

\* The compensation gives the deck its head back, with all its snapshots.
LEMMA DeletionUndoes ==
    ASSUME SInv, IInv', NEW d \in Deck, DeleteUndo(d)
    PROVE  SInv'
<1>. USE DEF SInv
<1>1. /\ SnapshotInv(d) /\ UNCHANGED <<retained, files>> /\ hist[d].pc = "d.undo"
      /\ Goto(d, "d.undoRelease") /\ "d.undoRelease" \in Steps \ (InHand \cup SnapshotSteps)
      /\ \A e \in Deck \ {d} : heads'[e] = heads[e]
  BY DEF DeleteUndo, RestoreQuarantined, SetHead, StoreOnly, At, records, IInv, RecordsType, Steps,
         DeleteSteps, InHand, SnapshotSteps
<1>2. Recoverable(d)
  BY <1>1 DEF SnapshotInv, Deleting, Recoverable
<1>3. Deleting(d)'
  <2>1. hist'[d].pc = "d.undoRelease"
    BY <1>1, Fields
  <2>. QED  BY <2>1 DEF Deleting
<1>. QED  BY <1>1, <1>2, <1>3, GoesAhead

-----------------------------------------------------------------------------
(* Crashes, the first state, and every step *)

\* A crash in a deletion leaves a deck without its head, and snapshots that no
\* restore is offered; otherwise every file keeps its retained head.
LEMMA CrashKeeps ==
    ASSUME SInv, IInv', Crash
    PROVE  SInv'
<1>1. UNCHANGED <<heads, retained, files>> /\ hist' = [e \in Deck |-> Idle]
  BY DEF Crash, records
<1>2. ASSUME NEW d \in Deck PROVE SnapshotInv(d)'
  <2>1. hist'[d].pc = "idle" /\ hist'[d].kept = FALSE /\ SnapshotInv(d)
    BY <1>1 DEF Idle, SInv
  <2>2. Recoverable(d)' => Recoverable(d)
    BY <1>1, <2>1 DEF Recoverable
  <2>3. Unfiled(d)' /\ Targeted(d)' /\ Deleting(d)'
    BY <2>1 DEF Unfiled, Targeted, Deleting, InHand, SnapshotSteps
  <2>. QED  BY <1>1, <2>2, <2>3, Moves
<1>. QED  BY <1>2 DEF SInv

\* The snapshots of every deck, in every state of every behaviour.
LEMMA SnapshotsInvariance == Spec => []SInv
<1>1. Init => SInv
  <2>. SUFFICES ASSUME Init PROVE SInv
    OBVIOUS
  <2>1. ASSUME NEW d \in Deck PROVE SnapshotInv(d)
    <3>1. files[d] = <<>> /\ hist[d].pc = "idle"
      BY DEF Init, Idle
    <3>2. DOMAIN files[d] = {}
      BY <3>1
    <3>. QED  BY <3>1, <3>2 DEF SnapshotInv, Distinct, Backed, Unfiled, Targeted, Deleting, InHand,
                               SnapshotSteps
  <2>. QED  BY <2>1, Starts DEF SInv
<1>2. SInv /\ IInv' /\ [Next]_vars => SInv'
  <2>. SUFFICES ASSUME SInv, IInv', [Next]_vars PROVE SInv'
    OBVIOUS
  <2>1. CASE UNCHANGED vars
    BY <2>1, StillSteps DEF vars, recordVars, requests
  <2>2. ASSUME NEW d \in Deck,
               \/ ExportBegin(d) \/ ExportRefused(d) \/ ExportReturns(d) \/ SaveStep(d)
               \/ ExportDrain(d) \/ HistoryDrain(d)
        PROVE  SInv'
    <3>1. UNCHANGED <<records, files, hist>>
      BY <2>2 DEF ExportBegin, ExportRefused, ExportReturns, SaveStep, SaveDrain, SaveReturns,
                  ExportDrain, HistoryDrain, recordVars, requests, BeginsDrain, DrainBegin, DrainEnd, DrainFails
    <3>. QED  BY <3>1, StillSteps
  <2>3. CASE Apply \/ Restart
    <3>1. UNCHANGED <<records, files, hist>>
      BY <2>3 DEF Apply, Restart, RestartDrain, RestartReady, requests, DrainApply, DrainAcknowledge,
                  BeginsDrain, DrainBegin, DrainEnd, DrainFails
    <3>. QED  BY <3>1, StillSteps
  <2>4. ASSUME NEW d \in Deck, Begin(d) PROVE SInv'
    BY <2>2, <2>4, EditSteps, TakesLock, FileRemovals DEF Begin
  <2>5. ASSUME NEW d \in Deck, ExportStep(d) PROVE SInv'
    BY <2>2, <2>5, EditSteps DEF ExportStep
  <2>6. ASSUME NEW d \in Deck, SnapshotStep(d) PROVE SInv'
    BY <2>6, SnapshotRetained, SnapshotAnswers, SnapshotFiled, SnapshotReleased, FileRemovals,
       SnapshotGoesOn, RestoreForwards DEF SnapshotStep
  <2>7. ASSUME NEW d \in Deck, DeleteStep(d) PROVE SInv'
    BY <2>7, DeletionReads, DeletionRetains, DeletionQuarantines, DeletionMoves, DeletionReleases,
       DeletionUndoes, DeletionFinishes, SnapshotAnswers DEF DeleteStep
  <2>8. ASSUME NEW d \in Deck, Failures(d) PROVE SInv'
    BY <2>2, <2>8, SnapshotGoesOn, FileReturned, DeletionQuarantines, DeletionMoves DEF Failures
  <2>9. CASE Crash
    BY <2>9, CrashKeeps
  <2>. QED  BY <2>1, <2>2, <2>3, <2>4, <2>5, <2>6, <2>7, <2>8, <2>9 DEF Next, HistoryStep
<1>. QED  BY <1>1, <1>2, Invariance, PTL DEF Spec

\* A snapshot that is offered for a restore has the retained head it was written
\* for, however pruning, removal, restore and deletion interleave with saves and
\* crashes; and the snapshot a restore takes first never costs it its target.
THEOREM SnapshotsStayRestorable == Spec => []SnapshotsAreRestorable
<1>1. SInv => SnapshotsAreRestorable
  <2>. SUFFICES ASSUME SInv PROVE SnapshotsAreRestorable
    OBVIOUS
  <2>1. ASSUME NEW d \in Deck, heads[d] # NoHead, NEW i \in DOMAIN files[d], ~files[d][i].pending
        PROVE  LET h == retained[HistoryOwner(d, files[d][i].id)]
               IN  h # NoHead /\ h.gen = files[d][i].gen /\ Presentable(h)
    <3>1. files[d][i].pending = FALSE
      <4>1. files[d][i] \in Files
        BY Names DEF SInv
      <4>2. files[d][i].pending \in BOOLEAN
        BY <4>1 DEF Files
      <4>. QED  BY <2>1, <4>2
    <3>. QED  BY <2>1, <3>1 DEF SInv, SnapshotInv, Backed, Recoverable, Backs
  <2>2. ASSUME NEW d \in Deck, hist[d].pc \in SnapshotSteps \ {"remove"},
               hist[d].target # NoSnapshot
        PROVE  retained[HistoryOwner(d, hist[d].target)] # NoHead
    BY <2>2 DEF SInv, SnapshotInv, Targeted
  <2>. QED  BY <2>1, <2>2 DEF SnapshotsAreRestorable
<1>. QED  BY <1>1, SnapshotsInvariance, PTL

-----------------------------------------------------------------------------
(* The queue, the rows and the heads *)

RowsInv == QueueType /\ QueueInv

\* Commits are numbered.
LEMMA CommitsNumbered == ASSUME IInv PROVE Numbered
BY DEF IInv, RecordsType, Commits, Numbered

\* The head of a deck is its newest commit.
LEMMA HeadIsNewest ==
    ASSUME AuthorityInv', NEW d \in Deck, NEW g, heads'[d] # NoHead, heads'[d].gen = g
    PROVE  UpToDate(d, g)' /\ Known(d, g)' /\ Shown(d)' = g
<1>1. CommitOf(heads'[d]) \in commits'[d] /\ \A x \in commits'[d] : x.gen <= heads'[d].gen
  BY DEF AuthorityInv, Newest, CommitOf
<1>2. CommitOf(heads'[d]).gen = g
  BY DEF CommitOf
<1>3. g <= g
  <2>1. CommitOf(heads'[d]).gen <= heads'[d].gen
    BY <1>1
  <2>. QED  BY <1>2, <2>1
<1>. QED  BY <1>1, <1>2, <1>3 DEF UpToDate, Known, Shown

\* Nothing that concerns the rows happens; a call may fail.
LEMMA RowsRest ==
    ASSUME RowsInv, UNCHANGED <<heads, commits, outbox, clock, lost, rows, drain>>,
           UNCHANGED faults \/ \E p \in {"file", "release", "quarantine", "splice", "commit"} : Fault(p)
    PROVE  RowsInv'
<1>1. faults' \in [at : SUBSET FaultPoints, left : 0 .. MaxFaults]
  BY FaultType DEF RowsInv, QueueType
<1>2. QueueType'
  BY <1>1 DEF RowsInv, QueueType
<1>3. \A d \in Deck : SameShown(d)
  BY DEF SameShown, Shown
<1>. QED  BY <1>2, <1>3, QueueRests DEF RowsInv

\* The steps of requests that neither publish, nor change rows, nor drain.
LEMMA RequestSteps ==
    ASSUME RowsInv, NEW d \in Deck,
           \/ ExportBegin(d) \/ ExportRefused(d) \/ DeleteBegin(d)
           \/ \E s \in Snapshot : SnapshotBegin(d, s)
           \/ \E i \in DOMAIN files[d], s \in Snapshot : RestoreBegin(d, i, s)
           \/ \E i \in DOMAIN files[d] : RemoveBegin(d, i)
           \/ RetainSnapshot(d) \/ RetainRefused(d) \/ WriteSnapshotFile(d)
           \/ UnretainSnapshot(d) \/ PruneOldest(d) \/ PruneDone(d) \/ ReleaseSnapshot(d)
           \/ ForwardRefused(d) \/ SnapshotFileFails(d) \/ ReleaseFails(d) \/ DeleteSpliceFails(d)
    PROVE  RowsInv'
<1>1. /\ UNCHANGED <<heads, commits, outbox, clock, lost, rows, drain>>
      /\ UNCHANGED faults \/ \E p \in {"file", "release", "quarantine", "splice", "commit"} : Fault(p)
  <2>. USE DEF recordVars, records, queue, StoreOnly
  <2>1. CASE ExportBegin(d) \/ ExportRefused(d) \/ DeleteBegin(d)
    BY <2>1 DEF ExportBegin, ExportRefused, DeleteBegin
  <2>2. CASE \/ \E s \in Snapshot : SnapshotBegin(d, s)
             \/ \E i \in DOMAIN files[d], s \in Snapshot : RestoreBegin(d, i, s)
             \/ \E i \in DOMAIN files[d] : RemoveBegin(d, i)
    BY <2>2 DEF SnapshotBegin, RestoreBegin, RemoveBegin, RemoveFile
  <2>3. CASE RetainSnapshot(d) \/ RetainRefused(d) \/ WriteSnapshotFile(d) \/ UnretainSnapshot(d)
    BY <2>3 DEF RetainSnapshot, RetainRefused, WriteSnapshotFile, UnretainSnapshot, Retain, Release
  <2>4. CASE PruneOldest(d) \/ PruneDone(d) \/ ReleaseSnapshot(d) \/ ForwardRefused(d)
    BY <2>4 DEF PruneOldest, RemoveFile, PruneDone, ReleaseSnapshot, ForwardRefused, Release
  <2>5. CASE SnapshotFileFails(d) \/ ReleaseFails(d) \/ DeleteSpliceFails(d)
    BY <2>5 DEF SnapshotFileFails, ReleaseFails, DeleteSpliceFails
  <2>. QED  BY <2>1, <2>2, <2>3, <2>4, <2>5
<1>. QED  BY <1>1, RowsRest

\* The same for the steps of a deletion.
LEMMA DeletionSteps ==
    ASSUME RowsInv, NEW d \in Deck,
           \/ DeleteRead(d) \/ DeleteRetain(d) \/ DeleteQuarantineStale(d) \/ DeleteStale(d)
           \/ DeleteCheck(d) \/ DeleteUndoFails(d) \/ DeleteUndoRelease(d) \/ DeleteOwners(d)
           \/ DeleteRelease(d) \/ DeleteFiles(d)
    PROVE  RowsInv'
<1>1. /\ UNCHANGED <<heads, commits, outbox, clock, lost, rows, drain>>
      /\ UNCHANGED faults \/ \E p \in {"file", "release", "quarantine", "splice", "commit"} : Fault(p)
  <2>. USE DEF recordVars, records, queue, StoreOnly
  <2>1. CASE DeleteRead(d) \/ DeleteRetain(d) \/ DeleteQuarantineStale(d) \/ DeleteStale(d)
    BY <2>1 DEF DeleteRead, DeleteRetain, DeleteQuarantineStale, DeleteStale, Retain, Release
  <2>2. CASE DeleteCheck(d) \/ DeleteUndoFails(d) \/ DeleteUndoRelease(d) \/ DeleteOwners(d)
    BY <2>2 DEF DeleteCheck, DeleteUndoFails, DeleteUndoRelease, DeleteOwners, Release
  <2>3. CASE DeleteRelease(d) \/ DeleteFiles(d)
    BY <2>3 DEF DeleteRelease, DeleteFiles, Release
  <2>. QED  BY <2>1, <2>2, <2>3
<1>. QED  BY <1>1, RowsRest

\* A head is published, and the write that shows it is queued.
LEMMA PublicationQueued ==
    ASSUME IInv, IInv', RowsInv, NEW d \in Deck, NEW g \in Nat \ {0},
           heads'[d] # NoHead, heads'[d].gen = g, QueueUpsert(d, g) \/ QueueCompensation(d, g),
           UNCHANGED <<rows, drain>>,
           UNCHANGED faults \/ \E p \in {"file", "release", "quarantine", "splice", "commit"} : Fault(p),
           \A e \in Deck \ {d} : SameShown(e), commits[d] \subseteq commits'[d]
    PROVE  RowsInv'
<1>1. UpToDate(d, g)' /\ Known(d, g)' /\ Shown(d)' = g
  BY HeadIsNewest DEF IInv
<1>2. faults' \in [at : SUBSET FaultPoints, left : 0 .. MaxFaults]
  BY FaultType DEF RowsInv, QueueType
<1>3. outbox' \in Seq(Writes) /\ clock' \in Nat /\ lost' \subseteq Deck /\ QueueInv'
  <2>1. lost \subseteq Deck /\ QueueType /\ QueueInv
    BY DEF RowsInv, QueueType
  <2>. HIDE DEF QueueType, QueueInv, SameShown, Shown, UpToDate, Known
  <2>2. CASE QueueUpsert(d, g)
    BY <1>1, <2>1, <2>2, UpsertQueued
  <2>3. CASE QueueCompensation(d, g)
    BY <1>1, <2>1, <2>3, CompensationQueued
  <2>. QED  BY <2>2, <2>3
<1>. QED  BY <1>2, <1>3 DEF RowsInv, QueueType

\* A save queues the write that shows it.
LEMMA SaveShows ==
    ASSUME IInv, IInv', RowsInv, NEW d \in Deck, NEW b \in Body, Save(d, b)
    PROVE  RowsInv'
<1>. DEFINE g == heads[d].gen + 1
            count == IF heads[d].edits = 0 THEN 1 ELSE 2
            h == [heads[d] EXCEPT !.gen = g, !.body = b, !.epoch = epoch,
                                  !.edits = count, !.journal = "set"]
<1>1. /\ heads[d] # NoHead /\ SetHead(d, h) /\ QueueUpsert(d, g) /\ UNCHANGED <<rows, drain>>
      /\ UNCHANGED faults \/ \E p \in {"file", "release", "quarantine", "splice", "commit"} : Fault(p)
  BY DEF Save, FailsAfterCommit
<1>2. heads[d] \in Heads /\ heads \in [Deck -> Heads \cup {NoHead}]
  BY <1>1 DEF IInv, RecordsType
<1>3. g \in Nat \ {0}
  BY <1>2 DEF Heads
<1>. HIDE DEF g, count
<1>4. h.gen = g
  BY <1>2 DEF Heads
<1>. HIDE DEF h
<1>5. heads'[d] = h /\ (\A e \in Deck \ {d} : SameShown(e)) /\ commits[d] \subseteq commits'[d]
  BY <1>1, <1>2 DEF SetHead, SameShown, Shown, IInv, RecordsType
<1>6. heads'[d] # NoHead
  BY SaveKeeps
<1>7. PICK n \in Nat \ {0} : n = g
  BY <1>3
<1>. QED  BY <1>1, <1>4, <1>5, <1>6, <1>7, PublicationQueued

\* An edited export queues the write that shows it.
LEMMA ExportShows ==
    ASSUME IInv, IInv', RowsInv, NEW d \in Deck, ExportCommit(d)
    PROVE  RowsInv'
<1>. DEFINE h == export[d].head
            r == [ord |-> h.pkg.ord + 1, body |-> h.body]
            next == h.gen + 1
            zero == 0
            journal == JournalAfter(h)
<1>1. /\ h = heads[d] /\ h # NoHead /\ UNCHANGED <<rows, drain>> /\ heads'[d] # NoHead
      /\ UNCHANGED faults \/ \E p \in {"file", "release", "quarantine", "splice", "commit"} : Fault(p)
  BY ExportCommits DEF ExportCommit, FailsAfterCommit, SameHead, IInv, RequestsInv, RequestInv
<1>2. h \in Heads /\ heads \in [Deck -> Heads \cup {NoHead}]
  BY <1>1 DEF IInv, RecordsType
<1>3. h.gen \in Nat \ {0} /\ next \in Nat \ {0}
  BY <1>2 DEF Heads
<1>4. \/ SetHead(d, [h EXCEPT !.edits = zero, !.journal = journal]) /\ QueueUpsert(d, h.gen)
      \/ /\ SetHead(d, [h EXCEPT !.gen = next, !.pkg = r, !.edits = zero, !.journal = "set",
                               !.epoch = epoch])
         /\ QueueUpsert(d, next)
  BY DEF ExportCommit
<1>. HIDE DEF h, next, r, zero, journal
<1>5. ASSUME NEW k, SetHead(d, k)
      PROVE  heads'[d] = k /\ (\A e \in Deck \ {d} : SameShown(e)) /\ commits[d] \subseteq commits'[d]
  BY <1>2, <1>5 DEF SetHead, SameShown, Shown, IInv, RecordsType
<1>6. CASE SetHead(d, [h EXCEPT !.edits = zero, !.journal = journal]) /\ QueueUpsert(d, h.gen)
  <2>. DEFINE k == [h EXCEPT !.edits = zero, !.journal = journal]
  <2>1. k.gen = h.gen
    BY <1>2 DEF Heads
  <2>. HIDE DEF k
  <2>2. heads'[d] = k /\ (\A e \in Deck \ {d} : SameShown(e)) /\ commits[d] \subseteq commits'[d]
    BY <1>5, <1>6 DEF k
  <2>3. PICK g \in Nat \ {0} : g = h.gen
    BY <1>3
  <2>. QED  BY <1>1, <1>6, <2>1, <2>2, <2>3, PublicationQueued
<1>7. CASE /\ SetHead(d, [h EXCEPT !.gen = next, !.pkg = r, !.edits = zero, !.journal = "set",
                               !.epoch = epoch])
           /\ QueueUpsert(d, next)
  <2>. DEFINE k == [h EXCEPT !.gen = next, !.pkg = r, !.edits = zero, !.journal = "set",
                             !.epoch = epoch]
  <2>1. k.gen = next
    BY <1>2 DEF Heads
  <2>. HIDE DEF k
  <2>2. heads'[d] = k /\ (\A e \in Deck \ {d} : SameShown(e)) /\ commits[d] \subseteq commits'[d]
    BY <1>5, <1>7 DEF k
  <2>3. PICK g \in Nat \ {0} : g = next
    BY <1>3
  <2>. QED  BY <1>1, <1>7, <2>1, <2>2, <2>3, PublicationQueued
<1>. QED  BY <1>4, <1>6, <1>7

\* restoreForward() moves the epoch of the other heads, and not their generation.
LEMMA ForwardShows ==
    ASSUME IInv, IInv', RowsInv, NEW d \in Deck, Forward(d)
    PROVE  RowsInv'
<1>. DEFINE o == HistoryOwner(d, hist[d].target)
            next == epoch + 1
            g == heads[d].gen + 1
            journal == JournalAfter(retained[o])
            h == [retained[o] EXCEPT !.gen = g, !.epoch = next, !.journal = journal]
            moved(e) == [heads[e] EXCEPT !.epoch = next]
<1>1. /\ heads[d] # NoHead /\ retained[o] # NoHead /\ o \in Owners
      /\ heads' = [e \in Deck |-> IF e = d THEN h ELSE IF heads[e] = NoHead THEN NoHead ELSE moved(e)]
      /\ commits' = [commits EXCEPT ![d] = @ \cup {[gen |-> h.gen, body |-> h.body]}]
      /\ QueueUpsert(d, h.gen) /\ UNCHANGED <<rows, drain>>
      /\ UNCHANGED faults \/ \E p \in {"file", "release", "quarantine", "splice", "commit"} : Fault(p)
      /\ \A e \in Deck : heads'[e] = NoHead <=> heads[e] = NoHead
  <2>1. hist[d].cur # NoHead /\ hist[d].target \in Snapshot
    BY DEF IInv, RequestsType, Histories, RequestsInv, RequestInv, HoldsHead, Forward, At
  <2>. QED  BY <2>1, OwnersApart, Forwards DEF Forward, FailsAfterCommit, CanRestoreForward, RestoreForward
<1>2. heads[d] \in Heads /\ retained[o] \in Heads /\ \A e \in Deck : heads[e] \in Heads \cup {NoHead}
  BY <1>1 DEF IInv, RecordsType
<1>3. g \in Nat \ {0}
  BY <1>2 DEF Heads
<1>. HIDE DEF g, next, o, journal
<1>4. h.gen = g
  BY <1>2 DEF Heads
<1>5. \A e \in Deck : heads[e] # NoHead => moved(e).gen = heads[e].gen
  BY <1>2 DEF Heads
<1>. HIDE DEF h, moved
<1>6. heads'[d] = h /\ heads'[d] # NoHead
  BY <1>1
<1>7. ASSUME NEW e \in Deck \ {d} PROVE SameShown(e)
  <2>1. heads'[e] = IF heads[e] = NoHead THEN NoHead ELSE moved(e)
    BY <1>1
  <2>2. commits'[e] = commits[e]
    BY <1>1 DEF IInv, RecordsType
  <2>3. heads'[e] = NoHead <=> heads[e] = NoHead
    BY <1>1
  <2>. QED  BY <1>5, <2>1, <2>2, <2>3 DEF SameShown, Shown
<1>8. commits[d] \subseteq commits'[d]
  BY <1>1 DEF IInv, RecordsType
<1>9. PICK n \in Nat \ {0} : n = g
  BY <1>3
<1>. QED  BY <1>1, <1>4, <1>6, <1>7, <1>8, <1>9, PublicationQueued

\* quarantinePresentation() takes the head and queues the removal of its row.
LEMMA QuarantineShows ==
    ASSUME IInv, RowsInv, NEW d \in Deck, Quarantine(d), heads[d] # NoHead,
           UNCHANGED <<rows, drain>>,
           UNCHANGED faults \/ \E p \in {"file", "release", "quarantine", "splice", "commit"} : Fault(p)
    PROVE  RowsInv'
<1>1. heads[d] \in Heads /\ heads \in [Deck -> Heads \cup {NoHead}]
  BY DEF IInv, RecordsType
<1>2. heads[d].gen \in Nat \ {0}
  BY <1>1 DEF Heads
<1>3. PICK g \in Nat \ {0} : g = heads[d].gen
  BY <1>2
<1>4. QueueRemoval(d, g) /\ heads'[d] = NoHead /\ commits' = commits
      /\ \A e \in Deck \ {d} : heads'[e] = heads[e]
  BY <1>1, <1>3 DEF Quarantine
<1>5. (\A e \in Deck \ {d} : SameShown(e)) /\ commits[d] \subseteq commits'[d] /\ Shown(d)' = NoRow
  BY <1>4 DEF SameShown, Shown
<1>6. UpToDate(d, g)' /\ Known(d, g)'
  <2>1. CommitOf(heads[d]) \in commits[d] /\ \A x \in commits[d] : x.gen <= heads[d].gen
    BY DEF IInv, AuthorityInv, Newest
  <2>2. CommitOf(heads[d]).gen = g
    BY <1>3 DEF CommitOf
  <2>3. g <= g
    BY <1>3
  <2>. QED  BY <1>3, <1>4, <2>1, <2>2, <2>3 DEF UpToDate, Known
<1>7. faults' \in [at : SUBSET FaultPoints, left : 0 .. MaxFaults]
  BY FaultType DEF RowsInv, QueueType
<1>8. outbox' \in Seq(Writes) /\ clock' \in Nat /\ lost' \subseteq Deck /\ QueueInv'
  <2>. HIDE DEF QueueType, QueueInv, SameShown, Shown, UpToDate, Known
  <2>. QED  BY <1>4, <1>5, <1>6, RemovalQueued DEF RowsInv
<1>. QED  BY <1>7, <1>8 DEF RowsInv, QueueType

\* The quarantine of a deletion, also when it throws after the commit.
LEMMA DeletionQuarantineShows ==
    ASSUME IInv, RowsInv, NEW d \in Deck, DeleteQuarantine(d) \/ DeleteQuarantineFails(d)
    PROVE  RowsInv'
<1>1. heads[d] # NoHead /\ UNCHANGED <<rows, drain>>
  BY DEF DeleteQuarantine, DeleteQuarantineFails, StoreOnly, At, IInv, RequestsInv, RequestInv, HoldsHead
<1>2. CASE DeleteQuarantine(d)
  BY <1>1, <1>2, QuarantineShows DEF DeleteQuarantine, StoreOnly
<1>3. CASE DeleteQuarantineFails(d) /\ Quarantine(d)
  BY <1>1, <1>3, QuarantineShows DEF DeleteQuarantineFails
<1>4. CASE DeleteQuarantineFails(d) /\ UNCHANGED <<records, queue>>
  BY <1>1, <1>4, RowsRest DEF DeleteQuarantineFails, records, queue
<1>. QED  BY <1>2, <1>3, <1>4 DEF DeleteQuarantineFails

\* A compensation queues the write that shows the head again.
LEMMA CompensationShows ==
    ASSUME IInv, IInv', RowsInv, NEW d \in Deck, DeleteUndo(d)
    PROVE  RowsInv'
<1>1. UNCHANGED <<rows, drain, faults>>
  BY DEF DeleteUndo, StoreOnly
<1>2. CASE UNCHANGED <<records, queue>>
  BY <1>1, <1>2, RowsRest DEF records, queue
<1>3. CASE CanRestoreQuarantined(DeleteOwner(d), d) /\ RestoreQuarantined(DeleteOwner(d), d)
  <2>. DEFINE h == retained[DeleteOwner(d)]
  <2>1. h \in Heads /\ h # NoHead
    BY <1>3, OwnersApart DEF CanRestoreQuarantined, IInv, RecordsType
  <2>2. SetHead(d, h) /\ QueueCompensation(d, h.gen)
    BY <1>3 DEF RestoreQuarantined
  <2>. HIDE DEF h
  <2>3. heads'[d] = h /\ (\A e \in Deck \ {d} : SameShown(e)) /\ commits[d] \subseteq commits'[d]
    BY <2>2 DEF SetHead, SameShown, Shown, IInv, RecordsType
  <2>4. PICK g \in Nat \ {0} : g = h.gen
    BY <2>1 DEF Heads
  <2>. QED  BY <1>1, <2>1, <2>2, <2>3, <2>4, PublicationQueued
<1>. QED  BY <1>2, <1>3 DEF DeleteUndo

\* The row of a deck without its head goes.
LEMMA SpliceShows ==
    ASSUME SInv, RowsInv, NEW d \in Deck, DeleteSplice(d)
    PROVE  RowsInv'
<1>1. /\ UNCHANGED <<heads, commits, outbox, clock, lost, drain, faults>>
      /\ rows' = [rows EXCEPT ![d] = NoRow] \/ rows' = rows
  BY DEF DeleteSplice, records, queue
<1>2. heads[d] = NoHead
  BY DEF DeleteSplice, At, SInv, SnapshotInv, Deleting
<1>3. \A e \in Deck : SameShown(e)
  BY <1>1 DEF SameShown, Shown
<1>4. Shown(d) = NoRow
  BY <1>2 DEF Shown
<1>5. CASE rows' = [rows EXCEPT ![d] = NoRow]
  <2>1. rows' \in [Deck -> Nat] /\ QueueInv'
    <3>. HIDE DEF QueueType, QueueInv, SameShown, Shown
    <3>. QED  BY <1>1, <1>3, <1>4, <1>5, RowRemoved DEF RowsInv
  <2>. QED  BY <1>1, <2>1 DEF RowsInv, QueueType
<1>6. CASE rows' = rows
  BY <1>1, <1>6, RowsRest
<1>. QED  BY <1>1, <1>5, <1>6

\* What requests drain.
LEMMA CallersDrain ==
    ASSUME NEW d \in Deck
    PROVE  {SaveCall(d), ExportCall(d), HistoryCall(d), Startup} \subseteq Caller
BY CallersAreDrainers DEF Callers, SaveCall, ExportCall, HistoryCall, Startup

\* Every step of a drain.
LEMMA DrainShows ==
    ASSUME IInv, RowsInv,
           \/ \E d \in Deck :
                \/ SaveDrain(d) \/ SaveReturns(d) \/ ExportDrain(d) \/ ExportReturns(d)
                \/ HistoryDrain(d) \/ RestoreReturns(d) \/ UndoReturns(d) \/ DeleteReturns(d)
           \/ Apply \/ Restart
    PROVE  RowsInv'
<1>1. \/ DrainApply \/ DrainAcknowledge
      \/ \E d \in Deck : \E c \in {SaveCall(d), ExportCall(d), HistoryCall(d)} :
            DrainBegin(c) \/ DrainEnd(c) \/ DrainFails(c)
      \/ DrainBegin(Startup) \/ DrainEnd(Startup) \/ DrainFails(Startup)
  BY DEF SaveDrain, SaveReturns, ExportDrain, ExportReturns, HistoryDrain, RestoreReturns, UndoReturns,
         BeginsDrain, DeleteReturns, Apply, Restart, RestartDrain, RestartReady
<1>2. Startup \in Caller
  BY CallersAreDrainers DEF Callers
<1>3. ASSUME NEW c \in Caller, DrainBegin(c) \/ DrainEnd(c) \/ DrainFails(c)
      PROVE  QueueType' /\ QueueInv'
  <2>. HIDE DEF QueueType, QueueInv
  <2>. QED  BY <1>3, DrainBegins, DrainEnds, DrainFailed DEF RowsInv
<1>4. ASSUME DrainApply \/ DrainAcknowledge PROVE QueueType' /\ QueueInv'
  <2>. HIDE DEF QueueType, QueueInv, Numbered
  <2>. QED  BY <1>4, DrainApplies, DrainAcknowledges, CommitsNumbered DEF RowsInv
<1>. QED  BY <1>1, <1>2, <1>3, <1>4, CallersDrain DEF RowsInv

\* A crash ends the drain.
LEMMA CrashShows ==
    ASSUME RowsInv, Crash
    PROVE  RowsInv'
<1>1. drain' = NoDrain /\ UNCHANGED <<heads, commits, outbox, clock, lost, rows, faults>>
  BY DEF Crash, records, queue
<1>2. (\A d \in Deck : SameShown(d)) /\ faults' \in [at : SUBSET FaultPoints, left : 0 .. MaxFaults]
  BY <1>1 DEF SameShown, Shown, RowsInv, QueueType
<1>3. QueueType' /\ QueueInv'
  <2>. HIDE DEF QueueType, QueueInv, SameShown
  <2>. QED  BY <1>1, <1>2, DrainStops DEF RowsInv
<1>. QED  BY <1>3 DEF RowsInv

\* The first head of a deck is a head.
LEMMA InitialHead == ASSUME NEW b \in Body PROVE FirstHead(b) \in Heads
<1>. DEFINE zero == 0
            one == 1
            r == [ord |-> zero, body |-> b]
<1>1. FirstHead(b) = [gen |-> one, body |-> b, pkg |-> r, original |-> r,
                      edits |-> zero, journal |-> "null", epoch |-> one]
  BY DEF FirstHead
<1>2. zero \in 0 .. 2 /\ zero \in Nat /\ one \in Nat \ {0}
  OBVIOUS
<1>. HIDE DEF zero, one
<1>3. r \in Revisions
  BY <1>2 DEF Revisions
<1>. HIDE DEF r
<1>. QED  BY <1>1, <1>2, <1>3 DEF Heads

\* Everything is imported with its row.
LEMMA RowsStart == ASSUME Init PROVE RowsInv
<1>. DEFINE b == CHOOSE b \in Body : TRUE
            one == 1
<1>1. IInv
  BY Starts
<1>2. /\ outbox = <<>> /\ clock = 0 /\ drain = NoDrain /\ lost = {}
      /\ faults = [at |-> FaultPoints \cap workload, left |-> MaxFaults]
      /\ rows = [d \in Deck |-> IF d \in Imported THEN one ELSE NoRow]
      /\ \A d \in Deck : heads[d] = IF d \in Imported THEN FirstHead(b) ELSE NoHead
      /\ \A d \in Deck : commits[d] = IF d \in Imported THEN {[gen |-> one, body |-> heads[d].body]}
                                      ELSE {}
  BY DEF Init
<1>3. FirstHead(b).gen = one
  BY DEF FirstHead
<1>4. outbox \in Seq(Writes) /\ DOMAIN outbox = {} /\ clock \in Nat /\ one \in Nat /\ one <= one
  BY <1>2
<1>5. faults \in [at : SUBSET FaultPoints, left : 0 .. MaxFaults]
  <2>. DEFINE some == FaultPoints \cap workload
  <2>1. some \in SUBSET FaultPoints /\ MaxFaults \in 0 .. MaxFaults
    BY RecordsConstants
  <2>2. faults = [at |-> some, left |-> MaxFaults]
    BY <1>2
  <2>. HIDE DEF some
  <2>. QED  BY <2>1, <2>2
<1>. HIDE DEF one, b
<1>6. rows \in [Deck -> Nat]
  BY <1>2, <1>4 DEF NoRow
<1>7. QueueType
  BY <1>2, <1>4, <1>5, <1>6, NobodyDrains DEF QueueType
<1>8. EachOnce /\ Stamped /\ InPlace /\ DrainInv
  BY <1>2, <1>4, NobodyDrains DEF EachOnce, Stamped, InPlace, SeenFirst, DrainInv
<1>9. ASSUME NEW d \in Deck PROVE DeckShows(d)
  <2>1. CASE d \notin Imported
    <3>1. rows[d] = NoRow /\ heads[d] = NoHead
      BY <1>2, <2>1
    <3>. QED  BY <1>4, <3>1 DEF DeckShows, Bounded, LastShows, RowShows, Shown
  <2>2. CASE d \in Imported
    <3>1. rows[d] = one /\ heads[d] = FirstHead(b) /\ heads[d].gen = one /\ heads[d] # NoHead
      <4>1. FirstHead(b) # NoHead
        <5>2. FirstHead(b) \in Heads
          <6>1. b \in Body
            BY HeadsOK DEF b
          <6>2. PICK c \in Body : c = b
            BY <6>1
          <6>. QED  BY <6>2, InitialHead
        <5>. QED  BY <5>2, HeadsOK
      <4>. QED  BY <1>2, <1>3, <2>2, <4>1
    <3>2. Known(d, one)
      <4>. DEFINE x == [gen |-> one, body |-> heads[d].body]
      <4>1. x \in commits[d] /\ x.gen = one
        BY <1>2, <2>2
      <4>. QED  BY <1>4, <4>1 DEF Known
    <3>. QED  BY <1>4, <3>1, <3>2 DEF DeckShows, Bounded, LastShows, RowShows, Shown
  <2>. QED  BY <2>1, <2>2
<1>. QED  BY <1>7, <1>8, <1>9 DEF RowsInv, QueueInv

\* The queue and the rows, in every state of every behaviour.
LEMMA RowsInvariance == Spec => []RowsInv
<1>1. Init => RowsInv
  BY RowsStart
<1>2. SInv /\ SInv' /\ RowsInv /\ [Next]_vars => RowsInv'
  <2>. SUFFICES ASSUME SInv, SInv', RowsInv, [Next]_vars PROVE RowsInv'
    OBVIOUS
  <2>0. IInv /\ IInv'
    BY DEF SInv
  <2>1. CASE UNCHANGED vars
    BY <2>1, RowsRest DEF vars, recordVars, records, queue
  <2>2. ASSUME NEW d \in Deck, Begin(d) PROVE RowsInv'
    BY <2>0, <2>2, SaveShows, RequestSteps DEF Begin
  <2>3. ASSUME NEW d \in Deck, SaveStep(d) \/ ExportStep(d) PROVE RowsInv'
    BY <2>0, <2>3, ExportShows, DrainShows DEF SaveStep, ExportStep
  <2>4. ASSUME NEW d \in Deck, SnapshotStep(d) PROVE RowsInv'
    BY <2>0, <2>4, RequestSteps, ForwardShows, DrainShows DEF SnapshotStep
  <2>5. ASSUME NEW d \in Deck, DeleteStep(d) PROVE RowsInv'
    BY <2>0, <2>5, DeletionSteps, DeletionQuarantineShows, CompensationShows, SpliceShows, DrainShows
       DEF DeleteStep
  <2>6. ASSUME NEW d \in Deck, HistoryDrain(d) PROVE RowsInv'
    BY <2>0, <2>6, DrainShows
  <2>7. ASSUME NEW d \in Deck, Failures(d) PROVE RowsInv'
    BY <2>0, <2>7, RequestSteps, DeletionQuarantineShows DEF Failures
  <2>8. CASE Apply \/ Restart
    BY <2>0, <2>8, DrainShows
  <2>9. CASE Crash
    BY <2>9, CrashShows
  <2>. QED  BY <2>1, <2>2, <2>3, <2>4, <2>5, <2>6, <2>7, <2>8, <2>9 DEF Next, HistoryStep
<1>. QED  BY <1>1, <1>2, SnapshotsInvariance, PTL DEF Spec

\* Whatever the interleaving of requests, drains and crashes: once no write of a
\* deck is queued or being applied, its row exists exactly when its head does, with
\* the same generation.
THEOREM RowsShowTheHeads == Spec => []RowsMatchHeads
<1>1. RowsInv => RowsMatchHeads
  <2>. SUFFICES ASSUME RowsInv, NEW d \in Deck, ~InFlight(d), d \notin lost
                PROVE  rows[d] = Shown(d)
    BY DEF RowsMatchHeads, Shown
  <2>. QED  BY DEF RowsInv, QueueInv, DeckShows, RowShows, InFlight
<1>. QED  BY <1>1, RowsInvariance, PTL

-----------------------------------------------------------------------------
(* Rows do not go back *)

\* A write is applied to the row of its deck unless it is older.
LEMMA AppliedRow ==
    ASSUME QueueType, NEW w \in Writes, NEW d \in Deck
    PROVE  LET r == Applied(rows, w)[d] IN r \in Nat /\ (r # NoRow => r >= rows[d])
<1>1. rows \in [Deck -> Nat] /\ w.deck \in Deck /\ w.gen \in Nat
  BY DEF QueueType, Writes
<1>. QED  BY <1>1 DEF Applied, NoRow

\* Only the drain and the deletion touch rows.
LEMMA RowsChange ==
    ASSUME Next
    PROVE  UNCHANGED rows \/ DrainApply \/ \E d \in Deck : rows' = [rows EXCEPT ![d] = NoRow]
<1>. USE DEF recordVars, StoreOnly, BeginsDrain, DrainBegin, DrainEnd, DrainFails
<1>1. ASSUME NEW d \in Deck, Begin(d) PROVE UNCHANGED rows
  BY <1>1 DEF Begin, Save, ExportBegin, DeleteBegin, SnapshotBegin, RestoreBegin, RemoveBegin, RemoveFile
<1>2. ASSUME NEW d \in Deck, SaveStep(d) \/ ExportStep(d) PROVE UNCHANGED rows
  BY <1>2 DEF SaveStep, ExportStep, SaveDrain, SaveReturns, ExportCommit, ExportDrain, ExportReturns
<1>3. ASSUME NEW d \in Deck, SnapshotStep(d) PROVE UNCHANGED rows
  BY <1>3 DEF SnapshotStep, RetainSnapshot, RetainRefused, WriteSnapshotFile, UnretainSnapshot, PruneOldest,
              PruneDone, ReleaseSnapshot, Forward, ForwardRefused, RestoreReturns, RemoveFile
<1>4. ASSUME NEW d \in Deck, DeleteStep(d)
      PROVE  UNCHANGED rows \/ rows' = [rows EXCEPT ![d] = NoRow]
  <2>1. CASE DeleteSplice(d)
    BY <2>1 DEF DeleteSplice
  <2>2. CASE DeleteRead(d) \/ DeleteRetain(d) \/ DeleteQuarantine(d) \/ DeleteQuarantineStale(d) \/ DeleteStale(d)
    BY <2>2 DEF DeleteRead, DeleteRetain, DeleteQuarantine, DeleteQuarantineStale, DeleteStale
  <2>3. CASE \/ DeleteCheck(d) \/ DeleteUndo(d) \/ DeleteUndoFails(d) \/ DeleteUndoRelease(d) \/ UndoReturns(d)
    BY <2>3 DEF DeleteCheck, DeleteUndo, DeleteUndoFails, DeleteUndoRelease, UndoReturns
  <2>4. CASE DeleteOwners(d) \/ DeleteRelease(d) \/ DeleteFiles(d) \/ DeleteReturns(d)
    BY <2>4 DEF DeleteOwners, DeleteRelease, DeleteFiles, DeleteReturns
  <2>. QED  BY <1>4, <2>1, <2>2, <2>3, <2>4 DEF DeleteStep
<1>5. ASSUME NEW d \in Deck, HistoryDrain(d) \/ Failures(d) PROVE UNCHANGED rows
  BY <1>5 DEF HistoryDrain, Failures, ExportRefused, SnapshotFileFails, ReleaseFails, DeleteQuarantineFails,
              DeleteSpliceFails
<1>6. CASE Apply
  BY <1>6 DEF Apply, DrainAcknowledge
<1>7. CASE Restart \/ Crash
  BY <1>7 DEF Restart, RestartDrain, RestartReady, Crash
<1>. QED  BY <1>1, <1>2, <1>3, <1>4, <1>5, <1>6, <1>7 DEF Next, HistoryStep

\* A row never shows an older generation than it did, although writes are applied
\* again after a crash or a failed acknowledgement.
THEOREM RowsOnlyGoForward == Spec => RowsNeverGoBack
<1>. DEFINE Onward(d) == rows'[d] # NoRow => rows'[d] >= rows[d]
<1>1. RowsInv /\ [Next]_vars => [\A d \in Deck : Onward(d)]_rows
  <2>. SUFFICES ASSUME RowsInv, Next, NEW d \in Deck PROVE Onward(d) \/ UNCHANGED rows
    BY DEF vars, recordVars
  <2>1. rows \in [Deck -> Nat] /\ QueueType
    BY DEF RowsInv, QueueType
  <2>2. CASE DrainApply
    <3>1. drain.todo \in Seq(Writes) /\ drain.todo # <<>>
      BY <2>1, <2>2 DEF QueueType, Drains, DrainApply
    <3>2. Head(drain.todo) \in Writes
      BY <3>1, HeadTailProperties
    <3>3. rows' = rows \/ rows' = Applied(rows, Head(drain.todo))
      BY <2>2 DEF DrainApply
    <3>. QED  BY <2>1, <3>2, <3>3, AppliedRow
  <2>3. ASSUME NEW e \in Deck, rows' = [rows EXCEPT ![e] = NoRow] PROVE Onward(d)
    BY <2>1, <2>3
  <2>. QED  BY <2>2, <2>3, RowsChange
<1>. QED  BY <1>1, RowsInvariance, PTL DEF Spec, RowsNeverGoBack

-----------------------------------------------------------------------------
(* Types *)

\* What no other invariant speaks of.
ServerType ==
    /\ save \in [Deck -> {"idle", "drain"}] /\ up \in BOOLEAN /\ crashes \in 0 .. MaxCrashes
    /\ deleted \subseteq Deck /\ missed \subseteq Deck /\ workload \in Workloads

\* These types hold in every state.
LEMMA ServerTyped == Spec => []ServerType
<1>1. Init => ServerType
  BY LifecycleConstants DEF Init, ServerType
<1>2. ServerType /\ [Next]_vars => ServerType'
  <2>. SUFFICES ASSUME ServerType, [Next]_vars PROVE ServerType'
    OBVIOUS
  <2>1. CASE UNCHANGED vars
    BY <2>1 DEF vars, requests, ServerType
  <2>2. ASSUME NEW d \in Deck, Begin(d) PROVE ServerType'
    BY <2>2 DEF Begin, Save, ExportBegin, DeleteBegin, SnapshotBegin, RestoreBegin, RemoveBegin, RemoveFile,
                Unaffected, Elsewhere, FailsAfterCommit, ServerType
  <2>3. ASSUME NEW d \in Deck, SaveStep(d) \/ ExportStep(d) PROVE ServerType'
    BY <2>3 DEF SaveStep, ExportStep, SaveDrain, SaveReturns, ExportCommit, ExportDrain, ExportReturns,
                requests, FailsAfterCommit, BeginsDrain, ServerType
  <2>4. ASSUME NEW d \in Deck, SnapshotStep(d) \/ HistoryDrain(d) \/ Failures(d) PROVE ServerType'
    <3>1. /\ UNCHANGED <<save, up, crashes, deleted, workload>>
          /\ missed' \in {missed, missed \cup {d}, {}}
      BY <2>4 DEF SnapshotStep, RetainSnapshot, RetainRefused, WriteSnapshotFile, UnretainSnapshot,
                  PruneOldest, PruneDone, ReleaseSnapshot, Forward, ForwardRefused, RestoreReturns,
                  RemoveFile, HistoryDrain, Failures, ExportRefused, SnapshotFileFails, ReleaseFails,
                  DeleteQuarantineFails, DeleteSpliceFails, Unaffected, Elsewhere, FailsAfterCommit,
                  BeginsDrain, requests
    <3>. QED  BY <3>1 DEF ServerType
  <2>5. ASSUME NEW d \in Deck, DeleteStep(d) PROVE ServerType'
    <3>1. UNCHANGED <<save, up, crashes, missed, workload>> /\ deleted' \in {deleted, deleted \cup {d}}
      BY <2>5 DEF DeleteStep, DeleteRead, DeleteRetain, DeleteQuarantine, DeleteQuarantineStale,
                  DeleteStale, DeleteSplice, DeleteCheck, DeleteUndo, DeleteUndoFails, DeleteUndoRelease,
                  UndoReturns, DeleteOwners, DeleteRelease, DeleteFiles, DeleteReturns, Unaffected, Elsewhere
    <3>. QED  BY <3>1 DEF ServerType
  <2>6. CASE Apply \/ Restart
    BY <2>6 DEF Apply, Restart, RestartDrain, RestartReady, BeginsDrain, requests, ServerType
  <2>7. CASE Crash
    <3>1. crashes \in 0 .. MaxCrashes /\ crashes < MaxCrashes /\ crashes' = crashes + 1 /\ MaxCrashes \in Nat
      BY <2>7, LifecycleConstants DEF Crash, ServerType
    <3>2. crashes' \in 0 .. MaxCrashes
      BY <3>1
    <3>. QED  BY <2>7, <3>2 DEF Crash, ServerType
  <2>. QED  BY <2>1, <2>2, <2>3, <2>4, <2>5, <2>6, <2>7 DEF Next, HistoryStep
<1>. QED  BY <1>1, <1>2, PTL DEF Spec

\* Every variable keeps its type.
THEOREM DecksAreWellTyped == Spec => []TypeOK
<1>1. IInv /\ RowsInv /\ ServerType => TypeOK
  <2>. SUFFICES ASSUME IInv, RowsInv, ServerType PROVE TypeOK
    OBVIOUS
  <2>1. RecordsTypeOK
    <3>1. drain.bad \subseteq drain.done /\ drain \in Drains
      BY DEF RowsInv, QueueInv, DrainInv, QueueType
    <3>. QED  BY <3>1 DEF RecordsTypeOK, IInv, RecordsType, Commits, RowsInv, QueueType, Drains
  <2>2. /\ \A d \in Deck : files[d] \in Seq([id : Snapshot, gen : Nat, pending : BOOLEAN])
        /\ export \in [Deck -> [pc : {"idle", "work", "drain"}, head : Heads \cup {NoHead}]]
        /\ hist \in [Deck -> [pc : {"idle"} \cup SnapshotSteps \cup DeleteSteps,
                              cur : Heads \cup {NoHead}, target : Snapshot \cup {NoSnapshot},
                              snap : Snapshot \cup {NoSnapshot}, pos : Nat, gen : Nat, saw : BOOLEAN,
                              kept : BOOLEAN, attempt : 0 .. 2]]
    BY DEF IInv, RequestsType, Files, Exports, Histories, Steps
  <2>. QED  BY <2>1, <2>2 DEF TypeOK, ServerType
<1>. QED  BY <1>1, Invariance, RowsInvariance, ServerTyped, PTL

-----------------------------------------------------------------------------
(* Permanent deletions *)

Draining == {"drain", "d.undoDrain", "d.drain"}

\* Every queued write of the deck has been, or will be, seen by the drain.
Seen(d) ==
    \A i \in DOMAIN outbox : outbox[i].deck = d =>
        outbox[i] \in drain.done \/ \E k \in DOMAIN drain.todo : drain.todo[k] = outbox[i]

Unowned(d) == heads[d] = NoHead => owned[d] = {}

\* Only a request that has come to its drain drains for its deck.
OwnDrain(d) == drain.by = HistoryCall(d) => hist[d].pc \in Draining

\* What a deletion has left behind when it comes to its last steps.
Cleared(d) ==
    /\ hist[d].pc \in {"d.release", "d.files", "d.drain"} =>
          heads[d] = NoHead /\ \A s \in Snapshot : retained[HistoryOwner(d, s)] = NoHead
    /\ hist[d].pc \in {"d.files", "d.drain"} => retained[DeleteOwner(d)] = NoHead
    /\ hist[d].pc = "d.drain" => files[d] = <<>>
    /\ hist[d].pc = "d.drain" /\ drain.by = HistoryCall(d) => Seen(d)

\* A deleted deck leaves nothing, and nothing of it is in progress except another
\* deletion that will find nothing.
Emptied(d) ==
    /\ heads[d] = NoHead /\ rows[d] = NoRow /\ files[d] = <<>> /\ retained[DeleteOwner(d)] = NoHead
    /\ \A s \in Snapshot : retained[HistoryOwner(d, s)] = NoHead
    /\ ~InFlight(d)
    /\ hist[d].pc \in {"idle", "d.read"} /\ hist[d].saw = FALSE

Gone(d) == d \in deleted => d \in lost \/ Emptied(d)

DeletionInv(d) == Unowned(d) /\ OwnDrain(d) /\ Cleared(d) /\ Gone(d)

DeletionsInv == \A d \in Deck : DeletionInv(d)

-----------------------------------------------------------------------------
(* What a step leaves of a deck *)

\* What the step leaves alone of a deck, the queue aside.
Rests(e) ==
    /\ files'[e] = files[e] /\ hist'[e] = hist[e] /\ owned'[e] = owned[e]
    /\ heads'[e] = NoHead <=> heads[e] = NoHead
    /\ retained'[DeleteOwner(e)] = retained[DeleteOwner(e)]
    /\ \A s \in Snapshot : retained'[HistoryOwner(e, s)] = retained[HistoryOwner(e, s)]
    /\ e \in deleted' => e \in deleted

\* Of the queue: no write of the deck comes, and its row is shown or hidden only by a
\* write that was on its way.
Settles(e) ==
    /\ InFlight(e)' => InFlight(e)
    /\ rows'[e] \in {rows[e], NoRow} \/ InFlight(e)
    /\ drain'.by = HistoryCall(e) =>
          \/ drain.by = HistoryCall(e) /\ (Seen(e) => Seen(e)')
          \/ hist[e].pc \in Draining /\ Seen(e)'
    /\ lost \subseteq lost'

\* A step of another deck or of a drain.
LEMMA DeckRests ==
    ASSUME NEW e \in Deck, DeletionInv(e), Rests(e), Settles(e)
    PROVE  DeletionInv(e)'
<1>1. Unowned(e)'
  BY DEF DeletionInv, Unowned, Rests
<1>2. OwnDrain(e)'
  BY DEF DeletionInv, OwnDrain, Rests, Settles
<1>3. Cleared(e)'
  <2>. HIDE DEF Seen
  <2>. QED  BY DEF DeletionInv, Cleared, Rests, Settles
<1>4. Gone(e)'
  BY DEF DeletionInv, Gone, Emptied, Rests, Settles
<1>. QED  BY <1>1, <1>2, <1>3, <1>4 DEF DeletionInv

\* A step of a deck that was not deleted, on its way or going ahead.
LEMMA Alive ==
    ASSUME NEW d \in Deck, DeletionInv(d), d \in deleted => d \in lost,
           d \in deleted' => d \in deleted, lost \subseteq lost', Unowned(d)',
           \/ hist'[d].pc \notin {"d.release", "d.files", "d.drain"}
           \/ hist'[d] = hist[d] /\ heads[d] # NoHead,
           \/ drain' = drain /\ (hist'[d] = hist[d] \/ hist[d].pc \notin Draining)
           \/ drain' = NoDrain
    PROVE  DeletionInv(d)'
<1>1. NoDrain.by # HistoryCall(d)
  BY NobodyDrains, CallersDrain, RecordsConstants
<1>2. OwnDrain(d)'
  BY <1>1 DEF DeletionInv, OwnDrain
<1>3. Cleared(d)'
  BY DEF DeletionInv, Cleared
<1>4. Gone(d)'
  BY DEF DeletionInv, Gone
<1>. QED  BY <1>2, <1>3, <1>4 DEF DeletionInv

\* A deck whose history lock is held by more than a deletion that has just begun, or
\* that has a head or files, was not deleted.
LEMMA NotGone ==
    ASSUME NEW d \in Deck, DeletionInv(d),
           \/ heads[d] # NoHead \/ files[d] # <<>> \/ hist[d].pc \notin {"idle", "d.read"}
    PROVE  d \in deleted => d \in lost
BY DEF DeletionInv, Gone, Emptied

\* A step of one deck, when the others rest.
LEMMA OwnStepOnly ==
    ASSUME DeletionsInv, NEW d \in Deck, DeletionInv(d)', \A e \in Deck \ {d} : Rests(e) /\ Settles(e)
    PROVE  DeletionsInv'
<1>1. ASSUME NEW e \in Deck \ {d} PROVE DeletionInv(e)'
  BY <1>1, DeckRests DEF DeletionsInv
<1>. QED  BY <1>1 DEF DeletionsInv

-----------------------------------------------------------------------------
(* The queue *)

\* Queueing a write of a deck, or nothing, is no concern of the others.
LEMMA Queued ==
    ASSUME RowsInv, NEW d, UNCHANGED drain, lost \subseteq lost',
           outbox' = outbox \/ \E w : w.deck = d /\ outbox' = Append(outbox, w),
           NEW e, e # d, rows'[e] = rows[e]
    PROVE  Settles(e)
<1>1. outbox \in Seq(Writes)
  BY DEF RowsInv, QueueType
<1>2. ASSUME NEW i \in DOMAIN outbox', outbox'[i].deck = e
      PROVE  i \in DOMAIN outbox /\ outbox'[i] = outbox[i]
  <2>1. CASE outbox' = outbox
    BY <2>1, <1>2
  <2>2. ASSUME NEW w, w.deck = d, outbox' = Append(outbox, w) PROVE i \in DOMAIN outbox /\ outbox'[i] = outbox[i]
    <3>. DEFINE q == outbox
    <3>1. q \in Seq(Writes) /\ i \in DOMAIN Append(q, w) /\ Append(q, w)[i].deck = e
      BY <1>1, <1>2, <2>2
    <3>. HIDE DEF q
    <3>2. i \in DOMAIN q /\ Append(q, w)[i] = q[i]
      BY <3>1, <2>2
    <3>. QED  BY <3>2, <2>2 DEF q
  <2>. QED  BY <2>1, <2>2
<1>3. InFlight(e)' => InFlight(e)
  BY <1>2 DEF InFlight
<1>4. Seen(e) => Seen(e)'
  BY <1>2 DEF Seen
<1>. QED  BY <1>3, <1>4 DEF Settles

\* The queue and the rows rest.
LEMMA QueueStays ==
    ASSUME NEW e \in Deck, UNCHANGED <<outbox, drain, lost, rows>>
    PROVE  Settles(e)
BY DEF Settles, Seen, InFlight

\* A drain that begins has every queued write before it.
LEMMA DrainBeginSettles ==
    ASSUME RowsInv, NEW e \in Deck, NEW c, DrainBegin(c), c = HistoryCall(e) => hist[e].pc \in Draining
    PROVE  Settles(e)
<1>1. outbox' = outbox /\ lost' = lost /\ rows' = rows /\ drain'.by = c /\ drain'.todo = outbox
  BY DEF DrainBegin, queue, NoDrain
<1>2. Seen(e)'
  BY <1>1 DEF Seen
<1>3. InFlight(e)' => InFlight(e)
  BY <1>1 DEF InFlight
<1>. QED  BY <1>1, <1>2, <1>3 DEF Settles

\* The drain applies a write that was on its way.
LEMMA DrainApplySettles ==
    ASSUME RowsInv, NEW e \in Deck, DrainApply
    PROVE  Settles(e)
<1>. DEFINE t == drain.todo
            w == Head(t)
<1>1. drain \in Drains /\ t \in Seq(Writes) /\ t # <<>> /\ outbox' = outbox /\ lost \subseteq lost'
  BY DEF RowsInv, QueueType, Drains, DrainApply
<1>2. drain'.by = drain.by /\ drain'.todo = Tail(t) /\ drain'.done = drain.done \cup {w}
  BY <1>1 DEF DrainApply, Drains
<1>3. rows' = rows \/ rows' = Applied(rows, w)
  BY DEF DrainApply
<1>. HIDE DEF t
<1>4. /\ w = t[1] /\ 1 \in DOMAIN t /\ w \in Writes
      /\ \A k \in DOMAIN Tail(t) : k + 1 \in DOMAIN t /\ Tail(t)[k] = t[k + 1]
      /\ \A k \in DOMAIN t : k = 1 \/ (k - 1 \in DOMAIN Tail(t) /\ Tail(t)[k - 1] = t[k])
  BY <1>1
<1>. HIDE DEF w
<1>5. InFlight(e)' => InFlight(e)
  BY <1>1, <1>2, <1>4 DEF InFlight, t
<1>6. Seen(e) => Seen(e)'
  <2>. SUFFICES ASSUME Seen(e), NEW i \in DOMAIN outbox, outbox[i].deck = e
                PROVE  outbox[i] \in drain'.done \/ \E k \in DOMAIN drain'.todo : drain'.todo[k] = outbox[i]
    BY <1>1 DEF Seen
  <2>1. CASE outbox[i] \in drain.done
    BY <1>2, <2>1
  <2>2. ASSUME NEW k \in DOMAIN t, t[k] = outbox[i] PROVE \/ outbox[i] \in drain'.done
                                                         \/ \E l \in DOMAIN drain'.todo : drain'.todo[l] = outbox[i]
    <3>1. CASE k = 1
      BY <1>2, <1>4, <2>2, <3>1
    <3>2. CASE k # 1
      BY <1>2, <1>4, <2>2, <3>2
    <3>. QED  BY <3>1, <3>2
  <2>. QED  BY <2>1, <2>2 DEF Seen, t
<1>7. rows'[e] = rows[e] \/ InFlight(e)
  <2>1. CASE w.deck = e
    BY <1>4, <2>1 DEF InFlight, t
  <2>2. CASE w.deck # e
    <3>1. rows \in [Deck -> Nat]
      BY DEF RowsInv, QueueType
    <3>. QED  BY <1>3, <2>2, <3>1 DEF Applied
  <2>. QED  BY <2>1, <2>2
<1>. QED  BY <1>1, <1>2, <1>5, <1>6, <1>7 DEF Settles

\* Acknowledged writes leave the queue.
LEMMA RemainsQueued ==
    ASSUME RowsInv, NEW gone, outbox' = Remaining(outbox, gone)
    PROVE  /\ \A k \in DOMAIN outbox' : outbox'[k] \notin gone /\ \E i \in DOMAIN outbox : outbox[i] = outbox'[k]
BY RemainingSet DEF RowsInv, QueueType

\* The drain acknowledges what it applied.
LEMMA DrainAcknowledgeSettles ==
    ASSUME RowsInv, NEW e \in Deck, DrainAcknowledge
    PROVE  Settles(e)
<1>. DEFINE gone == drain.done \ drain.bad
<1>1. /\ drain \in Drains /\ drain.todo = <<>> /\ drain'.by = drain.by /\ drain'.todo = <<>>
      /\ drain'.done = drain.bad /\ lost' = lost /\ rows' = rows /\ outbox' = Remaining(outbox, gone)
  BY DEF RowsInv, QueueType, Drains, DrainAcknowledge, Acknowledge
<1>2. \A k \in DOMAIN outbox' : outbox'[k] \notin gone /\ \E i \in DOMAIN outbox : outbox[i] = outbox'[k]
  BY <1>1, RemainsQueued
<1>3. InFlight(e)' => InFlight(e)
  BY <1>1, <1>2 DEF InFlight
<1>4. Seen(e) => Seen(e)'
  <2>. SUFFICES ASSUME Seen(e), NEW k \in DOMAIN outbox', outbox'[k].deck = e PROVE outbox'[k] \in drain'.done
    BY DEF Seen
  <2>1. DOMAIN drain.todo = {}
    BY <1>1
  <2>2. PICK i \in DOMAIN outbox : outbox[i] = outbox'[k]
    BY <1>2
  <2>3. outbox[i] \in drain.done
    BY <2>1, <2>2 DEF Seen
  <2>. QED  BY <1>1, <1>2, <2>2, <2>3
<1>. QED  BY <1>1, <1>3, <1>4 DEF Settles

\* A drain that stops, with or without an acknowledgement.
LEMMA DrainStopSettles ==
    ASSUME RowsInv, NEW e \in Deck, drain' = NoDrain, UNCHANGED <<lost, rows>>,
           outbox' = outbox \/ outbox' = Remaining(outbox, drain.done)
    PROVE  Settles(e)
<1>1. \A k \in DOMAIN outbox' : \E i \in DOMAIN outbox : outbox[i] = outbox'[k]
  BY RemainsQueued
<1>2. DOMAIN NoDrain.todo = {} /\ NoDrain.by # HistoryCall(e)
  BY NobodyDrains, CallersDrain, RecordsConstants
<1>3. InFlight(e)' => InFlight(e)
  BY <1>1, <1>2 DEF InFlight
<1>. QED  BY <1>2, <1>3 DEF Settles

\* A drain ends or fails.
LEMMA DrainEndSettles ==
    ASSUME RowsInv, NEW e \in Deck, NEW c, DrainEnd(c) \/ DrainFails(c)
    PROVE  Settles(e) /\ drain' = NoDrain /\ lost' = lost /\ rows' = rows
<1>1. /\ drain' = NoDrain /\ UNCHANGED <<lost, rows>>
      /\ outbox' = outbox \/ outbox' = Remaining(outbox, drain.done)
  BY DEF DrainEnd, DrainFails, Acknowledge, queue
<1>. QED  BY <1>1, DrainStopSettles

-----------------------------------------------------------------------------
(* Drains, saves and exports *)

\* Records, files and requests stay.
LEMMA AllRest ==
    ASSUME UNCHANGED <<records, files, hist, deleted>>, NEW e \in Deck
    PROVE  Rests(e)
BY DEF Rests, records

\* Drains, and exports before they publish.
LEMMA DrainsLeave ==
    ASSUME RowsInv, DeletionsInv,
           \/ \E d \in Deck : SaveDrain(d) \/ SaveReturns(d) \/ ExportDrain(d) \/ ExportReturns(d)
                              \/ HistoryDrain(d) \/ ExportBegin(d) \/ ExportRefused(d)
           \/ Apply \/ Restart
    PROVE  DeletionsInv'
<1>1. UNCHANGED <<records, files, hist, deleted>>
  BY DEF SaveDrain, SaveReturns, ExportDrain, ExportReturns, HistoryDrain, ExportBegin, ExportRefused,
         Apply, Restart, RestartDrain, RestartReady, requests, recordVars, BeginsDrain, DrainBegin,
         DrainEnd, DrainFails, DrainApply, DrainAcknowledge, records
<1>2. ASSUME NEW e \in Deck PROVE Settles(e)
  <2>0. ASSUME NEW d \in Deck
        PROVE  SaveCall(d) # HistoryCall(e) /\ ExportCall(d) # HistoryCall(e) /\ Startup # HistoryCall(e)
               /\ (HistoryCall(d) = HistoryCall(e) => d = e)
    BY DEF SaveCall, ExportCall, HistoryCall, Startup
  <2>1. ASSUME NEW d \in Deck, SaveDrain(d) \/ ExportDrain(d) \/ HistoryDrain(d) PROVE Settles(e)
    BY <2>0, <2>1, DrainBeginSettles DEF SaveDrain, ExportDrain, HistoryDrain, BeginsDrain, Draining
  <2>2. ASSUME NEW d \in Deck, SaveReturns(d) \/ ExportReturns(d) PROVE Settles(e)
    BY <2>2, DrainEndSettles DEF SaveReturns, ExportReturns
  <2>3. ASSUME NEW d \in Deck, ExportBegin(d) \/ ExportRefused(d) PROVE Settles(e)
    BY <2>3, QueueStays DEF ExportBegin, ExportRefused, recordVars, queue
  <2>4. CASE Apply
    BY <2>4, DrainApplySettles, DrainAcknowledgeSettles DEF Apply
  <2>5. CASE RestartDrain
    BY <2>0, <2>5, DrainBeginSettles DEF RestartDrain, BeginsDrain
  <2>6. CASE RestartReady
    BY <2>6, DrainEndSettles DEF RestartReady
  <2>. QED  BY <2>1, <2>2, <2>3, <2>4, <2>5, <2>6 DEF Restart
<1>. QED  BY <1>1, <1>2, AllRest, DeckRests DEF DeletionsInv

\* A deck that has its head and keeps one.
LEMMA EditsLeave ==
    ASSUME SInv, SInv', RowsInv, DeletionsInv, NEW d \in Deck, (\E b \in Body : Save(d, b)) \/ ExportCommit(d)
    PROVE  DeletionsInv'
<1>1. heads[d] # NoHead /\ heads'[d] # NoHead
  <2>1. CASE \E b \in Body : Save(d, b)
    BY <2>1, SaveKeeps DEF Save, SInv
  <2>2. CASE ExportCommit(d)
    BY <2>2, ExportCommits DEF ExportCommit, SameHead, SInv, IInv, RequestsInv, RequestInv
  <2>. QED  BY <2>1, <2>2
<1>2. /\ UNCHANGED <<hist, drain, deleted, rows, retained, files>>
      /\ \E g : QueueUpsert(d, g)
  BY DEF Save, ExportCommit
<1>3. /\ \A e \in Deck \ {d} : heads'[e] = heads[e] /\ owned'[e] = owned[e]
  <2>. USE DEF SInv, IInv, RecordsType
  <2>1. CASE \E b \in Body : Save(d, b)
    BY <2>1 DEF Save, SetHead
  <2>2. CASE ExportCommit(d)
    BY <2>2 DEF ExportCommit, SetHead
  <2>. QED  BY <2>1, <2>2
<1>4. lost' = lost /\ \E w : w.deck = d /\ outbox' = Append(outbox, w)
  BY <1>2 DEF QueueUpsert
<1>5. \A e \in Deck \ {d} : Rests(e) /\ Settles(e)
  BY <1>2, <1>3, <1>4, Queued DEF Rests
<1>6. DeletionInv(d)'
  BY <1>1, <1>2, <1>4, Alive, NotGone DEF DeletionsInv, Unowned
<1>. QED  BY <1>5, <1>6, OwnStepOnly

-----------------------------------------------------------------------------
(* Snapshots and restores *)

\* A step of the request of one deck that publishes nothing.
LEMMA OthersRest ==
    ASSUME IInv, NEW d \in Deck,
           \/ retained' = retained
           \/ \E x : retained' = [retained EXCEPT ![DeleteOwner(d)] = x]
           \/ \E s \in Snapshot : \E x : retained' = [retained EXCEPT ![HistoryOwner(d, s)] = x],
           NEW e \in Deck \ {d}, heads'[e] = heads[e], owned'[e] = owned[e], files'[e] = files[e],
           hist'[e] = hist[e], e \in deleted' => e \in deleted
    PROVE  Rests(e)
<1>1. /\ DeleteOwner(e) \in Owners /\ DeleteOwner(e) # DeleteOwner(d)
      /\ \A s \in Snapshot : DeleteOwner(e) # HistoryOwner(d, s)
      /\ \A t \in Snapshot : /\ HistoryOwner(e, t) \in Owners /\ HistoryOwner(e, t) # DeleteOwner(d)
                             /\ \A s \in Snapshot : HistoryOwner(e, t) # HistoryOwner(d, s)
  BY DEF DeleteOwner, HistoryOwner, Owners
<1>2. retained \in [Owners -> Heads \cup {NoHead}]
  BY DEF IInv, RecordsType
<1>3. /\ retained'[DeleteOwner(e)] = retained[DeleteOwner(e)]
      /\ \A t \in Snapshot : retained'[HistoryOwner(e, t)] = retained[HistoryOwner(e, t)]
  <2>1. ASSUME NEW x, retained' = [retained EXCEPT ![DeleteOwner(d)] = x]
        PROVE  /\ retained'[DeleteOwner(e)] = retained[DeleteOwner(e)]
               /\ \A t \in Snapshot : retained'[HistoryOwner(e, t)] = retained[HistoryOwner(e, t)]
    BY <1>1, <1>2, <2>1
  <2>2. ASSUME NEW s \in Snapshot, NEW x, retained' = [retained EXCEPT ![HistoryOwner(d, s)] = x]
        PROVE  /\ retained'[DeleteOwner(e)] = retained[DeleteOwner(e)]
               /\ \A t \in Snapshot : retained'[HistoryOwner(e, t)] = retained[HistoryOwner(e, t)]
    BY <1>1, <1>2, <2>2
  <2>. QED  BY <2>1, <2>2
<1>. QED  BY <1>3 DEF Rests

\* A request takes the history lock of its deck.
LEMMA BeginsLeave ==
    ASSUME SInv, DeletionsInv, NEW d \in Deck,
           \/ \E s \in Snapshot : SnapshotBegin(d, s)
           \/ \E i \in DOMAIN files[d], s \in Snapshot : RestoreBegin(d, i, s)
           \/ \E i \in DOMAIN files[d] : RemoveBegin(d, i)
           \/ DeleteBegin(d)
    PROVE  DeletionsInv'
<1>1. IInv /\ hist \in [Deck -> Histories] /\ files \in [Deck -> Seq(Files)]
  BY DEF SInv, IInv, RequestsType
<1>2. /\ UNCHANGED <<heads, owned, retained, outbox, drain, lost, rows, deleted>> /\ hist[d].pc = "idle"
      /\ \A e \in Deck \ {d} : files'[e] = files[e] /\ hist'[e] = hist[e]
  BY <1>1 DEF SnapshotBegin, RestoreBegin, RemoveBegin, RemoveFile, DeleteBegin, At, Unaffected, Elsewhere,
              recordVars, records, queue
<1>3. \A e \in Deck \ {d} : Rests(e) /\ Settles(e)
  BY <1>1, <1>2, OthersRest, QueueStays
<1>4. CASE DeleteBegin(d)
  <2>. DEFINE x == [Idle EXCEPT !.pc = "d.read", !.saw = rows[d] # NoRow]
  <2>1. hist'[d] = x /\ files' = files
    BY <1>1, <1>4 DEF DeleteBegin
  <2>2. x.pc = "d.read" /\ x.saw = (rows[d] # NoRow)
    BY DEF Idle
  <2>. HIDE DEF x
  <2>3. Unowned(d)' /\ OwnDrain(d)' /\ Cleared(d)'
    BY <1>2, <2>1, <2>2 DEF DeletionsInv, DeletionInv, Unowned, OwnDrain, Cleared, Draining
  <2>4. Gone(d)'
    BY <1>2, <2>1, <2>2 DEF DeletionsInv, DeletionInv, Gone, Emptied, InFlight
  <2>5. DeletionInv(d)'
    BY <2>3, <2>4 DEF DeletionInv
  <2>. QED  BY <1>3, <2>5, OwnStepOnly
<1>5. CASE ~DeleteBegin(d)
  <2>1. hist'[d].pc \in {"retain", "remove"} /\ (heads[d] # NoHead \/ files[d] # <<>>)
    <3>1. ASSUME NEW s \in Snapshot, SnapshotBegin(d, s) PROVE hist'[d].pc = "retain" /\ heads[d] # NoHead
      BY <1>1, <3>1 DEF SnapshotBegin, CanSnapshot, Idle
    <3>2. ASSUME NEW i \in DOMAIN files[d], NEW s \in Snapshot, RestoreBegin(d, i, s)
          PROVE  hist'[d].pc = "retain" /\ heads[d] # NoHead
      BY <1>1, <3>2 DEF RestoreBegin, CanSnapshot, Idle
    <3>3. ASSUME NEW i \in DOMAIN files[d], RemoveBegin(d, i)
          PROVE  hist'[d].pc = "remove" /\ files[d] # <<>>
      <4>1. files[d] # <<>>
        <5>. DEFINE f == files[d]
        <5>1. f \in Seq(Files) /\ i \in DOMAIN f
          BY <1>1
        <5>. HIDE DEF f
        <5>2. f # <<>>
          BY <5>1
        <5>. QED  BY <5>2 DEF f
      <4>2. hist'[d].pc = "remove"
        BY <1>1, <3>3 DEF RemoveBegin, RemoveFile, Histories
      <4>. QED  BY <4>1, <4>2
    <3>. QED  BY <1>5, <3>1, <3>2, <3>3
  <2>2. DeletionInv(d)'
    <3>1. Unowned(d)'
      BY <1>2 DEF DeletionsInv, DeletionInv, Unowned
    <3>. QED  BY <1>2, <2>1, <3>1, Alive, NotGone DEF DeletionsInv, Draining
  <2>. QED  BY <1>3, <2>2, OwnStepOnly
<1>. QED  BY <1>4, <1>5

\* The steps of a snapshot, a restore or a removal before it drains.
LEMMA SnapshotsLeave ==
    ASSUME SInv, DeletionsInv, NEW d \in Deck,
           \/ RetainSnapshot(d) \/ RetainRefused(d) \/ WriteSnapshotFile(d) \/ UnretainSnapshot(d)
           \/ PruneOldest(d) \/ PruneDone(d) \/ ReleaseSnapshot(d) \/ ForwardRefused(d)
           \/ SnapshotFileFails(d) \/ ReleaseFails(d)
    PROVE  DeletionsInv'
<1>1. IInv /\ hist \in [Deck -> Histories] /\ files \in [Deck -> Seq(Files)]
  BY DEF SInv, IInv, RequestsType
<1>2. hist[d].pc \in SnapshotSteps \ {"drain"}
  BY DEF RetainSnapshot, RetainRefused, WriteSnapshotFile, UnretainSnapshot, PruneOldest, PruneDone,
         ReleaseSnapshot, ForwardRefused, SnapshotFileFails, ReleaseFails, At, SnapshotSteps
<1>3. UNCHANGED <<heads, owned, outbox, drain, lost, rows, deleted>>
  BY DEF RetainSnapshot, RetainRefused, WriteSnapshotFile, UnretainSnapshot, PruneOldest, PruneDone,
         ReleaseSnapshot, ForwardRefused, SnapshotFileFails, ReleaseFails, RemoveFile, Retain, Release,
         StoreOnly, Unaffected, Elsewhere, recordVars, records, queue
<1>4. /\ \A e \in Deck \ {d} : files'[e] = files[e] /\ hist'[e] = hist[e]
      /\ hist'[d].pc \in {"idle"} \cup SnapshotSteps
  <2>. USE <1>1
  <2>1. CASE RetainSnapshot(d) \/ RetainRefused(d) \/ WriteSnapshotFile(d) \/ UnretainSnapshot(d)
    BY <2>1 DEF RetainSnapshot, RetainRefused, WriteSnapshotFile, UnretainSnapshot, Goto, Done, Idle,
                StoreOnly, Histories, SnapshotSteps
  <2>2. CASE PruneOldest(d) \/ PruneDone(d)
    BY <2>2 DEF PruneOldest, RemoveFile, PruneDone, Goto, Done, Idle, Histories, SnapshotSteps
  <2>3. CASE ReleaseSnapshot(d)
    BY <2>3 DEF ReleaseSnapshot, Goto, Done, Idle, StoreOnly, Histories, SnapshotSteps
  <2>4. CASE ForwardRefused(d) \/ SnapshotFileFails(d)
    BY <2>4 DEF ForwardRefused, SnapshotFileFails, Goto, Done, Idle, Histories, SnapshotSteps
  <2>5. CASE ReleaseFails(d)
    <3>1. \A e \in Deck \ {d} : files'[e] = files[e]
      BY <2>5 DEF ReleaseFails
    <3>. QED  BY <2>5, <3>1 DEF ReleaseFails, Done, Idle
  <2>. QED  BY <2>1, <2>2, <2>3, <2>4, <2>5
<1>5. \/ retained' = retained
      \/ \E s \in Snapshot : \E x : retained' = [retained EXCEPT ![HistoryOwner(d, s)] = x]
  <2>1. CASE RetainSnapshot(d) \/ ReleaseSnapshot(d)
    <3>1. hist[d].snap \in Snapshot
      BY <1>1, <2>1, Names DEF RetainSnapshot, ReleaseSnapshot, At
    <3>. QED  BY <2>1, <3>1 DEF RetainSnapshot, ReleaseSnapshot, Retain, Release
  <2>2. CASE UnretainSnapshot(d)
    <3>1. CASE hist[d].snap \in Snapshot
      BY <2>2, <3>1 DEF UnretainSnapshot, Release
    <3>2. CASE hist[d].snap \notin Snapshot
      <4>1. HistoryOwner(d, hist[d].snap) \notin Owners
        BY <3>2 DEF HistoryOwner, DeleteOwner, Owners
      <4>. QED  BY <1>1, <2>2, <4>1 DEF UnretainSnapshot, Release, IInv, RecordsType
    <3>. QED  BY <3>1, <3>2
  <2>3. CASE ~(RetainSnapshot(d) \/ ReleaseSnapshot(d) \/ UnretainSnapshot(d))
    BY <2>3 DEF RetainRefused, WriteSnapshotFile, PruneOldest, PruneDone, ForwardRefused,
                SnapshotFileFails, ReleaseFails, RemoveFile, recordVars, records
  <2>. QED  BY <2>1, <2>2, <2>3
<1>6. \A e \in Deck \ {d} : Rests(e) /\ Settles(e)
  BY <1>1, <1>3, <1>4, <1>5, OthersRest, QueueStays
<1>7. DeletionInv(d)'
  <2>1. Unowned(d)'
    BY <1>3 DEF DeletionsInv, DeletionInv, Unowned
  <2>. QED  BY <1>2, <1>3, <1>4, <2>1, Alive, NotGone DEF DeletionsInv, Draining, SnapshotSteps
<1>. QED  BY <1>6, <1>7, OwnStepOnly

\* A restore publishes.
LEMMA ForwardLeaves ==
    ASSUME SInv, SInv', RowsInv, DeletionsInv, NEW d \in Deck, Forward(d)
    PROVE  DeletionsInv'
<1>1. IInv /\ hist \in [Deck -> Histories] /\ heads[d] # NoHead /\ hist[d].pc = "forward"
  BY DEF Forward, At, SInv, IInv, RequestsType, RequestsInv, RequestInv, HoldsHead
<1>2. \A e \in Deck : heads'[e] = NoHead <=> heads[e] = NoHead
  BY <1>1, Forwards
<1>3. /\ UNCHANGED <<files, drain, rows, deleted, retained, lost>>
      /\ \E w : w.deck = d /\ outbox' = Append(outbox, w)
  BY DEF Forward, RestoreForward, QueueUpsert, StoreOnly, Unaffected, Elsewhere
<1>4. /\ hist'[d].pc \in {"drain", "idle"}
      /\ \A e \in Deck \ {d} : hist'[e] = hist[e] /\ owned'[e] = owned[e]
  BY <1>1 DEF Forward, RestoreForward, Goto, Done, Idle, Histories, IInv, RecordsType
<1>5. \A e \in Deck \ {d} : Rests(e) /\ Settles(e)
  BY <1>2, <1>3, <1>4, Queued DEF Rests
<1>6. DeletionInv(d)'
  <2>1. Unowned(d)'
    BY <1>1, <1>2 DEF Unowned
  <2>. QED  BY <1>1, <1>3, <1>4, <2>1, Alive, NotGone DEF DeletionsInv, Draining
<1>. QED  BY <1>5, <1>6, OwnStepOnly

-----------------------------------------------------------------------------
(* The deletion *)

\* The quarantine, and what it queues.
LEMMA QuarantineLeaves ==
    ASSUME IInv, NEW d \in Deck, Quarantine(d)
    PROVE  /\ retained' = retained /\ lost \subseteq lost' /\ Unowned(d)'
           /\ outbox' = outbox \/ \E w : w.deck = d /\ outbox' = Append(outbox, w)
           /\ \A e \in Deck \ {d} : heads'[e] = heads[e] /\ owned'[e] = owned[e]
<1>1. heads \in [Deck -> Heads \cup {NoHead}] /\ owned \in [Deck -> SUBSET Revisions]
  BY DEF IInv, RecordsType
<1>2. lost \subseteq lost' /\ (outbox' = outbox \/ \E w : w.deck = d /\ outbox' = Append(outbox, w))
  BY DEF Quarantine, QueueRemoval, AlreadyQueued
<1>. QED  BY <1>1, <1>2 DEF Quarantine, Unowned

\* The compensation, and what it queues.
LEMMA CompensationLeaves ==
    ASSUME IInv, NEW d \in Deck, CanRestoreQuarantined(DeleteOwner(d), d), RestoreQuarantined(DeleteOwner(d), d)
    PROVE  /\ retained' = retained /\ lost \subseteq lost' /\ Unowned(d)'
           /\ outbox' = outbox \/ \E w : w.deck = d /\ outbox' = Append(outbox, w)
           /\ \A e \in Deck \ {d} : heads'[e] = heads[e] /\ owned'[e] = owned[e]
<1>1. heads \in [Deck -> Heads \cup {NoHead}] /\ owned \in [Deck -> SUBSET Revisions]
  BY DEF IInv, RecordsType
<1>2. lost \subseteq lost' /\ (outbox' = outbox \/ \E w : w.deck = d /\ outbox' = Append(outbox, w))
  BY DEF RestoreQuarantined, QueueCompensation, QueueUpsert, AlreadyQueued
<1>. QED  BY <1>1, <1>2 DEF RestoreQuarantined, CanRestoreQuarantined, SetHead, Unowned

\* A deletion before it is certain, and what undoes it.
LEMMA DeletionsLeave ==
    ASSUME SInv, RowsInv, DeletionsInv, NEW d \in Deck,
           \/ DeleteRetain(d) \/ DeleteQuarantine(d) \/ DeleteQuarantineStale(d) \/ DeleteQuarantineFails(d)
           \/ DeleteStale(d) \/ DeleteSplice(d) \/ DeleteSpliceFails(d) \/ DeleteCheck(d)
           \/ DeleteUndo(d) \/ DeleteUndoFails(d) \/ DeleteUndoRelease(d)
    PROVE  DeletionsInv'
<1>1. IInv /\ hist \in [Deck -> Histories] /\ rows \in [Deck -> Nat]
  BY DEF SInv, IInv, RequestsType, RowsInv, QueueType
<1>2. hist[d].pc \in {"d.retain", "d.quarantine", "d.stale", "d.splice", "d.check", "d.undo", "d.undoRelease"}
  BY DEF DeleteRetain, DeleteQuarantine, DeleteQuarantineStale, DeleteQuarantineFails, DeleteStale, DeleteSplice,
         DeleteSpliceFails, DeleteCheck, DeleteUndo, DeleteUndoFails, DeleteUndoRelease, At
<1>3. UNCHANGED <<drain, deleted, files>>
  BY DEF DeleteRetain, DeleteQuarantine, DeleteQuarantineStale, DeleteQuarantineFails, DeleteStale, DeleteSplice,
         DeleteSpliceFails, DeleteCheck, DeleteUndo, DeleteUndoFails, DeleteUndoRelease, StoreOnly, Unaffected, Elsewhere,
         recordVars
<1>4. /\ \A e \in Deck \ {d} : hist'[e] = hist[e]
      /\ hist'[d].pc \notin {"d.release", "d.files", "d.drain"}
  <2>. USE <1>1
  <2>1. CASE DeleteRetain(d) \/ DeleteQuarantine(d) \/ DeleteQuarantineStale(d)
    BY <2>1 DEF DeleteRetain, DeleteQuarantine, DeleteQuarantineStale, Goto, Done, Idle, Histories
  <2>2. CASE DeleteQuarantineFails(d)
    BY <1>2, <2>2 DEF DeleteQuarantineFails, Histories
  <2>3. CASE DeleteStale(d) \/ DeleteUndo(d) \/ DeleteUndoFails(d) \/ DeleteUndoRelease(d)
    BY <2>3 DEF DeleteStale, DeleteUndo, DeleteUndoFails, DeleteUndoRelease, Goto, Done, Idle, Histories
  <2>4. CASE DeleteSplice(d) \/ DeleteSpliceFails(d)
    BY <2>4 DEF DeleteSplice, DeleteSpliceFails, Goto, Done, Idle, Histories
  <2>5. CASE DeleteCheck(d)
    BY <2>5 DEF DeleteCheck, Goto, Done, Idle, Histories
  <2>. QED  BY <2>1, <2>2, <2>3, <2>4, <2>5
<1>5. /\ retained' = retained \/ \E x : retained' = [retained EXCEPT ![DeleteOwner(d)] = x]
      /\ lost \subseteq lost' /\ Unowned(d)'
      /\ outbox' = outbox \/ \E w : w.deck = d /\ outbox' = Append(outbox, w)
      /\ \A e \in Deck \ {d} : heads'[e] = heads[e] /\ owned'[e] = owned[e]
  <2>1. CASE Quarantine(d)
    BY <1>1, <2>1, QuarantineLeaves
  <2>2. CASE CanRestoreQuarantined(DeleteOwner(d), d) /\ RestoreQuarantined(DeleteOwner(d), d)
    BY <1>1, <2>2, CompensationLeaves
  <2>3. CASE /\ UNCHANGED <<heads, owned, outbox, lost>>
             /\ retained' = retained \/ \E x : retained' = [retained EXCEPT ![DeleteOwner(d)] = x]
    BY <2>3 DEF DeletionsInv, DeletionInv, Unowned
  <2>4. CASE Retain(DeleteOwner(d), d) \/ Release(DeleteOwner(d)) \/ UNCHANGED <<records, queue>>
    BY <2>3, <2>4 DEF Retain, Release, records, queue
  <2>. QED  BY <2>1, <2>2, <2>4
            DEF DeleteRetain, DeleteQuarantine, DeleteQuarantineStale, DeleteQuarantineFails, DeleteStale,
                DeleteSplice, DeleteSpliceFails, DeleteCheck, DeleteUndo, DeleteUndoFails, DeleteUndoRelease,
                recordVars
<1>6. \A e \in Deck \ {d} : rows'[e] = rows[e]
  BY <1>1 DEF DeleteRetain, DeleteQuarantine, DeleteQuarantineStale, DeleteQuarantineFails, DeleteStale,
              DeleteSplice, DeleteSpliceFails, DeleteCheck, DeleteUndo, DeleteUndoFails, DeleteUndoRelease,
              StoreOnly, recordVars
<1>7. ASSUME NEW e \in Deck \ {d} PROVE Rests(e) /\ Settles(e)
  <2>1. Rests(e)
    BY <1>1, <1>3, <1>4, <1>5, OthersRest
  <2>2. Settles(e)
    BY <1>3, <1>5, <1>6, Queued
  <2>. QED  BY <2>1, <2>2
<1>8. DeletionInv(d)'
  BY <1>2, <1>3, <1>4, <1>5, Alive, NotGone DEF DeletionsInv, Draining
<1>. QED  BY <1>7, <1>8, OwnStepOnly

\* A deletion looks for what is left of the deck.
LEMMA DeleteReadLeaves ==
    ASSUME SInv, DeletionsInv, NEW d \in Deck, DeleteRead(d)
    PROVE  DeletionsInv'
<1>1. IInv /\ hist \in [Deck -> Histories]
  BY DEF SInv, IInv, RequestsType
<1>2. /\ UNCHANGED <<heads, owned, retained, outbox, drain, lost, rows, deleted, files>>
      /\ hist[d].pc = "d.read" /\ \A e \in Deck \ {d} : hist'[e] = hist[e]
  BY <1>1 DEF DeleteRead, At, Goto, Done, Unaffected, Elsewhere, recordVars, records, queue
<1>3. \A e \in Deck \ {d} : Rests(e) /\ Settles(e)
  BY <1>1, <1>2, OthersRest, QueueStays
<1>4. hist'[d].pc \in {"d.retain", "d.splice", "idle"}
  BY <1>1 DEF DeleteRead, Goto, Done, Idle, Histories
<1>5. CASE d \in deleted => d \in lost
  <2>1. Unowned(d)'
    BY <1>2 DEF DeletionsInv, DeletionInv, Unowned
  <2>. QED  BY <1>2, <1>3, <1>4, <1>5, <2>1, Alive, OwnStepOnly DEF DeletionsInv, Draining
<1>6. CASE Emptied(d)
  <2>1. Done(d)
    BY <1>6 DEF DeleteRead, Emptied, InFlight, HistoryOwnersOf
  <2>2. hist'[d].pc = "idle" /\ hist'[d].saw = FALSE
    BY <1>1, <2>1 DEF Done, Idle
  <2>3. DeletionInv(d)'
    BY <1>2, <1>6, <2>2 DEF DeletionsInv, DeletionInv, Unowned, OwnDrain, Cleared, Gone, Emptied, InFlight, Draining
  <2>. QED  BY <1>3, <2>3, OwnStepOnly
<1>. QED  BY <1>5, <1>6 DEF DeletionsInv, DeletionInv, Gone

\* The owners of snapshots, then the owner of the deletion, then the files.
LEMMA CleaningLeaves ==
    ASSUME SInv, DeletionsInv, NEW d \in Deck, DeleteOwners(d) \/ DeleteRelease(d) \/ DeleteFiles(d)
    PROVE  DeletionsInv'
<1>1. IInv /\ hist \in [Deck -> Histories] /\ files \in [Deck -> Seq(Files)]
  BY DEF SInv, IInv, RequestsType
<1>2. hist[d].pc \in {"d.owners", "d.release", "d.files"} /\ heads[d] = NoHead
  BY DEF DeleteOwners, DeleteRelease, DeleteFiles, At, SInv, SnapshotInv, Deleting
<1>3. UNCHANGED <<heads, owned, outbox, drain, lost, rows, deleted>>
  BY DEF DeleteOwners, DeleteRelease, DeleteFiles, Release, StoreOnly, Unaffected, Elsewhere, recordVars, records, queue
<1>4. \A e \in Deck \ {d} : files'[e] = files[e] /\ hist'[e] = hist[e]
  BY <1>1 DEF DeleteOwners, DeleteRelease, DeleteFiles, Goto, StoreOnly
<1>5. \/ retained' = retained
      \/ \E x : retained' = [retained EXCEPT ![DeleteOwner(d)] = x]
      \/ \E s \in Snapshot : \E x : retained' = [retained EXCEPT ![HistoryOwner(d, s)] = x]
  BY DEF DeleteOwners, DeleteRelease, DeleteFiles, Release, HistoryOwnersOf, recordVars, records
<1>6. \A e \in Deck \ {d} : Rests(e) /\ Settles(e)
  BY <1>1, <1>3, <1>4, <1>5, OthersRest, QueueStays
<1>7. Unowned(d)' /\ (d \in deleted => d \in lost) /\ drain'.by # HistoryCall(d)
  <2>1. DeletionInv(d)
    BY DEF DeletionsInv
  <2>. QED  BY <1>2, <1>3, <2>1, NotGone DEF DeletionInv, Unowned, OwnDrain, Draining
<1>8. Cleared(d)'
  <2>1. CASE DeleteOwners(d) /\ HistoryOwnersOf(d) # {}
    <3>1. hist'[d] = hist[d] /\ hist[d].pc = "d.owners"
      BY <2>1 DEF DeleteOwners, At
    <3>. QED  BY <3>1 DEF Cleared
  <2>2. CASE DeleteOwners(d) /\ HistoryOwnersOf(d) = {}
    <3>1. hist'[d].pc = "d.release" /\ retained' = retained
      BY <1>1, <2>2 DEF DeleteOwners, Goto, Histories, records
    <3>2. \A s \in Snapshot : retained[HistoryOwner(d, s)] = NoHead
      BY <2>2 DEF HistoryOwnersOf
    <3>. QED  BY <1>2, <1>3, <3>1, <3>2 DEF Cleared
  <2>3. CASE DeleteRelease(d)
    <3>1. hist'[d].pc = "d.files" /\ hist[d].pc = "d.release"
      BY <1>1, <2>3 DEF DeleteRelease, At, Goto, Histories
    <3>2. retained' = [retained EXCEPT ![DeleteOwner(d)] = NoHead]
      BY <2>3 DEF DeleteRelease, Release
    <3>3. retained'[DeleteOwner(d)] = NoHead
      BY <1>1, <3>2, OwnersApart DEF IInv, RecordsType
    <3>4. \A s \in Snapshot : retained[HistoryOwner(d, s)] = NoHead
      BY <3>1 DEF DeletionsInv, DeletionInv, Cleared
    <3>5. \A s \in Snapshot : retained'[HistoryOwner(d, s)] = NoHead
      BY <1>1, <3>2, <3>4, DeleteOwnerWritten
    <3>. QED  BY <1>2, <1>3, <3>1, <3>3, <3>5 DEF Cleared
  <2>4. CASE DeleteFiles(d)
    <3>1. hist'[d].pc = "d.drain" /\ hist[d].pc = "d.files" /\ files'[d] = <<>> /\ retained' = retained
      BY <1>1, <2>4 DEF DeleteFiles, At, Goto, Histories, recordVars, records
    <3>2. /\ \A s \in Snapshot : retained[HistoryOwner(d, s)] = NoHead
          /\ retained[DeleteOwner(d)] = NoHead
      BY <3>1 DEF DeletionsInv, DeletionInv, Cleared
    <3>. QED  BY <1>2, <1>3, <1>7, <3>1, <3>2 DEF Cleared
  <2>. QED  BY <2>1, <2>2, <2>3, <2>4
<1>9. DeletionInv(d)'
  BY <1>3, <1>7, <1>8 DEF DeletionInv, OwnDrain, Gone
<1>. QED  BY <1>6, <1>9, OwnStepOnly

\* A request is answered after its drain.
LEMMA AnswersLeave ==
    ASSUME SInv, RowsInv, DeletionsInv, NEW d \in Deck, RestoreReturns(d) \/ UndoReturns(d) \/ DeleteReturns(d)
    PROVE  DeletionsInv'
<1>1. IInv /\ hist \in [Deck -> Histories]
  BY DEF SInv, IInv, RequestsType
<1>2. /\ hist[d].pc \in Draining /\ hist'[d] = Idle /\ \A e \in Deck \ {d} : hist'[e] = hist[e]
      /\ DrainEnd(HistoryCall(d)) \/ DrainFails(HistoryCall(d))
      /\ files' = files /\ \A e \in Deck \ {d} : e \in deleted' => e \in deleted
  BY <1>1 DEF RestoreReturns, UndoReturns, DeleteReturns, At, Done, Draining, Unaffected, Elsewhere
<1>3. UNCHANGED <<heads, owned, retained>>
  BY <1>2 DEF DrainEnd, DrainFails, records
<1>4. \A e \in Deck : Settles(e) /\ drain' = NoDrain /\ lost' = lost /\ rows' = rows
  BY <1>2, DrainEndSettles
<1>5. \A e \in Deck \ {d} : Rests(e) /\ Settles(e)
  BY <1>1, <1>2, <1>3, <1>4, OthersRest
<1>6. Unowned(d)' /\ hist'[d].pc = "idle" /\ hist'[d].saw = FALSE
  BY <1>2, <1>3 DEF DeletionsInv, DeletionInv, Unowned, Idle
<1>7. d \in deleted => d \in lost
  BY <1>2, NotGone DEF DeletionsInv, Draining
<1>8. CASE d \in deleted' => d \in deleted
  <2>1. DeletionInv(d)'
    BY <1>4, <1>6, <1>7, <1>8, Alive DEF DeletionsInv
  <2>. QED  BY <1>5, <2>1, OwnStepOnly
<1>9. CASE DeleteReturns(d) /\ DrainEnd(HistoryCall(d)) /\ d \notin lost
  <2>1. hist[d].pc = "d.drain" /\ drain.by = HistoryCall(d) /\ drain.todo = <<>>
        /\ outbox' = Remaining(outbox, drain.done)
    BY <1>9 DEF DeleteReturns, At, DrainEnd, Acknowledge
  <2>2. /\ heads[d] = NoHead /\ files[d] = <<>> /\ retained[DeleteOwner(d)] = NoHead /\ Seen(d)
        /\ \A s \in Snapshot : retained[HistoryOwner(d, s)] = NoHead
    BY <2>1 DEF DeletionsInv, DeletionInv, Cleared
  <2>3. \A i \in DOMAIN outbox : outbox[i].deck = d => outbox[i] \in drain.done
    <3>1. DOMAIN drain.todo = {}
      BY <2>1
    <3>. QED  BY <2>2, <3>1 DEF Seen
  <2>4. rows[d] = NoRow
    BY <1>9, <2>2, <2>3 DEF RowsInv, QueueInv, DeckShows, RowShows, Shown
  <2>5. ~InFlight(d)'
    <3>1. \A k \in DOMAIN outbox' : outbox'[k] \notin drain.done /\ \E i \in DOMAIN outbox : outbox[i] = outbox'[k]
      BY <2>1, RemainsQueued
    <3>2. DOMAIN drain'.todo = {}
      BY <1>4, NobodyDrains
    <3>. QED  BY <2>3, <3>1, <3>2 DEF InFlight
  <2>6. Emptied(d)'
    BY <1>2, <1>3, <1>4, <1>6, <2>2, <2>4, <2>5 DEF Emptied
  <2>7. OwnDrain(d)' /\ Cleared(d)'
    <3>1. NoDrain.by # HistoryCall(d)
      BY NobodyDrains, CallersDrain, RecordsConstants
    <3>. QED  BY <1>4, <1>6, <3>1 DEF OwnDrain, Cleared
  <2>8. DeletionInv(d)'
    BY <1>6, <2>6, <2>7 DEF DeletionInv, Gone
  <2>. QED  BY <1>5, <2>8, OwnStepOnly
<1>10. CASE d \in lost
  <2>1. OwnDrain(d)' /\ Cleared(d)'
    <3>1. NoDrain.by # HistoryCall(d)
      BY NobodyDrains, CallersDrain, RecordsConstants
    <3>. QED  BY <1>4, <1>6, <3>1 DEF OwnDrain, Cleared
  <2>2. DeletionInv(d)'
    BY <1>4, <1>6, <1>10, <2>1 DEF DeletionInv, Gone
  <2>. QED  BY <1>5, <2>2, OwnStepOnly
<1>11. CASE RestoreReturns(d) \/ UndoReturns(d) \/ (DeleteReturns(d) /\ UNCHANGED deleted)
  BY <1>8, <1>11 DEF RestoreReturns, UndoReturns, Unaffected, Elsewhere
<1>. QED  BY <1>9, <1>10, <1>11 DEF DeleteReturns

\* A crash forgets the requests and the drain.
LEMMA CrashLeaves ==
    ASSUME RowsInv, DeletionsInv, Crash
    PROVE  DeletionsInv'
<1>. SUFFICES ASSUME NEW d \in Deck PROVE DeletionInv(d)'
  BY DEF DeletionsInv
<1>1. /\ UNCHANGED <<heads, owned, retained, outbox, lost, rows, files, deleted>>
      /\ drain' = NoDrain /\ hist'[d] = Idle
  BY DEF Crash, records, queue
<1>2. hist'[d].pc = "idle" /\ hist'[d].saw = FALSE
  BY <1>1 DEF Idle
<1>3. NoDrain.by # HistoryCall(d) /\ DOMAIN NoDrain.todo = {}
  BY NobodyDrains, CallersDrain, RecordsConstants
<1>4. InFlight(d)' => InFlight(d)
  BY <1>1, <1>3 DEF InFlight
<1>5. DeletionInv(d)
  BY DEF DeletionsInv
<1>. QED  BY <1>1, <1>2, <1>3, <1>4, <1>5 DEF DeletionInv, Unowned, OwnDrain, Cleared, Gone, Emptied

\* What deletions leave, in every state of every behaviour.
LEMMA DeletionInvariance == Spec => []DeletionsInv
<1>1. Init => DeletionsInv
  <2>. SUFFICES ASSUME Init, NEW d \in Deck PROVE DeletionInv(d)
    BY DEF DeletionsInv
  <2>1. hist[d].pc = "idle" /\ drain = NoDrain /\ deleted = {} /\ Unowned(d)
    <3>. DEFINE b == CHOOSE c \in Body : TRUE
                x == FirstHead(b)
    <3>1. b \in Body
      BY HeadsOK
    <3>2. x # NoHead
      BY <3>1, InitialHead, HeadsOK
    <3>3. /\ hist = [e \in Deck |-> Idle] /\ drain = NoDrain /\ deleted = {}
          /\ heads = [e \in Deck |-> IF e \in Imported THEN x ELSE NoHead]
          /\ owned = [e \in Deck |-> IF e \in Imported THEN RevisionsOf(heads[e]) ELSE {}]
      BY DEF Init
    <3>. HIDE DEF x
    <3>4. Unowned(d)
      BY <3>2, <3>3 DEF Unowned
    <3>. QED  BY <3>3, <3>4 DEF Idle
  <2>2. NoDrain.by # HistoryCall(d)
    BY NobodyDrains, CallersDrain, RecordsConstants
  <2>. QED  BY <2>1, <2>2 DEF DeletionInv, OwnDrain, Cleared, Gone
<1>2. SInv /\ SInv' /\ RowsInv /\ DeletionsInv /\ [Next]_vars => DeletionsInv'
  <2>. SUFFICES ASSUME SInv, SInv', RowsInv, DeletionsInv, [Next]_vars PROVE DeletionsInv'
    OBVIOUS
  <2>1. CASE UNCHANGED vars
    <3>1. UNCHANGED <<records, files, hist, deleted>> /\ UNCHANGED <<outbox, drain, lost, rows>>
      BY <2>1 DEF vars, recordVars, requests, queue
    <3>. QED  BY <3>1, AllRest, QueueStays, DeckRests DEF DeletionsInv
  <2>2. ASSUME NEW d \in Deck, Begin(d) PROVE DeletionsInv'
    BY <2>2, EditsLeave, DrainsLeave, BeginsLeave DEF Begin
  <2>3. ASSUME NEW d \in Deck, SaveStep(d) \/ ExportStep(d) PROVE DeletionsInv'
    BY <2>3, EditsLeave, DrainsLeave DEF SaveStep, ExportStep
  <2>4. ASSUME NEW d \in Deck, SnapshotStep(d) PROVE DeletionsInv'
    BY <2>4, SnapshotsLeave, ForwardLeaves, AnswersLeave DEF SnapshotStep
  <2>5. ASSUME NEW d \in Deck, DeleteStep(d) PROVE DeletionsInv'
    BY <2>5, DeletionsLeave, DeleteReadLeaves, CleaningLeaves, AnswersLeave DEF DeleteStep
  <2>6. ASSUME NEW d \in Deck, HistoryDrain(d) PROVE DeletionsInv'
    BY <2>6, DrainsLeave
  <2>7. ASSUME NEW d \in Deck, Failures(d) PROVE DeletionsInv'
    BY <2>7, DrainsLeave, SnapshotsLeave, DeletionsLeave DEF Failures
  <2>8. CASE Apply \/ Restart
    BY <2>8, DrainsLeave
  <2>9. CASE Crash
    BY <2>9, CrashLeaves
  <2>. QED  BY <2>1, <2>2, <2>3, <2>4, <2>5, <2>6, <2>7, <2>8, <2>9 DEF Next, HistoryStep
<1>. QED  BY <1>1, <1>2, SnapshotsInvariance, RowsInvariance, PTL DEF Spec

\* A permanent deletion that was answered 200 is final and complete.
THEOREM DeletionsAreFinal == Spec => []DeletedLeavesNothing
<1>1. DeletionsInv /\ ServerType => DeletedLeavesNothing
  BY DEF DeletionsInv, DeletionInv, Unowned, Gone, Emptied, DeletedLeavesNothing, HistoryOwnersOf, ServerType
<1>. QED  BY <1>1, DeletionInvariance, ServerTyped, PTL

================================================================================

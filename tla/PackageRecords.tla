---------------------------- MODULE PackageRecords ----------------------------
(***************************************************************************)
(* The records of the package store that say which decks exist, the rows   *)
(* of presentations.json that show them, and the compatibility outbox that *)
(* carries every change of the first to the second                         *)
(* (package-store/lifecycle.js, compatibility-outbox.js,                   *)
(* compatibility-view.js, drain of package-store-runtime.js).              *)
(*                                                                         *)
(* A mutation of the store is one action: StateStore shows that            *)
(* publication is atomic.  Rows change under the lock of their file, so a  *)
(* change of one row is one action too.  Reading a deck overlays the       *)
(* projection of the store on the row, so a row is only its generation.    *)
(***************************************************************************)
EXTENDS Naturals, Sequences, FiniteSets

CONSTANTS
    Deck,         \* presentation identifiers
    Body,         \* editable contents of a deck
    Snapshot,     \* history snapshot identifiers
    NoHead,       \* model value: the deck has no package head
    Caller,       \* requests that drain the outbox
    Nobody,       \* model value: nobody drains
    FaultPoints,  \* the steps at which an I/O call may fail
    MaxFaults     \* bound: failed I/O calls

ASSUME RecordsConstants ==
    /\ Nobody \notin Caller /\ MaxFaults \in Nat

VARIABLES
    heads,       \* the aggregate head of each deck
    owned,       \* the revisions each deck owns (owners of type presentation)
    retained,    \* the retained head of each retained owner, or NoHead
    outbox,      \* compatibilityOutbox
    epoch,       \* matrixAuthorityEpoch
    clock,       \* orders the upserts: updatedAt makes each one distinct
    rows,        \* presentations.json: the head generation of each row
    drain,       \* drainPackageCompatibilityOutbox() in progress
    faults,      \* the steps at which a call may still fail, and how often
    lost,        \* history: decks a write of which was not applied, or not queued
    commits      \* history: the generations each deck has had

records == <<heads, owned, retained, epoch, commits>>
queue == <<outbox, clock, lost>>
recordVars == <<records, queue, rows, drain, faults>>

-----------------------------------------------------------------------------
NoRow == 0

\* Retained owners: what pins a head besides the deck itself.
DeleteOwner(d) == <<"permanent-delete", d>>
HistoryOwner(d, s) == <<"history", d, s>>
Owners == {DeleteOwner(d) : d \in Deck}
          \cup {HistoryOwner(d, s) : d \in Deck, s \in Snapshot}

Revisions == [ord : Nat, body : Body]

\* edits: the saves since the last committed authority of the package revision (2:
\* two or more), that is, since the import, an edited export or a restore; with none
\* pendingJournalHash is absent.  journal: journalRevisionId.
Heads == [gen : Nat \ {0}, body : Body, pkg : Revisions, original : Revisions,
          edits : 0 .. 2, journal : {"null", "set"}, epoch : Nat]
ASSUME HeadsOK == NoHead \notin Heads /\ Body # {}

Writes == [op : {"upsert", "remove"}, deck : Deck, gen : Nat \ {0}, at : Nat]
NoDrain == [by |-> Nobody, todo |-> <<>>, done |-> {}, bad |-> {}]

RecordsTypeOK ==
    /\ heads \in [Deck -> Heads \cup {NoHead}]
    /\ \A d \in Deck : owned[d] \subseteq Revisions
    /\ retained \in [Owners -> Heads \cup {NoHead}]
    /\ outbox \in Seq(Writes) /\ epoch \in Nat \ {0} /\ clock \in Nat
    /\ rows \in [Deck -> Nat]
    /\ drain.by \in Caller \cup {Nobody}
    /\ drain.todo \in Seq(Writes) /\ drain.done \subseteq Writes
    /\ drain.bad \subseteq drain.done
    /\ lost \subseteq Deck /\ faults \in [at : SUBSET FaultPoints, left : 0 .. MaxFaults]
    /\ \A d \in Deck : commits[d] \subseteq [gen : Nat, body : Body]

FirstHead(b) ==
    LET r0 == [ord |-> 0, body |-> b]
    IN  [gen |-> 1, body |-> b, pkg |-> r0, original |-> r0,
         edits |-> 0, journal |-> "null", epoch |-> 1]

RevisionsOf(h) == {h.original, h.pkg}

\* resolveEditedExportContext(): a pending head needs a committed authority of the
\* generation before it.
HasAuthority(h) == h.edits < 2

\* resolvePackageBackedReadFromState(), with hasConsistentAuthorityPointers()
Readable(h) == HasAuthority(h) /\ (h.edits = 0 => h.journal = "null")

\* The writes of a queue that are not among some others, in their order.
Remaining(writes, gone) ==
    LET left[n \in 0 .. Len(writes)] ==
            IF n = 0 THEN <<>>
            ELSE IF writes[n] \in gone THEN left[n - 1] ELSE Append(left[n - 1], writes[n])
    IN  left[Len(writes)]

Fault(p) == p \in faults.at /\ faults.left > 0 /\ faults' = [faults EXCEPT !.left = @ - 1]

-----------------------------------------------------------------------------
(* Records: what the mutator of each store operation changes *)

\* queueCompatibilityUpsert() with a new updatedAt: never a duplicate.
QueueUpsert(d, gen) ==
    /\ outbox' = Append(outbox, [op |-> "upsert", deck |-> d, gen |-> gen,
                                 at |-> clock + 1])
    /\ clock' = clock + 1 /\ UNCHANGED lost

\* A write with the identity of one that is still queued is not queued again,
\* although another write of the deck may have been queued in between.
AlreadyQueued(d) == lost' = lost \cup {d} /\ UNCHANGED <<outbox, clock>>

\* queueCompatibilityRemoval(): the identity is the deck and the generation.
QueueRemoval(d, gen) ==
    LET w == [op |-> "remove", deck |-> d, gen |-> gen, at |-> 0]
    IN  IF \E i \in DOMAIN outbox : outbox[i] = w THEN AlreadyQueued(d)
        ELSE outbox' = Append(outbox, w) /\ UNCHANGED <<clock, lost>>

\* queueCompatibilityUpsert() of a compensation carries the updatedAt of the row:
\* whether a queued upsert of the generation shows the same row is left open.
QueueCompensation(d, gen) ==
    \/ QueueUpsert(d, gen)
    \/ /\ \E i \in DOMAIN outbox : outbox[i].op = "upsert" /\ outbox[i].deck = d
                                   /\ outbox[i].gen = gen
       /\ AlreadyQueued(d)

SetHead(d, h) ==
    /\ heads' = [heads EXCEPT ![d] = h]
    /\ commits' = [commits EXCEPT ![d] = @ \cup {[gen |-> h.gen, body |-> h.body]}]

\* retainHead()
Retain(o, d) ==
    /\ retained' = [retained EXCEPT ![o] = heads[d]]
    /\ UNCHANGED <<heads, owned, epoch, commits, queue>>

\* Mutant: the owner records stay.
ReleaseNothing(o) == UNCHANGED <<records, queue>>

\* releaseOwner()
Release(o) ==
    /\ retained' = [retained EXCEPT ![o] = NoHead]
    /\ UNCHANGED <<heads, owned, epoch, commits, queue>>

\* Mutant: the removal carries the generation before.
QuarantineOfPredecessor(d) ==
    /\ heads' = [heads EXCEPT ![d] = NoHead]
    /\ owned' = [owned EXCEPT ![d] = {}]
    /\ QueueRemoval(d, heads[d].gen - 1)
    /\ UNCHANGED <<retained, epoch, commits>>

\* quarantinePresentation() with compatibilityRemove
Quarantine(d) ==
    /\ heads' = [heads EXCEPT ![d] = NoHead]
    /\ owned' = [owned EXCEPT ![d] = {}]
    /\ QueueRemoval(d, heads[d].gen)
    /\ UNCHANGED <<retained, epoch, commits>>

\* restoreQuarantinedHead() pushes the retained head as it was; publish()
\* validates that every head carries the authority epoch of the state.
CanRestoreQuarantined(o, d) ==
    retained[o] # NoHead /\ heads[d] = NoHead /\ retained[o].epoch = epoch

\* Mutant: the restored head is not shown again.
RestoreQuarantinedSilently(o, d) ==
    /\ SetHead(d, retained[o])
    /\ owned' = [owned EXCEPT ![d] = RevisionsOf(retained[o])]
    /\ UNCHANGED <<retained, epoch, queue>>

RestoreQuarantined(o, d) ==
    /\ SetHead(d, retained[o])
    /\ owned' = [owned EXCEPT ![d] = RevisionsOf(retained[o])]
    /\ QueueCompensation(d, retained[o].gen)
    /\ UNCHANGED <<retained, epoch>>

CanRestoreForward(o, d) ==
    retained[o] # NoHead /\ heads[d] # NoHead
    /\ retained[o].edits = 0 /\ heads[d].edits = 0

\* The journal of a head that is back on the imported package is dropped.
JournalAfter(h) == IF h.pkg = h.original THEN "null" ELSE h.journal

\* Mutant: the other heads keep the epoch they had.
RestoreForwardAlone(o, d) ==
    LET h == [retained[o] EXCEPT !.gen = heads[d].gen + 1, !.epoch = epoch + 1,
                                 !.journal = JournalAfter(retained[o])]
    IN  /\ SetHead(d, h)
        /\ owned' = [owned EXCEPT ![d] = RevisionsOf(retained[o])]
        /\ epoch' = epoch + 1
        /\ QueueUpsert(d, h.gen)
        /\ UNCHANGED retained

\* restoreForward(): the retained head becomes the next generation, and every
\* head moves to a new authority epoch.
RestoreForward(o, d) ==
    LET h == [retained[o] EXCEPT !.gen = heads[d].gen + 1, !.epoch = epoch + 1,
                                 !.journal = JournalAfter(retained[o])]
    IN  /\ heads' = [e \in Deck |-> IF e = d THEN h
                                    ELSE IF heads[e] = NoHead THEN NoHead
                                    ELSE [heads[e] EXCEPT !.epoch = epoch + 1]]
        /\ commits' = [commits EXCEPT ![d] = @ \cup {[gen |-> h.gen, body |-> h.body]}]
        /\ owned' = [owned EXCEPT ![d] = RevisionsOf(retained[o])]
        /\ epoch' = epoch + 1
        /\ QueueUpsert(d, h.gen)
        /\ UNCHANGED retained

-----------------------------------------------------------------------------
(* Rows and the drain of the outbox *)

\* Mutant: an older write overwrites a newer row.
AppliedInAnyOrder(r, w) ==
    [r EXCEPT ![w.deck] = IF w.op = "remove" THEN NoRow ELSE w.gen]

\* applyCompatibilityWrites(): a write older than the row is skipped.
Applied(r, w) ==
    IF r[w.deck] # NoRow /\ w.gen < r[w.deck] THEN r
    ELSE [r EXCEPT ![w.deck] = IF w.op = "remove" THEN NoRow ELSE w.gen]

\* compatibilityDrainTail admits one drain; it works on a snapshot.
DrainBegin(c) ==
    /\ drain.by = Nobody
    /\ drain' = [NoDrain EXCEPT !.by = c, !.todo = outbox]
    /\ UNCHANGED <<records, queue, rows, faults>>

DrainApply ==
    /\ drain.by # Nobody /\ drain.todo # <<>>
    /\ LET w == Head(drain.todo)
           seen == [drain EXCEPT !.todo = Tail(@), !.done = @ \cup {w}]
       IN  \/ rows' = Applied(rows, w) /\ drain' = seen
              /\ UNCHANGED <<faults, lost>>
           \/ Fault("apply") /\ drain' = [seen EXCEPT !.bad = @ \cup {w}]
              /\ lost' = lost \cup {w.deck} /\ UNCHANGED rows
    /\ UNCHANGED <<records, outbox, clock>>

\* Mutant: the outbox is emptied, with what was queued during the drain.
AcknowledgeAll(done) == <<>>

\* acknowledgeCompatibilityOutbox() removes what the drain has seen.
Acknowledge(done) == Remaining(outbox, done)

\* What was applied is acknowledged before the rest moves to compatibilityDeadLetter.
DrainAcknowledge ==
    /\ drain.by # Nobody /\ drain.todo = <<>>
    /\ drain.bad # {} /\ drain.done # drain.bad
    /\ outbox' = Acknowledge(drain.done \ drain.bad)
    /\ drain' = [drain EXCEPT !.done = drain.bad]
    /\ UNCHANGED <<records, clock, lost, rows, faults>>

DrainEnd(c) ==
    /\ drain.by = c /\ drain.todo = <<>> /\ drain.bad \in {{}, drain.done}
    /\ outbox' = Acknowledge(drain.done)
    /\ drain' = NoDrain
    /\ UNCHANGED <<records, clock, lost, rows, faults>>

\* A mutation of the store fails and so does the drain; the writes stay queued.
DrainFails(c) ==
    /\ drain.by = c /\ drain.todo = <<>> /\ drain.done # {}
    /\ Fault("acknowledge")
    /\ drain' = NoDrain
    /\ UNCHANGED <<records, queue, rows>>

=============================================================================

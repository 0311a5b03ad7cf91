------------------------------- MODULE EditorSave -------------------------------
(***************************************************************************)
(* The save queue of the editor for one package-backed deck, the PUTs it   *)
(* sends and the local draft it leaves behind                              *)
(* (hooks/editor-controller/use-editor-save-controller.js,                 *)
(* editor-save-attempt.js, use-editor-persistence-controller.js,           *)
(* use-editor-recovery-controller.js, use-export-actions.js,               *)
(* utils/editor-draft-store.js, server/services/generation-safe-save.js).  *)
(*                                                                         *)
(* A body is the set of the edits it contains.  One browser edits the      *)
(* deck; another client may save it too.  A PUT or its answer can be lost, *)
(* the deck can be left at any moment and opened again.                    *)
(***************************************************************************)
EXTENDS Integers, Sequences

CONSTANTS
    Edit,          \* edits the user makes in this browser
    Large,         \* edits that make a body too large for a keepalive request
    RemoteEdit,    \* edits another client saves
    NoEntry,       \* model value: an empty reference
    Workloads,     \* the sets of optional events that are explored
    MaxSaves,      \* bound: scheduled saves
    MaxLoss,       \* bound: lost requests and lost answers
    MaxLeave,      \* bound: times the deck is left
    MaxExport      \* bound: validated exports

Events == {"remote", "defer", "export", "switch", "unmount", "close"}

ASSUME EditorConstants ==
    /\ Large \subseteq Edit /\ Edit \cap RemoteEdit = {}
    /\ Workloads \subseteq SUBSET Events
    /\ {MaxSaves, MaxLoss, MaxLeave, MaxExport} \subseteq Nat

VARIABLES
    events,    \* the workload: the optional events that may occur
    head,      \* the deck on the server: generation and body
    results,   \* mutationResults of the saves: number, key, request and generation
    tab,       \* the editor page: "closed", "loading", "reading" (the draft) or "open"
    doc,       \* the presentation in the editor
    ctl,       \* the save controllers of this page, the mounted one last
    conflict,  \* saveConflict of the store: the conflict dialog is shown
    draft,     \* the browser's draft of the deck
    offered,   \* the draft the recovery dialog shows
    wire,      \* PUTs that outlive their page
    bounds,    \* how many saves, losses, leaves and exports there were
    made,      \* history: edits the user made
    seen,      \* history: edits of server bodies the user was shown
    dropped,   \* history: edits the user chose to drop
    shelved,   \* history: edits of drafts the user kept for later
    silent     \* history: saved edits that a save dropped unseen

server == <<head, results, silent>>
page == <<tab, doc, conflict, offered>>
history == <<made, seen, dropped, shelved>>
vars == <<events, server, page, ctl, draft, wire, bounds, history>>

-----------------------------------------------------------------------------
Bodies == SUBSET (Edit \cup RemoteEdit)
Most(m, n) == IF m >= n THEN m ELSE n

\* A queued save: its attempt, idempotency key, expected generation, body and
\* route; "seen" is the history of the user when it was scheduled.
Entries == [n : Nat, key : Nat, gen : Nat, body : Bodies, epoch : Nat, seen : Bodies]

\* A PUT of an entry and its answer: "ok", 409 STALE_GENERATION, 409
\* IDEMPOTENCY_KEY_CONFLICT or none.
Puts == [e : Entries, at : {"out", "ok", "stale", "keyed", "lost"}, gen : Nat]
PutOf(e) == [e |-> e, at |-> "out", gen |-> 0]

ASSUME NoEntryOK == NoEntry \notin Entries \cup Puts

Fresh(n) == [queue |-> NoEntry, failed |-> NoEntry, inflight |-> NoEntry, flushing |-> NoEntry,
             timer |-> FALSE, accepted |-> 0, attempt |-> n, epoch |-> 0,
             export |-> "none", exportGen |-> 0, status |-> ""]

Mounted == Len(ctl)
c == ctl[Mounted]

TypeOK ==
    /\ head \in [gen : Nat \ {0}, body : Bodies]
    /\ \A r \in results : r \in [n : Nat, key : Nat, from : Nat, body : Bodies, gen : Nat]
    /\ tab \in {"closed", "loading", "reading", "open"} /\ doc \in Bodies
    /\ \A i \in DOMAIN ctl :
          /\ {ctl[i].queue, ctl[i].failed} \subseteq Entries \cup {NoEntry}
          /\ {ctl[i].inflight, ctl[i].flushing} \subseteq Puts \cup {NoEntry}
          /\ ~(ctl[i].inflight # NoEntry /\ ctl[i].flushing # NoEntry)
          /\ ctl[i].timer \in BOOLEAN
          /\ {ctl[i].accepted, ctl[i].attempt, ctl[i].epoch, ctl[i].exportGen} \subseteq Nat
          /\ ctl[i].export \in {"none", "wait", "begun", "sent"}
          /\ ctl[i].status \in {"", "saving", "saved", "error"}
    /\ conflict \in BOOLEAN /\ {draft, offered} \subseteq Entries \cup {NoEntry}
    /\ wire \subseteq Puts
    /\ bounds \in [save : 0 .. MaxSaves, loss : 0 .. MaxLoss, leave : 0 .. MaxLeave,
                  export : 0 .. MaxExport]
    /\ {made, seen, dropped, shelved, silent} \subseteq Bodies

Init ==
    /\ events \in Workloads
    /\ head = [gen |-> 1, body |-> {}] /\ results = {}
    /\ tab = "open" /\ doc = {} /\ ctl = <<[Fresh(0) EXCEPT !.accepted = 1]>>
    /\ conflict = FALSE /\ draft = NoEntry /\ offered = NoEntry /\ wire = {}
    /\ bounds = [save |-> 0, loss |-> 0, leave |-> 0, export |-> 0]
    /\ made = {} /\ seen = {} /\ dropped = {} /\ shelved = {} /\ silent = {}

-----------------------------------------------------------------------------
(* The server: PUT /api/presentations/:id of a package-backed deck *)

SameRequest(r, e) == r.from = e.gen /\ r.body = e.body

VerdictReplaysAny(e) ==
    IF \E r \in results : r.key = e.key
    THEN IF \E r \in results : r.key = e.key /\ SameRequest(r, e) THEN "ok" ELSE "keyed"
    ELSE IF e.gen = head.gen THEN "ok" ELSE "stale"

VerdictByKey(e) == IF \E r \in results : r.key = e.key /\ ~SameRequest(r, e) THEN "keyed" ELSE "ok"

\* savePackageProjection(): a known key is a replay or a conflict of keys; a new
\* one must expect the current generation.
Verdict(e) ==
    IF \E r \in results : r.key = e.key
    THEN LET r == CHOOSE r \in results : r.key = e.key
         IN  IF ~SameRequest(r, e) THEN "keyed"
             ELSE IF r.gen = head.gen THEN "ok" ELSE "stale"
    ELSE IF e.gen = head.gen THEN "ok" ELSE "stale"

Commits(e) == Verdict(e) = "ok" /\ \A r \in results : r.key # e.key

Serve(e) ==
    IF Commits(e)
    THEN /\ head' = [gen |-> head.gen + 1, body |-> e.body]
         /\ results' = results \cup {[n |-> e.n, key |-> e.key, from |-> e.gen,
                                      body |-> e.body, gen |-> head.gen + 1]}
         /\ silent' = silent \cup (head.body \ (e.body \cup e.seen))
    ELSE UNCHANGED server

Answered(p) == [p EXCEPT !.at = Verdict(p.e),
                         !.gen = IF Commits(p.e) THEN head.gen + 1 ELSE head.gen]

\* Another client saves an edit on top of the current body.
RemoteSave(r) ==
    /\ "remote" \in events /\ r \notin head.body
    /\ head' = [gen |-> head.gen + 1, body |-> head.body \cup {r}]
    /\ UNCHANGED <<events, results, silent, page, ctl, draft, wire, bounds, history>>

\* A PUT is served, or it or its answer is lost; q is the PUT afterwards.
Outcomes(p) == {Answered(p), [p EXCEPT !.at = "lost"]}
Delivered(p, q) ==
    /\ p.at = "out"
    /\ \/ q.at # "lost" /\ Serve(p.e) /\ UNCHANGED bounds
       \/ /\ q.at = "lost" /\ (Serve(p.e) \/ UNCHANGED server)
          /\ bounds.loss < MaxLoss /\ bounds' = [bounds EXCEPT !.loss = @ + 1]

Replaced(i, s) == ctl' = [ctl EXCEPT ![i] = s]

DeliverSave(i) ==
    /\ ctl[i].inflight # NoEntry
    /\ \E q \in Outcomes(ctl[i].inflight) :
          Delivered(ctl[i].inflight, q) /\ Replaced(i, [ctl[i] EXCEPT !.inflight = q])
    /\ UNCHANGED <<events, page, draft, wire, history>>

DeliverFlush(i) ==
    /\ ctl[i].flushing # NoEntry
    /\ \E q \in Outcomes(ctl[i].flushing) :
          Delivered(ctl[i].flushing, q) /\ Replaced(i, [ctl[i] EXCEPT !.flushing = q])
    /\ UNCHANGED <<events, page, draft, wire, history>>

\* The PUT of a closed page: nobody hears the answer.
DeliverLate(p) ==
    /\ wire' = wire \ {p} /\ (Serve(p.e) \/ UNCHANGED server)
    /\ UNCHANGED <<events, page, ctl, draft, bounds, history>>

-----------------------------------------------------------------------------
(* The controller: operators on its record *)

Exporting(s) == s.export \in {"begun", "sent"}
Blocked(s) == s.inflight # NoEntry \/ s.flushing # NoEntry \/ Exporting(s)
Idle(s) == s.inflight = NoEntry /\ s.flushing = NoEntry /\ s.queue = NoEntry /\ s.failed = NoEntry

\* notifyIdle(): an export that waits for the queue goes on or gives up.
Notified(s) ==
    IF s.export # "wait" THEN s
    ELSE IF s.failed # NoEntry THEN [s EXCEPT !.export = "none"]
         ELSE IF Idle(s) THEN [s EXCEPT !.export = "begun"] ELSE s

\* processQueue(): the failed save is sent again before its successor.
Process(s) ==
    IF Blocked(s) THEN s
    ELSE IF s.failed # NoEntry THEN [s EXCEPT !.inflight = PutOf(s.failed), !.failed = NoEntry]
    ELSE IF s.queue # NoEntry THEN [s EXCEPT !.inflight = PutOf(s.queue), !.queue = NoEntry]
    ELSE Notified(s)

\* scheduleSave(): the draft, the same entry, is written before anything is sent.
Schedule(s, body, key, view) ==
    [s EXCEPT !.queue = [n |-> s.attempt + 1, key |-> key, gen |-> s.accepted, body |-> body,
                         epoch |-> s.epoch, seen |-> view],
              !.attempt = @ + 1, !.timer = FALSE, !.status = "saving"]
Now(s) == IF Exporting(s) THEN s ELSE Process(s)
Later(s) == [s EXCEPT !.timer = ~Exporting(s)]
NewKey(s) == s.attempt + 1

Successor(s, e) == s.queue # NoEntry /\ s.queue.epoch = e.epoch
Heeded(s, e) == e.n = s.attempt \/ Successor(s, e)

\* adoptGeneration() of a queued save
Rebased(e, gen) == [e EXCEPT !.gen = Most(@, gen)]

\* persistEditorSave() with a committed answer: the next save expects its generation.
AdoptSaved(s, p) ==
    LET gen == Most(s.accepted, p.gen)
    IN  IF ~Heeded(s, p.e) THEN s
        ELSE [s EXCEPT !.accepted = gen,
                       !.queue = IF Successor(s, p.e) THEN Rebased(@, gen) ELSE @,
                       !.status = IF p.e.n = s.attempt THEN "saved" ELSE @]

KeepFailed(s, p, mounted) ==
    [s EXCEPT !.status = IF mounted /\ Heeded(s, p.e) THEN "error" ELSE @,
              !.failed = IF p.e.epoch = s.epoch THEN p.e ELSE @]

ContinueLater(s, go, dialog) == Notified(s)

\* The transport is free again; its successor may go.
Continue(s, go, dialog) ==
    Notified(IF go /\ s.queue # NoEntry /\ s.queue.epoch = s.epoch /\ ~dialog
             THEN Process(s) ELSE s)

\* clearEditorDraft(): the draft of this save or an older one goes.
ClearedAny(e) == NoEntry
Cleared(e) == IF draft # NoEntry /\ draft.n <= e.n THEN NoEntry ELSE draft

-----------------------------------------------------------------------------
(* The controller: its events *)

SaveAnswered(i) ==
    LET s == ctl[i]
        p == s.inflight
        mounted == i = Mounted
        ok == p.at = "ok"
        stale == p.at = "stale" /\ mounted /\ Heeded(s, p.e)
        settled == [IF ok THEN AdoptSaved(s, p) ELSE KeepFailed(s, p, mounted)
                    EXCEPT !.inflight = NoEntry]
    IN  /\ p # NoEntry /\ p.at # "out"
        /\ draft' = IF ok THEN Cleared(p.e) ELSE draft
        /\ conflict' = (conflict \/ stale)
        /\ Replaced(i, Continue(settled, ok \/ p.e.epoch # s.epoch, conflict'))
        /\ UNCHANGED <<events, server, tab, doc, offered, wire, bounds, history>>

FlushAnswered(i) ==
    LET p == ctl[i].flushing
    IN  /\ p # NoEntry /\ p.at # "out"
        /\ draft' = IF p.at = "ok" THEN Cleared(p.e) ELSE draft
        /\ Replaced(i, Continue([ctl[i] EXCEPT !.flushing = NoEntry], TRUE, conflict))
        /\ UNCHANGED <<events, server, page, wire, bounds, history>>

TimerFires(i) ==
    /\ ctl[i].timer
    /\ Replaced(i, Process([ctl[i] EXCEPT !.timer = FALSE]))
    /\ UNCHANGED <<events, server, page, draft, wire, bounds, history>>

\* The editor has no dialog open; both dialogs are modal.
Usable == tab = "open" /\ offered = NoEntry /\ ~conflict
Saves == bounds.save < MaxSaves /\ bounds' = [bounds EXCEPT !.save = @ + 1]

EditDoc(e) ==
    /\ Usable /\ Saves /\ e \notin made
    /\ doc' = doc \cup {e} /\ made' = made \cup {e}
    /\ LET s == Schedule(c, doc', NewKey(c), seen)
       IN  Replaced(Mounted, Later(s)) /\ draft' = s.queue
    /\ UNCHANGED <<events, server, tab, conflict, offered, wire, seen, dropped, shelved>>

ManualSave ==
    /\ Usable /\ Saves
    /\ LET s == Schedule(c, doc, NewKey(c), seen)
       IN  Replaced(Mounted, Now(s)) /\ draft' = s.queue
    /\ UNCHANGED <<events, server, page, wire, history>>

\* The button is there while the status says that a save failed.
RetrySave ==
    /\ Usable /\ c.status = "error" /\ (c.failed # NoEntry \/ c.queue # NoEntry)
    /\ Replaced(Mounted, Process([c EXCEPT !.status = "saving"]))
    /\ UNCHANGED <<events, server, page, draft, wire, bounds, history>>

-----------------------------------------------------------------------------
(* The conflict dialog *)

CloseConflict ==
    /\ tab = "open" /\ conflict /\ conflict' = FALSE
    /\ UNCHANGED <<events, server, tab, doc, offered, ctl, draft, wire, bounds, history>>

\* keepLocalSaveConflict(): reads the current generation and saves over it.
KeepLocal ==
    /\ tab = "open" /\ conflict /\ Saves
    /\ conflict' = FALSE
    /\ seen' = seen \cup head.body /\ dropped' = dropped \cup (head.body \ doc)
    /\ LET s == [c EXCEPT !.accepted = Most(@, head.gen), !.failed = NoEntry]
           t == Schedule(s, doc, NewKey(s), seen')
       IN  Replaced(Mounted, Now(t)) /\ draft' = t.queue
    /\ UNCHANGED <<events, server, tab, doc, offered, wire, made, shelved>>

\* useRemoteSaveConflict(): discards what is pending, with its draft.
UseRemote ==
    /\ tab = "open" /\ conflict
    /\ conflict' = FALSE /\ doc' = head.body
    /\ seen' = seen \cup head.body /\ dropped' = dropped \cup (doc \ head.body)
    /\ draft' = IF \E e \in {c.queue, c.failed} \ {NoEntry} : Cleared(e) = NoEntry
                THEN NoEntry ELSE draft
    /\ Replaced(Mounted, [c EXCEPT !.accepted = Most(@, head.gen), !.queue = NoEntry,
                                   !.failed = NoEntry, !.timer = FALSE, !.attempt = @ + 1,
                                   !.export = IF @ = "wait" THEN "none" ELSE @, !.status = ""])
    /\ UNCHANGED <<events, server, tab, offered, wire, bounds, made, shelved>>

-----------------------------------------------------------------------------
(* Leaving the deck, opening it and recovering its draft *)

\* flush(): hands the pending save to a keepalive request, unless a transport is
\* busy or the body is too large.
CanFlush(s) == ~Blocked(s) /\ (s.queue # NoEntry \/ s.failed # NoEntry)
FlushEntry(s) == IF s.queue # NoEntry THEN s.queue ELSE s.failed
Oversize(e) == e.body \cap Large # {}
FlushedAlways(s) ==
    LET e == FlushEntry(s)
    IN  IF e = NoEntry THEN s
        ELSE [s EXCEPT !.timer = FALSE, !.flushing = PutOf(e), !.queue = NoEntry, !.failed = NoEntry]

Flushed(s) ==
    IF Blocked(s) THEN s
    ELSE IF ~CanFlush(s) \/ Oversize(FlushEntry(s)) THEN [s EXCEPT !.timer = FALSE]
    ELSE [s EXCEPT !.timer = FALSE, !.flushing = PutOf(FlushEntry(s)), !.queue = NoEntry,
                   !.failed = IF s.queue = NoEntry THEN NoEntry ELSE @]

ResetForRoute(s) ==
    [Flushed(s) EXCEPT !.queue = NoEntry, !.failed = NoEntry, !.export = "none",
                       !.attempt = @ + 1, !.epoch = @ + 1, !.accepted = 0, !.status = ""]

Leave(how) ==
    /\ how \in events /\ tab # "closed" /\ ~Exporting(c) /\ bounds.leave < MaxLeave
    /\ bounds' = [bounds EXCEPT !.leave = @ + 1]
    /\ tab' = "closed" /\ conflict' = FALSE /\ offered' = NoEntry
    /\ UNCHANGED <<events, doc, history>>

\* The route changes to another deck; the controller serves that one now.
SwitchRoute ==
    /\ Leave("switch") /\ Replaced(Mounted, ResetForRoute(c))
    /\ UNCHANGED <<server, draft, wire>>

\* The editor unmounts; its controller lives on until its requests have ended.
Unmount ==
    /\ Leave("unmount")
    /\ ctl' = Append([ctl EXCEPT ![Mounted] = [Flushed(c) EXCEPT !.export = "none"]],
                     Fresh(c.attempt))
    /\ UNCHANGED <<server, draft, wire>>

\* The page unloads: requests already made go on, a large body is sent
\* synchronously and may fail.
PutsOf(s) == {p \in {s.inflight, s.flushing} : p # NoEntry /\ p.at = "out"}
ClosePage ==
    /\ Leave("close") /\ ctl' = <<Fresh(c.attempt)>>
    /\ wire' = wire \cup UNION {PutsOf(IF i = Mounted THEN Flushed(c) ELSE ctl[i]) : i \in DOMAIN ctl}
    /\ \/ UNCHANGED <<server, draft>>
       \/ /\ CanFlush(c) /\ Oversize(FlushEntry(c)) /\ Serve(FlushEntry(c))
          /\ draft' = IF Verdict(FlushEntry(c)) = "ok" THEN Cleared(FlushEntry(c)) ELSE draft

Open ==
    /\ tab = "closed" /\ tab' = "loading"
    /\ UNCHANGED <<events, server, doc, conflict, offered, ctl, draft, wire, bounds, history>>

\* The deck arrives: it is shown, and saved over from its generation on.
LoadArrives ==
    /\ tab = "loading" /\ tab' = "reading" /\ doc' = head.body /\ seen' = seen \cup head.body
    /\ Replaced(Mounted, [c EXCEPT !.accepted = Most(@, head.gen)])
    /\ UNCHANGED <<events, server, conflict, offered, draft, wire, bounds, made, dropped, shelved>>

DraftRead ==
    /\ tab = "reading" /\ tab' = "open" /\ offered' = draft
    /\ UNCHANGED <<events, server, doc, conflict, ctl, draft, wire, bounds, history>>

\* recoverLocalDraft(): the draft replaces the document and is saved at once
\* under its old idempotency key.
RecoverLocal ==
    /\ tab = "open" /\ offered # NoEntry /\ Saves
    /\ offered' = NoEntry /\ doc' = offered.body /\ dropped' = dropped \cup (doc \ offered.body)
    /\ LET s == [c EXCEPT !.accepted = Most(@, offered.gen)]
           t == Schedule(s, offered.body, offered.key, seen)
       IN  Replaced(Mounted, Now(t)) /\ draft' = t.queue
    /\ UNCHANGED <<events, server, tab, conflict, wire, made, seen, shelved>>

DismissDraft ==
    /\ tab = "open" /\ offered # NoEntry
    /\ offered' = NoEntry /\ draft' = Cleared(offered)
    /\ dropped' = dropped \cup (offered.body \ doc)
    /\ UNCHANGED <<events, server, tab, doc, conflict, ctl, wire, bounds, made, seen, shelved>>

\* "Keep Draft for Later" closes the dialog and nothing else.
DeferDraft ==
    /\ "defer" \in events /\ tab = "open" /\ offered # NoEntry /\ offered' = NoEntry
    /\ shelved' = shelved \cup offered.body
    /\ UNCHANGED <<events, server, tab, doc, conflict, ctl, draft, wire, bounds, made, seen, dropped>>

-----------------------------------------------------------------------------
(* Validated edited export *)

\* flushAndWait()
StartExport ==
    /\ "export" \in events /\ Usable /\ c.export = "none" /\ bounds.export < MaxExport
    /\ bounds' = [bounds EXCEPT !.export = @ + 1]
    /\ LET s == [c EXCEPT !.timer = FALSE, !.export = "wait"]
       IN  Replaced(Mounted, IF Idle(s) THEN Notified(s) ELSE Process(s))
    /\ UNCHANGED <<events, server, page, draft, wire, history>>

ReadFidelity ==
    /\ c.export = "begun"
    /\ Replaced(Mounted, [c EXCEPT !.export = "sent", !.exportGen = head.gen])
    /\ UNCHANGED <<events, server, page, draft, wire, bounds, history>>

\* endExport(): what was queued meanwhile expects the generation of the export.
EndExport(s) ==
    LET t == [s EXCEPT !.export = "none", !.exportGen = 0]
    IN  IF t.failed = NoEntry /\ t.queue # NoEntry /\ t.queue.epoch = t.epoch
        THEN [t EXCEPT !.queue = Rebased(@, t.accepted)] ELSE t

Resumed(s) == IF s.failed = NoEntry THEN Process(s) ELSE s

\* The export is published as the next generation, or it is refused.
ExportAnswered ==
    LET done == [EndExport([c EXCEPT !.accepted = Most(@, head'.gen)]) EXCEPT !.export = "none"]
        refused == EndExport(c)
        kept(s) == IF s.queue # c.queue THEN s.queue ELSE draft
    IN  /\ c.export = "sent"
        /\ \/ /\ c.exportGen = head.gen /\ head' = [head EXCEPT !.gen = @ + 1]
              /\ Replaced(Mounted, Resumed(done)) /\ draft' = kept(done)
           \/ /\ UNCHANGED head
              /\ Replaced(Mounted, Resumed(refused)) /\ draft' = kept(refused)
        /\ UNCHANGED <<events, results, silent, page, wire, bounds, history>>

-----------------------------------------------------------------------------
(* Steps the browser and the network take by themselves *)
Background(i) == DeliverSave(i) \/ DeliverFlush(i) \/ SaveAnswered(i) \/ FlushAnswered(i) \/ TimerFires(i)
Exports == ReadFidelity \/ ExportAnswered

User ==
    \/ \E e \in Edit : EditDoc(e)
    \/ ManualSave \/ RetrySave \/ CloseConflict \/ KeepLocal \/ UseRemote
    \/ SwitchRoute \/ Unmount \/ ClosePage \/ Open
    \/ RecoverLocal \/ DismissDraft \/ DeferDraft \/ StartExport

Next ==
    \/ User \/ LoadArrives \/ DraftRead \/ Exports
    \/ \E i \in DOMAIN ctl : Background(i)
    \/ \E p \in wire : DeliverLate(p)
    \/ \E r \in RemoteEdit : RemoteSave(r)

Spec == Init /\ [][Next]_vars

\* Timers fire, a request is answered or fails, promises are continued.
FairSpec ==
    /\ Spec /\ WF_vars(Exports)
    /\ \A i \in 1 .. MaxLeave + 1 : WF_vars(i \in DOMAIN ctl /\ Background(i))

-----------------------------------------------------------------------------
\* No edit is lost: until the user chooses to drop it, an edit is in the deck, in
\* the open editor or in the local draft (scheduleSave(), clearEditorDraft()).  A
\* draft kept for later is exempt: the next save of the deck replaces it.
Kept == head.body \cup dropped \cup (IF tab = "open" THEN doc ELSE {})
                  \cup (IF draft # NoEntry THEN draft.body ELSE {})
NoEditVanishes == made \ shelved \subseteq Kept

\* A save never drops what another client, or an earlier page, has saved unless
\* the user was shown it (savePackageProjection(), adoptGeneration(), rebased queue).
NoSilentOverwrite == silent = {}

\* A delayed, retried or handed over save never replaces a newer one of this
\* browser (CHANGELOG.md: "older saves cannot overwrite newer snapshots").
OlderNeverOverNewer ==
    [][\A r \in results' \ results : \A old \in results : old.n < r.n]_vars

\* "Saving..." never stays: every scheduled save of an editor that stays open is
\* saved, superseded or reported as failed.
SavingSettles ==
    (tab = "open" /\ c.status = "saving") ~> (tab # "open" \/ c.status # "saving")
=============================================================================

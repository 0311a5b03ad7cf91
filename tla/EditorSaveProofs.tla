----------------------------- MODULE EditorSaveProofs -----------------------------
(***************************************************************************)
(* For any number of edits, saves, losses, pages and other clients: a save *)
(* of the editor never drops what another client has saved without the     *)
(* user having been shown it, never replaces a newer save of the browser,  *)
(* and no edit the user made is ever lost.                                 *)
(***************************************************************************)
EXTENDS EditorSave, TLAPS

-----------------------------------------------------------------------------
(* What the server keeps, and what a controller may rely on.  The head h    *)
(* and the results rs are parameters: a step may change them.               *)

Controllers ==
    [queue : Entries \cup {NoEntry}, failed : Entries \cup {NoEntry},
     inflight : Puts \cup {NoEntry}, flushing : Puts \cup {NoEntry}, timer : BOOLEAN,
     accepted : Nat, attempt : Nat, epoch : Nat,
     export : {"none", "wait", "begun", "sent"}, exportGen : Nat,
     status : {"", "saving", "saved", "error"}]
HeadsOfDeck == [gen : Nat, body : Bodies]
Results == [n : Nat, key : Nat, from : Nat, body : Bodies, gen : Nat]

\* The results of saves: one for a key, the current one has the current body.
World(h, rs) ==
    /\ h \in HeadsOfDeck /\ rs \subseteq Results
    /\ \A r \in rs : r.from < r.gen /\ r.gen <= h.gen /\ (r.gen = h.gen => r.body = h.body)
    /\ \A r, q \in rs : r.key = q.key => r = q

\* What the user had seen when an entry was made, and what may become of the entry.
Knows(e) == e.body \cup e.seen
Safe(h, e) == e.gen <= h.gen /\ (e.gen = h.gen => h.body \subseteq Knows(e))
Replayed(h, rs, e) == \E r \in rs : r.key = e.key /\ SameRequest(r, e) /\ r.gen = h.gen
Hopes(h, rs, e) == e.gen = h.gen \/ Replayed(h, rs, e)

\* Whoever saves over the accepted generation knows its body, also when a save that
\* is still to be answered turns out to be the current one.
Informed(h, rs, s, K) ==
    /\ s.accepted = h.gen => h.body \subseteq K
    /\ s.failed # NoEntry /\ Hopes(h, rs, s.failed) => s.failed.body \subseteq K
    /\ s.inflight # NoEntry /\ s.inflight.e.epoch = s.epoch /\ Hopes(h, rs, s.inflight.e)
          => s.inflight.e.body \subseteq K

AnswerInv(h, rs, p) ==
    /\ p.at = "ok" => p.gen <= h.gen /\ (p.gen = h.gen => Replayed(h, rs, p.e))
    /\ p.at = "stale" => ~Hopes(h, rs, p.e)

QueueInv(h, rs, s) ==
    s.queue # NoEntry =>
        /\ Safe(h, s.queue) /\ Informed(h, rs, s, Knows(s.queue))
        /\ s.queue.epoch = s.epoch /\ s.queue.n <= s.attempt

PutsInv(h, rs, s) ==
    /\ s.failed # NoEntry => Safe(h, s.failed) /\ s.failed.epoch = s.epoch /\ s.failed.n <= s.attempt
    /\ s.inflight # NoEntry =>
          /\ Safe(h, s.inflight.e) /\ AnswerInv(h, rs, s.inflight)
          /\ s.inflight.e.n <= s.attempt /\ s.inflight.e.epoch <= s.epoch
          /\ s.inflight.e.epoch < s.epoch => s.inflight.e.n < s.attempt
    /\ s.flushing # NoEntry => s.inflight = NoEntry /\ Safe(h, s.flushing.e)

CtlInv(h, rs, s) ==
    s \in Controllers /\ s.accepted <= h.gen /\ QueueInv(h, rs, s) /\ PutsInv(h, rs, s)

\* The controller of the page: K is what the user has in the editor or has seen.
PageInv(h, rs, s, at, K) ==
    /\ at \in {"reading", "open"} => Informed(h, rs, s, K)
    /\ at # "open" => /\ s.queue = NoEntry /\ s.failed = NoEntry
                      /\ s.inflight # NoEntry => s.inflight.e.epoch < s.epoch
    /\ s.queue # NoEntry => Knows(s.queue) = K

\* A change of the controller or of the server that the page need not know of.
PageKept(h, rs, s, g, qs, t) ==
    \A at, K : PageInv(h, rs, s, at, K) => PageInv(g, qs, t, at, K)

\* While the conflict dialog is shown, what waits below it cannot be saved.
Stuck(h, rs, s) ==
    IF s.inflight # NoEntry
    THEN ~Hopes(h, rs, s.inflight.e) /\ s.inflight.at # "ok" /\ s.inflight.e.epoch = s.epoch
    ELSE s.failed # NoEntry /\ ~Hopes(h, rs, s.failed)

-----------------------------------------------------------------------------
(* The inductive invariant *)

SaveType ==
    /\ tab \in {"closed", "loading", "reading", "open"} /\ conflict \in BOOLEAN
    /\ doc \in Bodies /\ seen \in Bodies
    /\ draft \in Entries \cup {NoEntry} /\ offered \in Entries \cup {NoEntry}
    /\ ctl \in Seq(Controllers) /\ Len(ctl) > 0 /\ wire \subseteq Puts
    /\ events \in Workloads

CtlsInv == \A i \in DOMAIN ctl : CtlInv(head, results, ctl[i])
WireInv == \A p \in wire : Safe(head, p.e)
MountedInv ==
    /\ PageInv(head, results, c, tab, doc \cup seen)
    /\ tab = "reading" \/ offered # NoEntry => doc \subseteq seen
DraftInv ==
    /\ draft # NoEntry => draft.gen <= head.gen /\ (tab = "reading" => draft.gen <= c.accepted)
    /\ offered # NoEntry => tab = "open" /\ offered.gen <= c.accepted
ConflictInv == conflict => tab = "open" /\ Stuck(head, results, c)

\* An export changes the generation for nobody but the page that asked for it.
ExportInv ==
    IF "export" \in events
    THEN /\ Len(ctl) = 1 /\ wire = {} /\ tab = "open" /\ offered = NoEntry
         /\ c.flushing = NoEntry /\ c.epoch = 0 /\ head.body \subseteq doc \cup seen
    ELSE c.export = "none"

IInv ==
    /\ SaveType /\ World(head, results) /\ silent = {}
    /\ CtlsInv /\ WireInv /\ MountedInv /\ DraftInv /\ ConflictInv /\ ExportInv

\* Exports are not combined with other writers of the deck.
ExportsAlone ==
    \A w \in Workloads : "export" \in w => w \cap {"remote", "switch", "unmount", "close"} = {}

-----------------------------------------------------------------------------
(* The operators of the controller *)

\* What an operator leaves of a controller that moves its entries on.
Tame(s, t) ==
    /\ t.accepted = s.accepted /\ t.attempt = s.attempt /\ t.epoch = s.epoch
    /\ t.flushing = s.flushing /\ (s.export = "none" => t.export = "none")

\* Knowing more is enough.
LEMMA KnowsMore ==
    ASSUME NEW h, NEW rs, NEW s, NEW K, NEW L, Informed(h, rs, s, K), K \subseteq L
    PROVE  Informed(h, rs, s, L)
BY DEF Informed

\* notifyIdle()
LEMMA NotifiedIs ==
    ASSUME NEW s \in Controllers
    PROVE  LET t == Notified(s)
           IN  /\ t \in Controllers /\ Tame(s, t) /\ t.timer = s.timer
               /\ t.queue = s.queue /\ t.failed = s.failed /\ t.inflight = s.inflight
BY DEF Notified, Controllers, Tame

\* A controller with the same entries is as good.
LEMMA SameEntries ==
    ASSUME NEW h, NEW rs, NEW s, NEW t \in Controllers, CtlInv(h, rs, s), Tame(s, t),
           t.queue = s.queue, t.failed = s.failed, t.inflight = s.inflight
    PROVE  /\ CtlInv(h, rs, t)
           /\ PageKept(h, rs, s, h, rs, t)
           /\ Stuck(h, rs, s) => Stuck(h, rs, t)
BY DEF CtlInv, QueueInv, PutsInv, Informed, PageInv, PageKept, Tame, Stuck

\* A put of an entry.
LEMMA PutOfIs ==
    ASSUME NEW e \in Entries
    PROVE  /\ PutOf(e) \in Puts /\ PutOf(e) # NoEntry
           /\ PutOf(e).e = e /\ PutOf(e).at = "out"
<1>1. PutOf(e) \in Puts
  BY DEF PutOf, Puts
<1>2. PutOf(e).e = e /\ PutOf(e).at = "out"
  BY DEF PutOf
<1>. QED  BY <1>1, <1>2, NoEntryOK

\* processQueue()
LEMMA ProcessKeeps ==
    ASSUME NEW h, NEW rs, NEW s, CtlInv(h, rs, s)
    PROVE  LET t == Process(s)
           IN  /\ CtlInv(h, rs, t) /\ Tame(s, t)
               /\ PageKept(h, rs, s, h, rs, t)
               /\ Stuck(h, rs, s) => Stuck(h, rs, t)
<1>. DEFINE t == Process(s)
<1>0. s \in Controllers
  BY DEF CtlInv
<1>1. CASE Blocked(s)
  <2>1. t = s
    BY <1>1 DEF Process
  <2>. QED  BY <2>1, <1>0 DEF Tame, PageKept
<1>2. CASE ~Blocked(s) /\ s.failed # NoEntry
  <2>1. t = [s EXCEPT !.inflight = PutOf(s.failed), !.failed = NoEntry]
    BY <1>2 DEF Process
  <2>2. s.failed \in Entries /\ s.inflight = NoEntry /\ s.flushing = NoEntry
    BY <1>0, <1>2 DEF Controllers, Blocked
  <2>3. PICK q \in Puts : q = PutOf(s.failed) /\ q # NoEntry /\ q.e = s.failed /\ q.at = "out"
    BY <2>2, PutOfIs
  <2>4. t \in Controllers /\ Tame(s, t) /\ t.queue = s.queue /\ t.failed = NoEntry
        /\ t.inflight = q
    BY <2>1, <2>3, <1>0 DEF Controllers, Tame
  <2>5. \A K : Informed(h, rs, s, K) => Informed(h, rs, t, K)
    BY <2>2, <2>3, <2>4, <1>2 DEF Informed, Tame
  <2>6. PutsInv(h, rs, t)
    <3>1. Safe(h, q.e) /\ q.e.n <= t.attempt /\ q.e.epoch = t.epoch
      BY <2>3, <2>4, <1>2 DEF CtlInv, PutsInv, Tame
    <3>2. t.epoch \in Nat
      BY <2>4 DEF Controllers
    <3>3. AnswerInv(h, rs, q)
      BY <2>3 DEF AnswerInv
    <3>. QED  BY <2>2, <2>4, <3>1, <3>2, <3>3 DEF PutsInv, Tame
  <2>7. CtlInv(h, rs, t)
    BY <2>4, <2>5, <2>6 DEF CtlInv, QueueInv, Tame
  <2>8. PageKept(h, rs, s, h, rs, t)
    BY <2>4, <2>5, <1>2 DEF PageInv, PageKept
  <2>9. Stuck(h, rs, s) => Stuck(h, rs, t)
    BY <2>2, <2>3, <2>4, <1>2 DEF Stuck, CtlInv, PutsInv, Tame
  <2>. QED  BY <2>4, <2>7, <2>8, <2>9
<1>3. CASE ~Blocked(s) /\ s.failed = NoEntry /\ s.queue # NoEntry
  <2>1. t = [s EXCEPT !.inflight = PutOf(s.queue), !.queue = NoEntry]
    BY <1>3 DEF Process
  <2>2. s.queue \in Entries /\ s.inflight = NoEntry /\ s.flushing = NoEntry
    BY <1>0, <1>3 DEF Controllers, Blocked
  <2>3. PICK q \in Puts : q = PutOf(s.queue) /\ q # NoEntry /\ q.e = s.queue /\ q.at = "out"
    BY <2>2, PutOfIs
  <2>4. t \in Controllers /\ Tame(s, t) /\ t.queue = NoEntry /\ t.failed = NoEntry
        /\ t.inflight = q
    BY <2>1, <2>3, <1>0, <1>3 DEF Controllers, Tame
  <2>5. \A K : Informed(h, rs, s, K) /\ s.queue.body \subseteq K => Informed(h, rs, t, K)
    BY <2>2, <2>3, <2>4, <1>3 DEF Informed, Tame
  <2>6. PutsInv(h, rs, t)
    <3>1. Safe(h, q.e) /\ q.e.n <= t.attempt /\ q.e.epoch = t.epoch
      BY <2>3, <2>4, <1>3 DEF CtlInv, QueueInv, PutsInv, Tame
    <3>2. t.epoch \in Nat
      BY <2>4 DEF Controllers
    <3>3. AnswerInv(h, rs, q)
      BY <2>3 DEF AnswerInv
    <3>. QED  BY <2>2, <2>4, <3>1, <3>2, <3>3 DEF PutsInv, Tame
  <2>7. CtlInv(h, rs, t)
    BY <2>4, <2>6 DEF CtlInv, QueueInv, Tame
  <2>8. PageKept(h, rs, s, h, rs, t)
    BY <2>4, <2>5, <1>3 DEF PageInv, PageKept, Knows
  <2>. QED  BY <2>2, <2>4, <2>7, <2>8, <1>3 DEF Stuck
<1>4. CASE ~Blocked(s) /\ s.failed = NoEntry /\ s.queue = NoEntry
  <2>1. t = Notified(s)
    BY <1>4 DEF Process
  <2>. QED  BY <2>1, <1>0, NotifiedIs, SameEntries
<1>. QED  BY <1>1, <1>2, <1>3, <1>4

\* continueQueue(): what SaveAnswered and FlushAnswered end with.
LEMMA ContinueKeeps ==
    ASSUME NEW h, NEW rs, NEW s, CtlInv(h, rs, s), NEW go, NEW dialog
    PROVE  LET t == Continue(s, go, dialog)
           IN  /\ CtlInv(h, rs, t) /\ Tame(s, t)
               /\ PageKept(h, rs, s, h, rs, t)
               /\ Stuck(h, rs, s) => Stuck(h, rs, t)
<1>. DEFINE going == go /\ s.queue # NoEntry /\ s.queue.epoch = s.epoch /\ ~dialog
            u == IF going THEN Process(s) ELSE s
            t == Continue(s, go, dialog)
<1>1. t = Notified(u)
  BY DEF Continue
<1>2. /\ CtlInv(h, rs, u) /\ Tame(s, u)
      /\ PageKept(h, rs, s, h, rs, u)
      /\ Stuck(h, rs, s) => Stuck(h, rs, u)
  <2>1. CASE going
    BY <2>1, ProcessKeeps
  <2>2. CASE ~going
    <3>1. u = s
      BY <2>2
    <3>. QED  BY <3>1 DEF Tame, PageKept
  <2>. QED  BY <2>1, <2>2
<1>. HIDE DEF u
<1>3. u \in Controllers
  BY <1>2 DEF CtlInv
<1>4. /\ t \in Controllers /\ Tame(u, t)
      /\ t.queue = u.queue /\ t.failed = u.failed /\ t.inflight = u.inflight
  BY <1>1, <1>3, NotifiedIs
<1>5. Tame(s, t)
  BY <1>2, <1>4 DEF Tame
<1>6. /\ CtlInv(h, rs, t) /\ (Stuck(h, rs, u) => Stuck(h, rs, t))
      /\ PageKept(h, rs, u, h, rs, t)
  BY <1>2, <1>4, SameEntries
<1>. QED  BY <1>2, <1>5, <1>6 DEF PageKept

\* What the answer to a save leaves of a controller: it may accept more.
Grown(s, t) ==
    /\ t.accepted >= s.accepted /\ t.attempt = s.attempt /\ t.epoch = s.epoch
    /\ t.flushing = s.flushing /\ t.export = s.export /\ t.inflight = NoEntry

\* A replayed save is the body of the deck.
LEMMA ReplayedIsHead ==
    ASSUME NEW h, NEW rs, World(h, rs), NEW e, Replayed(h, rs, e)
    PROVE  h.body = e.body
BY DEF World, Replayed, SameRequest

\* persistEditorSave() with an answer that is a success
LEMMA AdoptKeeps ==
    ASSUME NEW h, NEW rs, World(h, rs), NEW s, CtlInv(h, rs, s),
           s.inflight # NoEntry, s.inflight.at = "ok"
    PROVE  LET t == [AdoptSaved(s, s.inflight) EXCEPT !.inflight = NoEntry]
           IN  /\ CtlInv(h, rs, t) /\ Grown(s, t)
               /\ PageKept(h, rs, s, h, rs, t)
<1>. DEFINE p == s.inflight
            gen == Most(s.accepted, p.gen)
            t == [AdoptSaved(s, p) EXCEPT !.inflight = NoEntry]
<1>1. s \in Controllers /\ s.accepted \in Nat /\ p \in Puts /\ p.gen \in Nat /\ h.gen \in Nat
      /\ p.e \in Entries /\ s.queue \in Entries \cup {NoEntry}
  BY DEF CtlInv, Controllers, Puts, World, HeadsOfDeck
<1>2. PutsInv(h, rs, s) /\ QueueInv(h, rs, s) /\ s.accepted <= h.gen /\ s.flushing = NoEntry
  BY DEF CtlInv, PutsInv
<1>3. gen \in Nat /\ gen >= s.accepted /\ gen <= h.gen /\ gen \in {s.accepted, p.gen}
  BY <1>1, <1>2 DEF Most, PutsInv, AnswerInv
<1>4. CASE ~Heeded(s, p.e)
  <2>1. t = [s EXCEPT !.inflight = NoEntry]
    BY <1>4 DEF AdoptSaved
  <2>2. /\ t \in Controllers /\ t.accepted = s.accepted /\ t.queue = s.queue /\ t.failed = s.failed
        /\ t.inflight = NoEntry /\ t.attempt = s.attempt /\ t.epoch = s.epoch
        /\ t.flushing = s.flushing /\ t.export = s.export
    BY <1>1, <2>1 DEF Controllers
  <2>3. \A K : Informed(h, rs, s, K) => Informed(h, rs, t, K)
    BY <2>2 DEF Informed
  <2>4. Grown(s, t)
    BY <1>1, <2>2 DEF Grown
  <2>. QED  BY <1>2, <2>2, <2>3, <2>4 DEF CtlInv, QueueInv, PutsInv, PageInv, PageKept
<1>5. CASE Heeded(s, p.e)
  <2>. DEFINE q == IF Successor(s, p.e) THEN Rebased(s.queue, gen) ELSE s.queue
              done == IF p.e.n = s.attempt THEN "saved" ELSE s.status
  <2>1. t = [s EXCEPT !.accepted = gen, !.queue = q, !.status = done, !.inflight = NoEntry]
    <3>1. AdoptSaved(s, p) = [s EXCEPT !.accepted = gen, !.queue = q, !.status = done]
      BY <1>5 DEF AdoptSaved
    <3>. HIDE DEF q, gen, done
    <3>. QED  BY <1>1, <3>1 DEF Controllers
  <2>2. p.e.epoch = s.epoch
    <3>1. p.e.epoch \in Nat /\ s.epoch \in Nat /\ p.e.n \in Nat /\ s.attempt \in Nat
      BY <1>1 DEF Entries, Controllers
    <3>. QED  BY <1>2, <1>5, <3>1 DEF Heeded, Successor, QueueInv, PutsInv
  <2>3. ASSUME s.queue # NoEntry
        PROVE  /\ q \in Entries /\ q.body = s.queue.body /\ q.seen = s.queue.seen
               /\ q.epoch = s.queue.epoch /\ q.n = s.queue.n
               /\ q.gen \in {s.queue.gen, gen}
    BY <1>1, <1>3, <2>3 DEF Entries, Most, Rebased
  <2>4. s.queue = NoEntry => q = NoEntry
    BY DEF Successor
  <2>5. q \in Entries \cup {NoEntry} /\ done \in {"", "saving", "saved", "error"}
        /\ (q = NoEntry <=> s.queue = NoEntry)
    BY <1>1, <2>3, <2>4, NoEntryOK DEF Controllers
  <2>. HIDE DEF q, done, gen
  <2>6. /\ t \in Controllers /\ t.accepted = gen /\ t.queue = q /\ t.failed = s.failed
        /\ t.inflight = NoEntry /\ t.attempt = s.attempt /\ t.epoch = s.epoch
        /\ t.flushing = s.flushing /\ t.export = s.export
    BY <1>1, <1>3, <2>1, <2>5 DEF Controllers
  <2>7. ASSUME NEW K, Informed(h, rs, s, K)
        PROVE  Informed(h, rs, t, K) /\ (gen = h.gen => h.body \subseteq K)
    <3>1. gen = h.gen => h.body \subseteq K
      <4>1. CASE gen = s.accepted
        BY <4>1, <2>7 DEF Informed
      <4>2. CASE gen = p.gen /\ gen = h.gen
        <5>1. Replayed(h, rs, p.e)
          BY <1>2, <4>2 DEF PutsInv, AnswerInv
        <5>2. p.e.body \subseteq K
          BY <2>2, <2>7, <5>1 DEF Informed, Hopes
        <5>. QED  BY <5>1, <5>2, ReplayedIsHead
      <4>. QED  BY <1>3, <4>1, <4>2
    <3>. QED  BY <2>6, <2>7, <3>1 DEF Informed
  <2>8. QueueInv(h, rs, t)
    <3>. SUFFICES ASSUME s.queue # NoEntry
                  PROVE  /\ Safe(h, q) /\ Informed(h, rs, t, Knows(q))
                         /\ q.epoch = t.epoch /\ q.n <= t.attempt
      BY <2>5, <2>6 DEF QueueInv
    <3>1. Knows(q) = Knows(s.queue) /\ Informed(h, rs, s, Knows(s.queue)) /\ Safe(h, s.queue)
      BY <1>2, <2>3 DEF QueueInv, Knows
    <3>2. Informed(h, rs, t, Knows(q)) /\ (gen = h.gen => h.body \subseteq Knows(q))
      BY <2>7, <3>1
    <3>3. Safe(h, q)
      BY <1>3, <2>3, <3>1, <3>2 DEF Safe
    <3>. QED  BY <1>2, <2>3, <2>6, <3>2, <3>3 DEF QueueInv
  <2>9. CtlInv(h, rs, t)
    BY <1>2, <1>3, <2>6, <2>8 DEF CtlInv, PutsInv
  <2>10. Grown(s, t)
    BY <1>3, <2>6 DEF Grown
  <2>11. PageKept(h, rs, s, h, rs, t)
    BY <2>3, <2>5, <2>6, <2>7 DEF PageInv, PageKept, Knows
  <2>. QED  BY <2>9, <2>10, <2>11
<1>. QED  BY <1>4, <1>5

\* persistEditorSave() with any other answer
LEMMA FailedKeeps ==
    ASSUME NEW h, NEW rs, NEW s, CtlInv(h, rs, s), s.inflight # NoEntry, NEW mounted
    PROVE  LET t == [KeepFailed(s, s.inflight, mounted) EXCEPT !.inflight = NoEntry]
           IN  /\ CtlInv(h, rs, t) /\ Grown(s, t)
               /\ PageKept(h, rs, s, h, rs, t)
               /\ s.inflight.e.epoch = s.epoch /\ ~Hopes(h, rs, s.inflight.e) => Stuck(h, rs, t)
<1>. DEFINE p == s.inflight
            kept == IF p.e.epoch = s.epoch THEN p.e ELSE s.failed
            now == IF mounted /\ Heeded(s, p.e) THEN "error" ELSE s.status
            t == [KeepFailed(s, p, mounted) EXCEPT !.inflight = NoEntry]
<1>1. s \in Controllers /\ p \in Puts /\ p.e \in Entries /\ s.accepted \in Nat
  BY DEF CtlInv, Controllers, Puts
<1>2. t = [s EXCEPT !.status = now, !.failed = kept, !.inflight = NoEntry]
  BY <1>1 DEF KeepFailed, Controllers
<1>3. kept \in Entries \cup {NoEntry} /\ now \in {"", "saving", "saved", "error"}
  BY <1>1 DEF Controllers
<1>4. kept = s.failed \/ (kept = p.e /\ p.e.epoch = s.epoch /\ kept # NoEntry)
  BY <1>1, NoEntryOK
<1>5. p.e.epoch = s.epoch => kept = p.e
  OBVIOUS
<1>. HIDE DEF kept, now
<1>6. /\ t \in Controllers /\ t.accepted = s.accepted /\ t.queue = s.queue /\ t.failed = kept
      /\ t.inflight = NoEntry /\ t.attempt = s.attempt /\ t.epoch = s.epoch
      /\ t.flushing = s.flushing /\ t.export = s.export
  BY <1>1, <1>2, <1>3 DEF Controllers
<1>7. \A K : Informed(h, rs, s, K) => Informed(h, rs, t, K)
  BY <1>4, <1>6 DEF Informed
<1>8. CtlInv(h, rs, t)
  BY <1>4, <1>6, <1>7 DEF CtlInv, QueueInv, PutsInv
<1>9. Grown(s, t)
  BY <1>1, <1>6 DEF Grown
<1>10. ASSUME NEW at, NEW K, PageInv(h, rs, s, at, K) PROVE PageInv(h, rs, t, at, K)
  <2>1. s.epoch \in Nat /\ p.e.epoch \in Nat
    BY <1>1 DEF Controllers, Entries
  <2>. QED  BY <1>4, <1>6, <1>7, <1>10, <2>1 DEF PageInv, PageKept
<1>11. p.e.epoch = s.epoch /\ ~Hopes(h, rs, p.e) => Stuck(h, rs, t)
  BY <1>1, <1>5, <1>6, NoEntryOK DEF Stuck
<1>. QED  BY <1>8, <1>9, <1>10, <1>11 DEF PageKept

\* scheduleSave(): the new entry knows what the user has in the editor or has seen.
LEMMA ScheduleKeeps ==
    ASSUME NEW h \in HeadsOfDeck, NEW rs, NEW s \in Controllers, s.accepted <= h.gen,
           PutsInv(h, rs, s), NEW K, Informed(h, rs, s, K),
           NEW body \in Bodies, NEW view \in Bodies, NEW key \in Nat, K \subseteq body \cup view
    PROVE  LET t == Schedule(s, body, key, view)
           IN  /\ CtlInv(h, rs, t) /\ PageInv(h, rs, t, "open", body \cup view)
               /\ t.accepted = s.accepted /\ t.epoch = s.epoch /\ t.flushing = s.flushing
               /\ t.export = s.export /\ t.queue \in Entries /\ t.queue.gen = s.accepted
               /\ Stuck(h, rs, s) => Stuck(h, rs, t)
<1>. DEFINE e == [n |-> s.attempt + 1, key |-> key, gen |-> s.accepted, body |-> body,
                  epoch |-> s.epoch, seen |-> view]
            t == Schedule(s, body, key, view)
<1>1. s.attempt \in Nat /\ s.accepted \in Nat /\ s.epoch \in Nat
  BY DEF Controllers
<1>2. /\ e \in Entries /\ Knows(e) = body \cup view /\ e.gen = s.accepted
      /\ e.epoch = s.epoch /\ e.n = s.attempt + 1
  BY <1>1 DEF Entries, Knows
<1>3. t = [s EXCEPT !.queue = e, !.attempt = @ + 1, !.timer = FALSE, !.status = "saving"]
  BY DEF Schedule
<1>. HIDE DEF e
<1>4. /\ t \in Controllers /\ t.queue = e /\ t.attempt = s.attempt + 1 /\ t.accepted = s.accepted
      /\ t.epoch = s.epoch /\ t.flushing = s.flushing /\ t.export = s.export
      /\ t.failed = s.failed /\ t.inflight = s.inflight
  <2>1. "saving" \in {"", "saving", "saved", "error"} /\ s.attempt + 1 \in Nat
        /\ e \in Entries \cup {NoEntry}
    BY <1>1, <1>2
  <2>2. t = [s EXCEPT !.queue = e, !.attempt = s.attempt + 1, !.timer = FALSE, !.status = "saving"]
    BY <1>1, <1>3 DEF Controllers
  <2>. QED  BY <2>1, <2>2 DEF Controllers
<1>5. Informed(h, rs, t, body \cup view)
  <2>1. Informed(h, rs, t, K)
    BY <1>4 DEF Informed
  <2>. QED  BY <2>1, KnowsMore
<1>6. PutsInv(h, rs, t)
  <2>1. s.failed # NoEntry => s.failed.n \in Nat
    BY DEF Controllers, Entries
  <2>2. s.inflight # NoEntry => s.inflight.e.n \in Nat
    BY DEF Controllers, Entries, Puts
  <2>. QED  BY <1>1, <1>4, <2>1, <2>2 DEF PutsInv
<1>7. QueueInv(h, rs, t)
  <2>1. Safe(h, e)
    BY <1>2, <1>5, <1>4 DEF Safe, Informed
  <2>2. Informed(h, rs, t, Knows(e))
    BY <1>2, <1>5
  <2>3. e.epoch = t.epoch /\ e.n <= t.attempt
    BY <1>1, <1>2, <1>4
  <2>. QED  BY <1>4, <2>1, <2>2, <2>3 DEF QueueInv
<1>8. PageInv(h, rs, t, "open", body \cup view)
  BY <1>2, <1>4, <1>5 DEF PageInv, PageKept
<1>9. Stuck(h, rs, s) => Stuck(h, rs, t)
  BY <1>4 DEF Stuck
<1>. QED  BY <1>2, <1>4, <1>6, <1>7, <1>8, <1>9 DEF CtlInv

\* The timer, and sending at once unless an export goes on
LEMMA LaterKeeps ==
    ASSUME NEW h, NEW rs, NEW s, CtlInv(h, rs, s), NEW b \in BOOLEAN
    PROVE  LET t == [s EXCEPT !.timer = b]
           IN  /\ CtlInv(h, rs, t) /\ Tame(s, t)
               /\ PageKept(h, rs, s, h, rs, t)
               /\ Stuck(h, rs, s) => Stuck(h, rs, t)
<1>. DEFINE t == [s EXCEPT !.timer = b]
<1>1. s \in Controllers
  BY DEF CtlInv
<1>2. t \in Controllers /\ Tame(s, t) /\ t.queue = s.queue /\ t.failed = s.failed
      /\ t.inflight = s.inflight
  BY <1>1 DEF Controllers, Tame
<1>. QED  BY <1>2, SameEntries

LEMMA NowKeeps ==
    ASSUME NEW h, NEW rs, NEW s, CtlInv(h, rs, s)
    PROVE  LET t == Now(s)
           IN  /\ CtlInv(h, rs, t) /\ Tame(s, t)
               /\ PageKept(h, rs, s, h, rs, t)
               /\ Stuck(h, rs, s) => Stuck(h, rs, t)
<1>1. CASE Exporting(s)
  BY <1>1 DEF Now, Tame, PageKept
<1>2. CASE ~Exporting(s)
  <2>1. Now(s) = Process(s)
    BY <1>2 DEF Now
  <2>. QED  BY <2>1, ProcessKeeps
<1>. QED  BY <1>1, <1>2

\* flush()
LEMMA FlushedKeeps ==
    ASSUME NEW h, NEW rs, NEW s, CtlInv(h, rs, s)
    PROVE  LET t == Flushed(s)
           IN  /\ CtlInv(h, rs, t) /\ t.accepted = s.accepted /\ t.attempt = s.attempt
               /\ t.epoch = s.epoch /\ t.inflight = s.inflight /\ t.export = s.export
<1>. DEFINE t == Flushed(s)
            e == FlushEntry(s)
<1>1. s \in Controllers /\ QueueInv(h, rs, s) /\ PutsInv(h, rs, s) /\ s.accepted <= h.gen
  BY DEF CtlInv
<1>2. CASE Blocked(s)
  BY <1>2 DEF Flushed
<1>3. CASE ~Blocked(s) /\ (~CanFlush(s) \/ Oversize(e))
  <2>1. t = [s EXCEPT !.timer = FALSE]
    BY <1>3 DEF Flushed
  <2>2. CtlInv(h, rs, t) /\ Tame(s, t)
    <3>. DEFINE no == FALSE
    <3>1. no \in BOOLEAN /\ t = [s EXCEPT !.timer = no]
      BY <2>1
    <3>. HIDE DEF no
    <3>. QED  BY <3>1, LaterKeeps
  <2>3. t.inflight = s.inflight /\ t.export = s.export
    BY <1>1, <2>1 DEF Controllers
  <2>. QED  BY <2>2, <2>3 DEF Tame
<1>4. CASE ~Blocked(s) /\ CanFlush(s) /\ ~Oversize(e)
  <2>. DEFINE left == IF s.queue = NoEntry THEN NoEntry ELSE s.failed
  <2>1. e \in Entries /\ Safe(h, e) /\ s.inflight = NoEntry /\ e \in {s.queue, s.failed}
    BY <1>1, <1>4 DEF CanFlush, FlushEntry, Blocked, QueueInv, PutsInv, Controllers
  <2>2. PICK q \in Puts : q = PutOf(e) /\ q # NoEntry /\ q.e = e
    BY <2>1, PutOfIs
  <2>3. t = [s EXCEPT !.timer = FALSE, !.flushing = q, !.queue = NoEntry, !.failed = left]
    BY <1>4, <2>2 DEF Flushed
  <2>4. left \in {NoEntry, s.failed} /\ left \in Entries \cup {NoEntry}
    BY <1>1 DEF Controllers
  <2>. HIDE DEF left
  <2>5. /\ t \in Controllers /\ t.accepted = s.accepted /\ t.attempt = s.attempt
        /\ t.epoch = s.epoch /\ t.inflight = s.inflight /\ t.export = s.export
        /\ t.queue = NoEntry /\ t.failed = left /\ t.flushing = q
    BY <1>1, <2>3, <2>4 DEF Controllers
  <2>6. PutsInv(h, rs, t)
    BY <1>1, <2>1, <2>2, <2>4, <2>5 DEF PutsInv
  <2>. QED  BY <1>1, <2>5, <2>6 DEF CtlInv, QueueInv
<1>. QED  BY <1>2, <1>3, <1>4

\* endExport(): what is queued is raised to the accepted generation
LEMMA EndExportKeeps ==
    ASSUME NEW h, NEW rs, NEW s, CtlInv(h, rs, s)
    PROVE  LET t == EndExport(s)
           IN  /\ CtlInv(h, rs, t) /\ t.accepted = s.accepted /\ t.attempt = s.attempt
               /\ t.epoch = s.epoch /\ t.inflight = s.inflight /\ t.flushing = s.flushing
               /\ t.failed = s.failed /\ t.export = "none"
               /\ PageKept(h, rs, s, h, rs, t)
<1>. DEFINE t == EndExport(s)
            q == IF s.failed = NoEntry /\ s.queue # NoEntry /\ s.queue.epoch = s.epoch
                 THEN Rebased(s.queue, s.accepted) ELSE s.queue
<1>1. s \in Controllers /\ QueueInv(h, rs, s) /\ PutsInv(h, rs, s) /\ s.accepted <= h.gen
      /\ s.accepted \in Nat
  BY DEF CtlInv, Controllers
<1>2. t = [s EXCEPT !.export = "none", !.exportGen = 0, !.queue = q]
  <2>. DEFINE u == [s EXCEPT !.export = "none", !.exportGen = 0]
  <2>1. /\ u \in Controllers /\ u.failed = s.failed /\ u.queue = s.queue /\ u.epoch = s.epoch
        /\ u.accepted = s.accepted
    BY <1>1 DEF Controllers
  <2>2. t = IF s.failed = NoEntry /\ s.queue # NoEntry /\ s.queue.epoch = s.epoch
            THEN [u EXCEPT !.queue = q] ELSE u
    <3>1. CASE s.failed = NoEntry /\ s.queue # NoEntry /\ s.queue.epoch = s.epoch
      BY <2>1, <3>1 DEF EndExport
    <3>2. CASE ~(s.failed = NoEntry /\ s.queue # NoEntry /\ s.queue.epoch = s.epoch)
      BY <2>1, <3>2 DEF EndExport
    <3>. QED  BY <3>1, <3>2
  <2>3. u = [u EXCEPT !.queue = s.queue]
    BY <2>1 DEF Controllers
  <2>4. t = [u EXCEPT !.queue = q]
    BY <2>2, <2>3
  <2>. QED  BY <2>4
<1>3. ASSUME s.queue # NoEntry
      PROVE  /\ q \in Entries /\ Knows(q) = Knows(s.queue)
             /\ q.epoch = s.queue.epoch /\ q.n = s.queue.n /\ q.gen \in {s.queue.gen, s.accepted}
  BY <1>1, <1>3 DEF Entries, Most, Rebased, Knows, Controllers
<1>4. q \in Entries \cup {NoEntry} /\ (q = NoEntry <=> s.queue = NoEntry)
  BY <1>3, NoEntryOK
<1>. HIDE DEF q
<1>5. /\ t \in Controllers /\ t.accepted = s.accepted /\ t.attempt = s.attempt
      /\ t.epoch = s.epoch /\ t.inflight = s.inflight /\ t.flushing = s.flushing
      /\ t.failed = s.failed /\ t.export = "none" /\ t.queue = q
  <2>1. "none" \in {"none", "wait", "begun", "sent"} /\ 0 \in Nat
    OBVIOUS
  <2>. QED  BY <1>1, <1>2, <1>4, <2>1 DEF Controllers
<1>6. \A K : Informed(h, rs, s, K) => Informed(h, rs, t, K)
  BY <1>5 DEF Informed
<1>7. QueueInv(h, rs, t)
  <2>. SUFFICES ASSUME s.queue # NoEntry
                PROVE  /\ Safe(h, q) /\ Informed(h, rs, t, Knows(q))
                       /\ q.epoch = t.epoch /\ q.n <= t.attempt
    BY <1>4, <1>5 DEF QueueInv
  <2>1. Safe(h, q)
    BY <1>1, <1>3 DEF QueueInv, Safe, Informed
  <2>. QED  BY <1>1, <1>3, <1>5, <1>6, <2>1 DEF QueueInv
<1>8. CtlInv(h, rs, t)
  BY <1>1, <1>5, <1>7 DEF CtlInv, PutsInv
<1>9. PageKept(h, rs, s, h, rs, t)
  BY <1>3, <1>4, <1>5, <1>6 DEF PageInv, PageKept
<1>. QED  BY <1>5, <1>8, <1>9

-----------------------------------------------------------------------------
(* The server *)

\* A step that publishes a generation: a save, another client or an export.
Advances(h, rs, g, qs) ==
    /\ g \in HeadsOfDeck /\ g.gen = h.gen + 1
    /\ \/ qs = rs
       \/ \E e \in Entries :
             /\ e.gen = h.gen /\ g.body = e.body /\ \A r \in rs : r.key # e.key
             /\ qs = rs \cup {[n |-> e.n, key |-> e.key, from |-> e.gen, body |-> e.body, gen |-> g.gen]}

Onward(h, rs, g, qs) == (g = h /\ qs = rs) \/ Advances(h, rs, g, qs)

\* What is new in the results.
LEMMA NewResult ==
    ASSUME NEW h, NEW rs, World(h, rs), NEW g, NEW qs, Advances(h, rs, g, qs),
           NEW r \in qs, r \notin rs
    PROVE  /\ r \in Results /\ r.from = h.gen /\ r.gen = g.gen /\ r.body = g.body
           /\ \A q \in rs : q.key # r.key
           /\ \A q \in qs \ rs : q = r
<1>1. PICK e \in Entries :
         /\ e.gen = h.gen /\ g.body = e.body /\ \A q \in rs : q.key # e.key
         /\ qs = rs \cup {[n |-> e.n, key |-> e.key, from |-> e.gen, body |-> e.body, gen |-> g.gen]}
  BY DEF Advances
<1>2. g.gen \in Nat
  BY DEF Advances, HeadsOfDeck
<1>. DEFINE new == [n |-> e.n, key |-> e.key, from |-> e.gen, body |-> e.body, gen |-> g.gen]
<1>3. new \in Results /\ new.from = e.gen /\ new.gen = g.gen /\ new.body = e.body /\ new.key = e.key
  BY <1>2 DEF Results, Entries
<1>4. r = new /\ \A q \in qs \ rs : q = new
  BY <1>1
<1>. HIDE DEF new
<1>. QED  BY <1>1, <1>3, <1>4

LEMMA WorldMoves ==
    ASSUME NEW h, NEW rs, World(h, rs), NEW g, NEW qs, Advances(h, rs, g, qs)
    PROVE  World(g, qs)
<1>1. g \in HeadsOfDeck /\ h.gen \in Nat /\ g.gen = h.gen + 1 /\ rs \subseteq qs
  BY DEF Advances, World, HeadsOfDeck
<1>2. ASSUME NEW r \in qs
      PROVE  r \in Results /\ r.from < r.gen /\ r.gen <= g.gen /\ (r.gen = g.gen => r.body = g.body)
  <2>1. CASE r \in rs
    <3>1. r.gen \in Nat /\ r.gen <= h.gen
      BY <2>1 DEF World, Results
    <3>. QED  BY <1>1, <2>1, <3>1 DEF World
  <2>2. CASE r \notin rs
    BY <1>1, <1>2, <2>2, NewResult
  <2>. QED  BY <2>1, <2>2
<1>3. ASSUME NEW r \in qs, NEW q \in qs, r.key = q.key PROVE r = q
  <2>1. CASE r \in rs /\ q \in rs
    BY <2>1, <1>3 DEF World
  <2>2. CASE r \notin rs
    BY <2>2, <1>3, NewResult
  <2>3. CASE q \notin rs
    BY <2>3, <1>3, NewResult
  <2>. QED  BY <2>1, <2>2, <2>3
<1>4. qs \subseteq Results
  BY <1>2
<1>. QED  BY <1>1, <1>2, <1>3, <1>4 DEF World

\* No entry gains hope when the head moves on, and none becomes unsafe.
LEMMA HopeFades ==
    ASSUME NEW h, NEW rs, World(h, rs), NEW g, NEW qs, Advances(h, rs, g, qs),
           NEW e \in Entries, Safe(h, e)
    PROVE  Safe(g, e) /\ e.gen < g.gen /\ (Hopes(g, qs, e) => Hopes(h, rs, e))
<1>1. h.gen \in Nat /\ g.gen = h.gen + 1 /\ e.gen \in Nat /\ e.gen <= h.gen
  BY DEF Advances, World, HeadsOfDeck, Safe, Entries
<1>2. Safe(g, e) /\ e.gen < g.gen
  BY <1>1 DEF Safe
<1>3. ASSUME Replayed(g, qs, e) PROVE e.gen = h.gen
  <2>1. PICK r \in qs : SameRequest(r, e) /\ r.gen = g.gen
    BY <1>3 DEF Replayed
  <2>2. r \notin rs
    BY <1>1, <2>1 DEF World
  <2>. QED  BY <2>1, <2>2, NewResult DEF SameRequest
<1>. QED  BY <1>1, <1>2, <1>3 DEF Hopes

LEMMA CtlMoves ==
    ASSUME NEW h, NEW rs, World(h, rs), NEW g, NEW qs, Onward(h, rs, g, qs),
           NEW s, CtlInv(h, rs, s)
    PROVE  /\ CtlInv(g, qs, s)
           /\ PageKept(h, rs, s, g, qs, s)
           /\ Stuck(h, rs, s) => Stuck(g, qs, s)
<1>1. CASE g = h /\ qs = rs
  BY <1>1 DEF PageKept
<1>2. CASE Advances(h, rs, g, qs)
  <2>1. /\ s \in Controllers /\ s.accepted \in Nat /\ s.accepted <= h.gen
        /\ QueueInv(h, rs, s) /\ PutsInv(h, rs, s)
        /\ h.gen \in Nat /\ g.gen = h.gen + 1
    BY <1>2 DEF CtlInv, Controllers, Advances, World, HeadsOfDeck
  <2>2. ASSUME s.queue # NoEntry PROVE Safe(g, s.queue)
    <3>1. s.queue \in Entries /\ Safe(h, s.queue)
      BY <2>1, <2>2 DEF Controllers, QueueInv
    <3>. QED  BY <1>2, <3>1, HopeFades
  <2>3. ASSUME s.failed # NoEntry
        PROVE  Safe(g, s.failed) /\ (Hopes(g, qs, s.failed) => Hopes(h, rs, s.failed))
    <3>1. s.failed \in Entries /\ Safe(h, s.failed)
      BY <2>1, <2>3 DEF Controllers, PutsInv
    <3>. QED  BY <1>2, <3>1, HopeFades
  <2>4. ASSUME s.inflight # NoEntry
        PROVE  /\ Safe(g, s.inflight.e)
               /\ Hopes(g, qs, s.inflight.e) => Hopes(h, rs, s.inflight.e)
               /\ AnswerInv(g, qs, s.inflight)
    <3>1. s.inflight \in Puts /\ s.inflight.e \in Entries /\ Safe(h, s.inflight.e)
          /\ AnswerInv(h, rs, s.inflight) /\ s.inflight.gen \in Nat
      BY <2>1, <2>4 DEF Controllers, PutsInv, Puts
    <3>2. Safe(g, s.inflight.e) /\ (Hopes(g, qs, s.inflight.e) => Hopes(h, rs, s.inflight.e))
      BY <1>2, <3>1, HopeFades
    <3>. QED  BY <2>1, <3>1, <3>2 DEF AnswerInv
  <2>5. ASSUME s.flushing # NoEntry PROVE Safe(g, s.flushing.e)
    <3>1. s.flushing.e \in Entries /\ Safe(h, s.flushing.e)
      BY <2>1, <2>5 DEF Controllers, PutsInv, Puts
    <3>. QED  BY <1>2, <3>1, HopeFades
  <2>6. \A K : Informed(h, rs, s, K) => Informed(g, qs, s, K)
    BY <2>1, <2>3, <2>4 DEF Informed
  <2>7. QueueInv(g, qs, s)
    BY <2>1, <2>2, <2>6 DEF QueueInv
  <2>8. PutsInv(g, qs, s)
    BY <2>1, <2>3, <2>4, <2>5 DEF PutsInv
  <2>9. CtlInv(g, qs, s)
    BY <2>1, <2>7, <2>8 DEF CtlInv
  <2>10. PageKept(h, rs, s, g, qs, s)
    BY <2>6 DEF PageInv, PageKept
  <2>11. Stuck(h, rs, s) => Stuck(g, qs, s)
    BY <2>3, <2>4 DEF Stuck
  <2>. QED  BY <2>9, <2>10, <2>11
<1>. QED  BY <1>1, <1>2 DEF Onward

\* A verdict of success is one for the current generation.
LEMMA VerdictIs ==
    ASSUME World(head, results), NEW e \in Entries
    PROVE  /\ Verdict(e) \in {"ok", "stale", "keyed"}
           /\ Verdict(e) = "ok" => Hopes(head, results, e)
           /\ Verdict(e) = "ok" /\ ~Commits(e) => Replayed(head, results, e)
           /\ Verdict(e) = "stale" => ~Hopes(head, results, e)
           /\ Commits(e) => e.gen = head.gen /\ \A r \in results : r.key # e.key
<1>1. CASE \E r \in results : r.key = e.key
  <2>. DEFINE r == CHOOSE r \in results : r.key = e.key
  <2>1. r \in results /\ r.key = e.key
    BY <1>1
  <2>2. Verdict(e) = IF ~SameRequest(r, e) THEN "keyed" ELSE IF r.gen = head.gen THEN "ok" ELSE "stale"
    BY <1>1 DEF Verdict
  <2>. HIDE DEF r
  <2>3. \A q \in results : q.key = e.key => q = r
    BY <2>1 DEF World
  <2>4. r.from < r.gen /\ r.gen <= head.gen /\ r.from \in Nat /\ r.gen \in Nat /\ head.gen \in Nat
    BY <2>1 DEF World, Results, HeadsOfDeck
  <2>5. ~Commits(e)
    BY <2>1 DEF Commits
  <2>6. Verdict(e) = "ok" => Replayed(head, results, e)
    BY <2>1, <2>2 DEF Replayed
  <2>7. Verdict(e) = "stale" => ~Hopes(head, results, e)
    BY <2>2, <2>3, <2>4 DEF Hopes, Replayed, SameRequest
  <2>. QED  BY <2>2, <2>5, <2>6, <2>7 DEF Hopes
<1>2. CASE ~\E r \in results : r.key = e.key
  <2>1. Verdict(e) = IF e.gen = head.gen THEN "ok" ELSE "stale"
    BY <1>2 DEF Verdict
  <2>. QED  BY <1>2, <2>1 DEF Commits, Hopes, Replayed
<1>. QED  BY <1>1, <1>2

\* savePackageProjection(): a safe entry overwrites nothing unseen.
LEMMA ServeMoves ==
    ASSUME World(head, results), silent = {}, NEW e \in Entries, Safe(head, e),
           Serve(e) \/ UNCHANGED server
    PROVE  /\ Onward(head, results, head', results') /\ World(head', results') /\ silent' = {}
           /\ head'.gen >= head.gen
           /\ head' # head => head'.body = e.body /\ e.gen = head.gen
           /\ Serve(e) /\ Commits(e) => Replayed(head', results', e) /\ head'.gen = head.gen + 1
           /\ ~Commits(e) => head' = head /\ results' = results
<1>0. head.gen \in Nat /\ e.body \in Bodies
  BY DEF World, HeadsOfDeck, Entries
<1>1. CASE Serve(e) /\ Commits(e)
  <2>. DEFINE new == [n |-> e.n, key |-> e.key, from |-> e.gen, body |-> e.body, gen |-> head.gen + 1]
  <2>1. /\ head' = [gen |-> head.gen + 1, body |-> e.body] /\ results' = results \cup {new}
        /\ silent' = silent \cup (head.body \ (e.body \cup e.seen))
    BY <1>1 DEF Serve
  <2>2. e.gen = head.gen /\ \A r \in results : r.key # e.key
    BY <1>1, VerdictIs
  <2>3. head' \in HeadsOfDeck /\ head'.gen = head.gen + 1 /\ head'.body = e.body
    BY <1>0, <2>1 DEF HeadsOfDeck
  <2>4. Advances(head, results, head', results')
    BY <2>1, <2>2, <2>3 DEF Advances
  <2>5. Replayed(head', results', e)
    <3>1. new \in results' /\ new.key = e.key /\ new.gen = head'.gen /\ SameRequest(new, e)
      BY <2>1, <2>3 DEF SameRequest
    <3>. HIDE DEF new
    <3>. QED  BY <3>1 DEF Replayed
  <2>6. silent' = {}
    BY <2>1, <2>2 DEF Safe, Knows
  <2>7. head'.gen >= head.gen
    BY <1>0, <2>3
  <2>. QED  BY <1>1, <2>2, <2>3, <2>4, <2>5, <2>6, <2>7, WorldMoves DEF Onward
<1>2. CASE UNCHANGED server \/ (Serve(e) /\ ~Commits(e))
  <2>1. UNCHANGED server
    BY <1>2 DEF Serve
  <2>2. head' = head /\ results' = results /\ silent' = silent
    BY <2>1 DEF server
  <2>3. ~(Serve(e) /\ Commits(e))
    BY <1>0, <1>2, <2>2 DEF Serve
  <2>. QED  BY <1>0, <2>2, <2>3 DEF Onward
<1>. QED  BY <1>1, <1>2

\* The answer to a put says what became of it.
LEMMA AnsweredIs ==
    ASSUME World(head, results), silent = {}, NEW p \in Puts, Safe(head, p.e), Serve(p.e)
    PROVE  LET q == Answered(p)
           IN  /\ q \in Puts /\ q.e = p.e /\ q.at = Verdict(p.e)
               /\ AnswerInv(head', results', q)
<1>. DEFINE e == p.e
            q == Answered(p)
            gen == IF Commits(e) THEN head.gen + 1 ELSE head.gen
            at == Verdict(e)
<1>1. e \in Entries /\ head.gen \in Nat
  BY DEF Puts, World, HeadsOfDeck
<1>2. /\ at \in {"ok", "stale", "keyed"}
      /\ at = "ok" /\ ~Commits(e) => Replayed(head, results, e)
      /\ at = "stale" => ~Hopes(head, results, e)
      /\ Commits(e) => at = "ok"
  BY <1>1, VerdictIs DEF Commits
<1>3. gen \in Nat
  BY <1>1
<1>4. q = [p EXCEPT !.at = at, !.gen = gen]
  BY DEF Answered
<1>5. /\ Commits(e) => Replayed(head', results', e) /\ head'.gen = head.gen + 1
      /\ ~Commits(e) => head' = head /\ results' = results
  BY <1>1, ServeMoves
<1>6. gen = head'.gen
  BY <1>1, <1>5
<1>. HIDE DEF gen, at
<1>7. q \in Puts /\ q.e = e /\ q.at = at /\ q.gen = gen
  BY <1>2, <1>3, <1>4 DEF Puts
<1>8. AnswerInv(head', results', q)
  BY <1>2, <1>3, <1>5, <1>6, <1>7 DEF AnswerInv
<1>. QED  BY <1>7, <1>8 DEF at

-----------------------------------------------------------------------------
(* Steps of a controller *)

LEMMA MountedIs ==
    ASSUME IInv
    PROVE  Mounted \in DOMAIN ctl /\ c = ctl[Mounted] /\ c \in Controllers /\ CtlInv(head, results, c)
<1>1. Mounted \in DOMAIN ctl
  BY DEF IInv, SaveType, Mounted
<1>. QED  BY <1>1 DEF IInv, CtlsInv, CtlInv, c

\* One controller changes.
LEMMA ReplacedIs ==
    ASSUME SaveType, NEW i \in DOMAIN ctl, NEW t \in Controllers, Replaced(i, t)
    PROVE  /\ ctl' \in Seq(Controllers) /\ Len(ctl') = Len(ctl) /\ DOMAIN ctl' = DOMAIN ctl
           /\ \A j \in DOMAIN ctl : ctl'[j] = IF j = i THEN t ELSE ctl[j]
           /\ c' = IF i = Mounted THEN t ELSE c
<1>1. ctl' = [ctl EXCEPT ![i] = t]
  BY DEF Replaced
<1>2. ctl' \in Seq(Controllers) /\ Len(ctl') = Len(ctl) /\ DOMAIN ctl' = DOMAIN ctl
      /\ \A j \in DOMAIN ctl : ctl'[j] = IF j = i THEN t ELSE ctl[j]
  BY <1>1 DEF SaveType
<1>3. Mounted' = Mounted /\ Mounted \in DOMAIN ctl
  BY <1>2 DEF Mounted, SaveType
<1>. QED  BY <1>2, <1>3 DEF c

\* The page goes on as it is while a controller moves its entries on.
LEMMA Quiet ==
    ASSUME IInv, NEW i \in DOMAIN ctl, NEW t, Replaced(i, t), CtlInv(head', results', t),
           \/ PageKept(head, results, ctl[i], head', results', t)
           \/ i = Mounted /\ PageInv(head', results', t, tab, doc \cup seen),
           t.accepted >= ctl[i].accepted, t.epoch = ctl[i].epoch,
           t.flushing = NoEntry \/ ctl[i].flushing # NoEntry,
           "export" \in events \/ (ctl[i].export = "none" => t.export = "none"),
           Onward(head, results, head', results'), World(head', results'), silent' = {},
           "export" \in events => head'.body \subseteq doc \cup seen,
           UNCHANGED <<events, tab, doc, seen, offered>>, wire' \subseteq wire,
           \/ draft' \in {draft, NoEntry}
           \/ tab = "open" /\ draft' \in Entries /\ draft'.gen <= head'.gen,
           conflict' \in BOOLEAN,
           conflict' => /\ tab = "open"
                        /\ IF i = Mounted THEN Stuck(head', results', t) ELSE conflict
    PROVE  IInv'
<1>1. /\ SaveType /\ World(head, results) /\ CtlsInv /\ WireInv
      /\ MountedInv /\ DraftInv /\ ConflictInv /\ ExportInv
  BY DEF IInv
<1>2. t \in Controllers /\ Mounted \in DOMAIN ctl /\ c = ctl[Mounted] /\ CtlInv(head, results, c)
  BY MountedIs DEF CtlInv
<1>3. /\ ctl' \in Seq(Controllers) /\ Len(ctl') = Len(ctl) /\ DOMAIN ctl' = DOMAIN ctl
      /\ \A j \in DOMAIN ctl : ctl'[j] = IF j = i THEN t ELSE ctl[j]
      /\ c' = IF i = Mounted THEN t ELSE c
  BY <1>1, <1>2, ReplacedIs
<1>4. head.gen \in Nat /\ head'.gen \in Nat /\ head'.gen >= head.gen
  BY <1>1 DEF World, HeadsOfDeck, Onward, Advances
<1>5. SaveType'
  BY <1>1, <1>3 DEF SaveType
<1>6. CtlsInv'
  <2>1. ASSUME NEW j \in DOMAIN ctl, j # i PROVE CtlInv(head', results', ctl[j])
    BY <1>1, CtlMoves DEF CtlsInv
  <2>. QED  BY <1>3, <2>1 DEF CtlsInv
<1>7. WireInv'
  <2>1. ASSUME NEW p \in wire PROVE Safe(head', p.e)
    <3>1. p.e \in Entries /\ Safe(head, p.e)
      BY <1>1 DEF SaveType, Puts, WireInv
    <3>. QED  BY <1>1, <3>1, HopeFades DEF Onward
  <2>. QED  BY <2>1 DEF WireInv
<1>8. /\ PageInv(head', results', c', tab, doc \cup seen)
      /\ c'.epoch = c.epoch /\ (c'.flushing = NoEntry \/ c.flushing # NoEntry)
      /\ "export" \in events \/ (c.export = "none" => c'.export = "none")
      /\ c'.accepted >= c.accepted
  <2>1. c.accepted \in Nat /\ PageInv(head, results, c, tab, doc \cup seen)
    BY <1>1, <1>2 DEF CtlInv, Controllers, MountedInv
  <2>2. CASE i = Mounted
    BY <1>2, <1>3, <2>1, <2>2 DEF PageKept
  <2>3. CASE i # Mounted
    BY <1>1, <1>2, <1>3, <2>1, <2>3, CtlMoves DEF PageKept
  <2>. QED  BY <2>2, <2>3
<1>9. MountedInv'
  BY <1>1, <1>8 DEF MountedInv
<1>10. DraftInv'
  <2>1. c.accepted \in Nat /\ c'.accepted \in Nat
    BY <1>2, <1>3 DEF CtlInv, Controllers
  <2>2. draft # NoEntry => draft.gen \in Nat
    BY <1>1 DEF SaveType, Entries
  <2>3. offered # NoEntry => offered.gen \in Nat
    BY <1>1 DEF SaveType, Entries
  <2>. QED  BY <1>1, <1>4, <1>8, <2>1, <2>2, <2>3 DEF DraftInv
<1>11. ConflictInv'
  <2>. SUFFICES ASSUME conflict' PROVE tab = "open" /\ Stuck(head', results', c')
    BY DEF ConflictInv
  <2>1. CASE i = Mounted
    BY <1>3, <2>1
  <2>2. CASE i # Mounted
    BY <1>1, <1>2, <1>3, <2>2, CtlMoves DEF ConflictInv
  <2>. QED  BY <2>1, <2>2
<1>12. ExportInv'
  BY <1>1, <1>3, <1>8 DEF ExportInv
<1>. QED  BY <1>5, <1>6, <1>7, <1>9, <1>10, <1>11, <1>12 DEF IInv

\* The server and the page stay; only a controller moves.
LEMMA QuietHere ==
    ASSUME IInv, NEW i \in DOMAIN ctl, NEW t, Replaced(i, t), CtlInv(head, results, t),
           PageKept(head, results, ctl[i], head, results, t),
           t.accepted >= ctl[i].accepted, t.epoch = ctl[i].epoch,
           t.flushing = NoEntry \/ ctl[i].flushing # NoEntry,
           "export" \in events \/ (ctl[i].export = "none" => t.export = "none"),
           UNCHANGED <<events, server, tab, doc, seen, offered, wire>>, draft' \in {draft, NoEntry},
           conflict' \in BOOLEAN,
           conflict' => /\ tab = "open"
                        /\ IF i = Mounted THEN Stuck(head, results, t) ELSE conflict
    PROVE  IInv'
<1>1. head' = head /\ results' = results /\ silent' = silent
  BY DEF server
<1>2. /\ World(head, results) /\ silent = {}
      /\ "export" \in events => head.body \subseteq doc \cup seen
  BY DEF IInv, ExportInv
<1>3. Onward(head, results, head', results') /\ World(head', results') /\ silent' = {}
      /\ CtlInv(head', results', t)
      /\ PageKept(head, results, ctl[i], head', results', t)
      /\ ("export" \in events => head'.body \subseteq doc \cup seen)
      /\ (conflict' => tab = "open" /\ IF i = Mounted THEN Stuck(head', results', t) ELSE conflict)
  BY <1>1, <1>2 DEF Onward
<1>4. UNCHANGED <<events, tab, doc, seen, offered>> /\ wire' \subseteq wire
  OBVIOUS
<1>. QED  BY <1>3, <1>4, Quiet

\* The put of a save or of a flush has an answer.
LEMMA InflightKeeps ==
    ASSUME NEW h, NEW rs, NEW s, CtlInv(h, rs, s), s.inflight # NoEntry,
           NEW q \in Puts, q.e = s.inflight.e, AnswerInv(h, rs, q)
    PROVE  LET t == [s EXCEPT !.inflight = q]
           IN  /\ CtlInv(h, rs, t) /\ Tame(s, t)
               /\ PageKept(h, rs, s, h, rs, t)
               /\ Stuck(h, rs, s) /\ q.at # "ok" => Stuck(h, rs, t)
<1>. DEFINE t == [s EXCEPT !.inflight = q]
<1>1. s \in Controllers /\ q # NoEntry
  BY NoEntryOK DEF CtlInv
<1>2. t \in Controllers /\ Tame(s, t) /\ t.queue = s.queue /\ t.failed = s.failed /\ t.inflight = q
  BY <1>1 DEF Controllers, Tame
<1>3. \A K : Informed(h, rs, s, K) => Informed(h, rs, t, K)
  BY <1>2 DEF Informed, Tame
<1>. QED  BY <1>1, <1>2, <1>3 DEF CtlInv, QueueInv, PutsInv, PageInv, PageKept, Stuck, Tame

LEMMA FlushingKeeps ==
    ASSUME NEW h, NEW rs, NEW s, CtlInv(h, rs, s), s.flushing # NoEntry,
           NEW q \in Puts \cup {NoEntry}, q # NoEntry => q.e = s.flushing.e
    PROVE  LET t == [s EXCEPT !.flushing = q]
           IN  /\ CtlInv(h, rs, t) /\ t.accepted = s.accepted /\ t.epoch = s.epoch /\ t.export = s.export
               /\ t.flushing = q
               /\ PageKept(h, rs, s, h, rs, t)
               /\ Stuck(h, rs, s) => Stuck(h, rs, t)
<1>. DEFINE t == [s EXCEPT !.flushing = q]
<1>1. s \in Controllers
  BY DEF CtlInv
<1>2. /\ t \in Controllers /\ t.queue = s.queue /\ t.failed = s.failed /\ t.inflight = s.inflight
      /\ t.accepted = s.accepted /\ t.epoch = s.epoch /\ t.export = s.export /\ t.attempt = s.attempt
      /\ t.flushing = q
  BY <1>1 DEF Controllers
<1>3. \A K : Informed(h, rs, s, K) => Informed(h, rs, t, K)
  BY <1>2 DEF Informed
<1>. QED  BY <1>2, <1>3 DEF CtlInv, QueueInv, PutsInv, PageInv, PageKept, Stuck

\* A put is delivered: what the server does and what the put becomes.
LEMMA DeliveredIs ==
    ASSUME World(head, results), silent = {}, NEW p \in Puts, Safe(head, p.e),
           NEW q \in Outcomes(p), Delivered(p, q)
    PROVE  /\ Serve(p.e) \/ UNCHANGED server
           /\ q \in Puts /\ q.e = p.e /\ AnswerInv(head', results', q)
           /\ q.at = "ok" => Hopes(head, results, p.e)
<1>1. p.e \in Entries
  BY DEF Puts
<1>2. CASE q.at # "lost" /\ Serve(p.e)
  <2>1. [p EXCEPT !.at = "lost"].at = "lost"
    BY DEF Puts
  <2>2. q = Answered(p)
    BY <1>2, <2>1 DEF Outcomes
  <2>. QED  BY <1>1, <1>2, <2>2, AnsweredIs, VerdictIs
<1>3. CASE q.at = "lost" /\ (Serve(p.e) \/ UNCHANGED server)
  <2>1. q \in Puts /\ q.e = p.e
    <3>1. Answered(p).at = Verdict(p.e)
      BY DEF Answered, Puts
    <3>2. q = [p EXCEPT !.at = "lost"]
      BY <1>1, <1>3, <3>1, VerdictIs DEF Outcomes
    <3>. QED  BY <3>2 DEF Puts
  <2>2. AnswerInv(head', results', q)
    BY <1>3 DEF AnswerInv
  <2>. QED  BY <1>3, <2>1, <2>2
<1>. QED  BY <1>2, <1>3 DEF Delivered

\* What a controller of the page may come to know while exports are possible.
LEMMA ExportKnows ==
    ASSUME IInv, "export" \in events, NEW i \in DOMAIN ctl
    PROVE  /\ i = Mounted /\ ctl[i].flushing = NoEntry /\ head.body \subseteq doc \cup seen
           /\ ctl[i].inflight # NoEntry /\ Hopes(head, results, ctl[i].inflight.e)
                 => ctl[i].inflight.e.body \subseteq doc \cup seen
<1>1. /\ Len(ctl) = 1 /\ tab = "open" /\ c.flushing = NoEntry /\ c.epoch = 0
      /\ head.body \subseteq doc \cup seen /\ PageInv(head, results, c, tab, doc \cup seen)
  BY DEF IInv, ExportInv, MountedInv
<1>2. i = Mounted /\ c = ctl[i] /\ CtlInv(head, results, c)
  <2>1. i = Mounted
    BY <1>1 DEF IInv, SaveType, Mounted
  <2>. QED  BY <2>1, MountedIs
<1>3. c.inflight # NoEntry => c.inflight.e.epoch = c.epoch
  <2>. SUFFICES ASSUME c.inflight # NoEntry PROVE c.inflight.e.epoch = c.epoch
    OBVIOUS
  <2>1. c.inflight.e.epoch \in Nat
    BY <1>2 DEF CtlInv, Controllers, Puts, Entries
  <2>2. c.inflight.e.epoch <= c.epoch
    BY <1>2 DEF CtlInv, PutsInv
  <2>. QED  BY <1>1, <2>1, <2>2
<1>. QED  BY <1>1, <1>2, <1>3 DEF PageInv, Informed

LEMMA DeliverSaveKeeps == ASSUME IInv, NEW i \in DOMAIN ctl, DeliverSave(i) PROVE IInv'
<1>. DEFINE s == ctl[i]
            p == s.inflight
<1>1. /\ World(head, results) /\ silent = {} /\ CtlInv(head, results, s) /\ p # NoEntry
      /\ s \in Controllers /\ p \in Puts /\ p.e \in Entries /\ Safe(head, p.e)
  BY DEF IInv, CtlsInv, CtlInv, PutsInv, DeliverSave, Controllers, Puts
<1>2. PICK q \in Outcomes(p) : Delivered(p, q) /\ Replaced(i, [s EXCEPT !.inflight = q])
  BY DEF DeliverSave
<1>. DEFINE t == [s EXCEPT !.inflight = q]
<1>3. /\ Serve(p.e) \/ UNCHANGED server
      /\ q \in Puts /\ q.e = p.e /\ AnswerInv(head', results', q)
      /\ q.at = "ok" => Hopes(head, results, p.e)
  BY <1>1, <1>2, DeliveredIs
<1>4. /\ Onward(head, results, head', results') /\ World(head', results') /\ silent' = {}
      /\ head' # head => head'.body = p.e.body /\ p.e.gen = head.gen
  BY <1>1, <1>3, ServeMoves
<1>5. /\ CtlInv(head', results', s) /\ PageKept(head, results, s, head', results', s)
      /\ Stuck(head, results, s) => Stuck(head', results', s)
  BY <1>1, <1>4, CtlMoves
<1>6. /\ CtlInv(head', results', t) /\ Tame(s, t) /\ PageKept(head', results', s, head', results', t)
      /\ Stuck(head', results', s) /\ q.at # "ok" => Stuck(head', results', t)
  BY <1>1, <1>3, <1>5, InflightKeeps
<1>. HIDE DEF t
<1>7. PageKept(head, results, s, head', results', t)
  BY <1>5, <1>6 DEF PageKept
<1>8. "export" \in events => head'.body \subseteq doc \cup seen
  BY <1>1, <1>4, ExportKnows DEF Hopes
<1>9. conflict => /\ tab = "open"
                  /\ IF i = Mounted THEN Stuck(head', results', t) ELSE conflict
  <2>. SUFFICES ASSUME conflict, i = Mounted PROVE tab = "open" /\ Stuck(head', results', t)
    BY DEF IInv, ConflictInv
  <2>1. tab = "open" /\ Stuck(head, results, s)
    BY MountedIs DEF IInv, ConflictInv
  <2>2. q.at # "ok"
    BY <1>1, <1>3, <2>1 DEF Stuck
  <2>. QED  BY <1>5, <1>6, <2>1, <2>2
<1>10. /\ UNCHANGED <<events, tab, doc, seen, offered, wire, conflict, draft>>
       /\ conflict \in BOOLEAN
  BY DEF DeliverSave, page, history, IInv, SaveType
<1>11. /\ t.accepted >= s.accepted /\ t.epoch = s.epoch /\ t.flushing = s.flushing
       /\ s.export = "none" => t.export = "none"
  <2>1. s.accepted \in Nat
    BY <1>1 DEF Controllers
  <2>. QED  BY <1>6, <2>1 DEF Tame
<1>12. Replaced(i, t)
  BY <1>2 DEF t
<1>. QED  BY <1>4, <1>6, <1>7, <1>8, <1>9, <1>10, <1>11, <1>12, Quiet

LEMMA DeliverFlushKeeps == ASSUME IInv, NEW i \in DOMAIN ctl, DeliverFlush(i) PROVE IInv'
<1>. DEFINE s == ctl[i]
            p == s.flushing
<1>1. /\ World(head, results) /\ silent = {} /\ CtlInv(head, results, s) /\ p # NoEntry
      /\ s \in Controllers /\ p \in Puts /\ p.e \in Entries /\ Safe(head, p.e)
  BY DEF IInv, CtlsInv, CtlInv, PutsInv, DeliverFlush, Controllers, Puts
<1>2. PICK q \in Outcomes(p) : Delivered(p, q) /\ Replaced(i, [s EXCEPT !.flushing = q])
  BY DEF DeliverFlush
<1>. DEFINE t == [s EXCEPT !.flushing = q]
<1>3. (Serve(p.e) \/ UNCHANGED server) /\ q \in Puts /\ q.e = p.e
  BY <1>1, <1>2, DeliveredIs
<1>4. Onward(head, results, head', results') /\ World(head', results') /\ silent' = {}
  BY <1>1, <1>3, ServeMoves
<1>5. /\ CtlInv(head', results', s) /\ PageKept(head, results, s, head', results', s)
      /\ Stuck(head, results, s) => Stuck(head', results', s)
  BY <1>1, <1>4, CtlMoves
<1>6. /\ CtlInv(head', results', t) /\ t.accepted = s.accepted /\ t.epoch = s.epoch /\ t.export = s.export
      /\ PageKept(head', results', s, head', results', t)
      /\ Stuck(head', results', s) => Stuck(head', results', t)
  BY <1>1, <1>3, <1>5, FlushingKeeps
<1>. HIDE DEF t
<1>7. PageKept(head, results, s, head', results', t)
  BY <1>5, <1>6 DEF PageKept
<1>8. "export" \notin events
  BY <1>1, ExportKnows
<1>9. conflict => /\ tab = "open"
                  /\ IF i = Mounted THEN Stuck(head', results', t) ELSE conflict
  BY <1>5, <1>6, MountedIs DEF IInv, ConflictInv
<1>10. /\ UNCHANGED <<events, tab, doc, seen, offered, wire, conflict, draft>>
       /\ conflict \in BOOLEAN
  BY DEF DeliverFlush, page, history, IInv, SaveType
<1>11. t.accepted >= s.accepted
  <2>1. s.accepted \in Nat
    BY <1>1 DEF Controllers
  <2>. QED  BY <1>6, <2>1
<1>12. Replaced(i, t)
  BY <1>2 DEF t
<1>. QED  BY <1>1, <1>4, <1>6, <1>7, <1>8, <1>9, <1>10, <1>11, <1>12, Quiet

\* A step of the server that no controller of the page hears of
LEMMA ServerKeeps ==
    ASSUME IInv, UNCHANGED <<events, page, ctl, draft, history>>, wire' \subseteq wire,
           Onward(head, results, head', results'), World(head', results'), silent' = {},
           "export" \in events => head' = head
    PROVE  IInv'
<1>1. Mounted \in DOMAIN ctl /\ c = ctl[Mounted] /\ c \in Controllers /\ CtlInv(head, results, c)
  BY MountedIs
<1>2. Replaced(Mounted, c)
  <2>1. ctl' = [ctl EXCEPT ![Mounted] = c]
    BY <1>1 DEF IInv, SaveType
  <2>. QED  BY <2>1 DEF Replaced
<1>3. /\ World(head, results) /\ CtlInv(head', results', c) /\ PageKept(head, results, c, head', results', c)
      /\ Stuck(head, results, c) => Stuck(head', results', c)
  BY <1>1, CtlMoves DEF IInv
<1>4. /\ UNCHANGED <<tab, doc, seen, offered, conflict, draft>>
      /\ conflict \in BOOLEAN /\ (conflict => tab = "open" /\ Stuck(head, results, c))
      /\ "export" \in events => head'.body \subseteq doc \cup seen
  BY DEF page, history, IInv, SaveType, ConflictInv, ExportInv
<1>5. c.accepted >= c.accepted
  <2>1. c.accepted \in Nat
    BY <1>1 DEF Controllers
  <2>. QED  BY <2>1
<1>. QED  BY <1>1, <1>2, <1>3, <1>4, <1>5, Quiet

LEMMA LateKeeps == ASSUME IInv, NEW p \in wire, DeliverLate(p) PROVE IInv'
<1>1. p \in Puts /\ p.e \in Entries /\ Safe(head, p.e) /\ World(head, results) /\ silent = {}
  BY DEF IInv, SaveType, WireInv, Puts
<1>2. Onward(head, results, head', results') /\ World(head', results') /\ silent' = {}
  BY <1>1, ServeMoves DEF DeliverLate
<1>3. "export" \notin events
  BY DEF IInv, ExportInv
<1>. QED  BY <1>2, <1>3, ServerKeeps DEF DeliverLate

LEMMA RemoteKeeps ==
    ASSUME IInv, ExportsAlone, NEW r \in RemoteEdit, RemoteSave(r) PROVE IInv'
<1>1. /\ head \in HeadsOfDeck /\ World(head, results) /\ silent = {} /\ events \in Workloads
      /\ "remote" \in events
      /\ head' = [gen |-> head.gen + 1, body |-> head.body \cup {r}] /\ results' = results
  BY DEF IInv, World, SaveType, RemoteSave
<1>2. head' \in HeadsOfDeck /\ head'.gen = head.gen + 1
  BY <1>1 DEF HeadsOfDeck, Bodies
<1>3. Advances(head, results, head', results')
  BY <1>1, <1>2 DEF Advances
<1>4. World(head', results') /\ Onward(head, results, head', results')
  BY <1>1, <1>3, WorldMoves DEF Onward
<1>5. "export" \notin events
  BY <1>1 DEF ExportsAlone
<1>. QED  BY <1>1, <1>4, <1>5, ServerKeeps DEF RemoteSave

\* clearEditorDraft() leaves the draft or nothing.
LEMMA ClearedIs == ASSUME NEW e PROVE Cleared(e) \in {draft, NoEntry}
BY DEF Cleared

\* An answer counts for the page when its save is of the route that is open.
LEMMA HeededIs ==
    ASSUME NEW h, NEW rs, NEW s, CtlInv(h, rs, s), s.inflight # NoEntry, Heeded(s, s.inflight.e)
    PROVE  s.inflight.e.epoch = s.epoch
<1>1. /\ s.inflight.e.epoch \in Nat /\ s.epoch \in Nat /\ s.inflight.e.n \in Nat
      /\ s.attempt \in Nat
  BY DEF CtlInv, Controllers, Puts, Entries
<1>. QED  BY <1>1 DEF CtlInv, Heeded, Successor, QueueInv, PutsInv

LEMMA SaveAnsweredKeeps == ASSUME IInv, NEW i \in DOMAIN ctl, SaveAnswered(i) PROVE IInv'
<1>. DEFINE s == ctl[i]
            p == s.inflight
            ok == p.at = "ok"
            stale == p.at = "stale" /\ i = Mounted /\ Heeded(s, p.e)
            u == [IF ok THEN AdoptSaved(s, p) ELSE KeepFailed(s, p, i = Mounted)
                  EXCEPT !.inflight = NoEntry]
            go == ok \/ p.e.epoch # s.epoch
            t == Continue(u, go, conflict')
<1>1. World(head, results) /\ CtlInv(head, results, s) /\ s \in Controllers /\ conflict \in BOOLEAN
  BY DEF IInv, CtlsInv, CtlInv, SaveType
<1>2. /\ p # NoEntry /\ Replaced(i, t) /\ conflict' = (conflict \/ stale)
      /\ draft' = IF ok THEN Cleared(p.e) ELSE draft
      /\ UNCHANGED <<events, server, tab, doc, seen, offered, wire>>
  BY DEF SaveAnswered, history
<1>3. /\ CtlInv(head, results, u) /\ Grown(s, u) /\ PageKept(head, results, s, head, results, u)
      /\ ~ok /\ p.e.epoch = s.epoch /\ ~Hopes(head, results, p.e) => Stuck(head, results, u)
  <2>1. CASE ok
    <3>1. u = [AdoptSaved(s, s.inflight) EXCEPT !.inflight = NoEntry]
      BY <2>1
    <3>. QED  BY <1>1, <1>2, <2>1, <3>1, AdoptKeeps
  <2>2. CASE ~ok
    <3>1. u = [KeepFailed(s, s.inflight, i = Mounted) EXCEPT !.inflight = NoEntry]
      BY <2>2
    <3>. DEFINE mounted == i = Mounted
    <3>2. u = [KeepFailed(s, s.inflight, mounted) EXCEPT !.inflight = NoEntry]
      BY <3>1
    <3>. HIDE DEF mounted, u
    <3>. QED  BY <1>1, <1>2, <3>2, FailedKeeps
  <2>. QED  BY <2>1, <2>2
<1>4. ASSUME conflict'
      PROVE  /\ tab = "open"
             /\ i = Mounted => ~ok /\ p.e.epoch = s.epoch /\ ~Hopes(head, results, p.e)
             /\ i # Mounted => conflict
  <2>1. CASE conflict
    <3>1. tab = "open" /\ Stuck(head, results, c)
      BY <2>1 DEF IInv, ConflictInv
    <3>2. i = Mounted => c = s
      BY MountedIs
    <3>. QED  BY <1>2, <2>1, <3>1, <3>2 DEF Stuck
  <2>2. CASE stale
    <3>1. p.e.epoch = s.epoch /\ ~Hopes(head, results, p.e)
      BY <1>1, <1>2, <2>2, HeededIs DEF CtlInv, PutsInv, AnswerInv
    <3>2. PageInv(head, results, s, tab, doc \cup seen) /\ s.epoch \in Nat
      BY <1>1, <2>2, MountedIs DEF IInv, MountedInv, Controllers
    <3>3. tab = "open"
      BY <1>2, <3>1, <3>2 DEF PageInv
    <3>. QED  BY <2>2, <3>1, <3>3
  <2>. QED  BY <1>2, <1>4, <2>1, <2>2
<1>5. draft' \in {draft, NoEntry}
  BY <1>2, ClearedIs
<1>6. conflict' \in BOOLEAN
  BY <1>1, <1>2
<1>. HIDE DEF u, go
<1>7. /\ CtlInv(head, results, t) /\ Tame(u, t) /\ PageKept(head, results, u, head, results, t)
      /\ Stuck(head, results, u) => Stuck(head, results, t)
  BY <1>3, ContinueKeeps
<1>. HIDE DEF t
<1>8. PageKept(head, results, s, head, results, t)
  BY <1>3, <1>7 DEF PageKept
<1>9. /\ t.accepted >= s.accepted /\ t.epoch = s.epoch /\ t.flushing = s.flushing
      /\ s.export = "none" => t.export = "none"
  BY <1>3, <1>7 DEF Grown, Tame
<1>10. conflict' => tab = "open" /\ IF i = Mounted THEN Stuck(head, results, t) ELSE conflict
  BY <1>3, <1>4, <1>7
<1>. QED  BY <1>2, <1>5, <1>6, <1>7, <1>8, <1>9, <1>10, QuietHere

\* A step of a controller that nobody else sees.
LEMMA AloneKeeps ==
    ASSUME IInv, NEW i \in DOMAIN ctl, NEW t, Replaced(i, t), CtlInv(head, results, t),
           PageKept(head, results, ctl[i], head, results, t),
           Stuck(head, results, ctl[i]) => Stuck(head, results, t),
           t.accepted = ctl[i].accepted, t.epoch = ctl[i].epoch,
           t.flushing = NoEntry \/ ctl[i].flushing # NoEntry,
           "export" \in events \/ (ctl[i].export = "none" => t.export = "none"),
           UNCHANGED <<events, server, tab, doc, conflict, offered, seen, wire>>,
           draft' \in {draft, NoEntry}
    PROVE  IInv'
<1>1. conflict' => tab = "open" /\ IF i = Mounted THEN Stuck(head, results, t) ELSE conflict
  BY MountedIs DEF IInv, ConflictInv
<1>2. conflict' \in BOOLEAN
  BY DEF IInv, SaveType
<1>3. t.accepted >= ctl[i].accepted
  <2>1. t.accepted \in Nat
    BY DEF CtlInv, Controllers
  <2>. QED  BY <2>1
<1>. QED  BY <1>1, <1>2, <1>3, QuietHere

LEMMA FlushAnsweredKeeps == ASSUME IInv, NEW i \in DOMAIN ctl, FlushAnswered(i) PROVE IInv'
<1>. DEFINE s == ctl[i]
            u == [s EXCEPT !.flushing = NoEntry]
            t == Continue(u, TRUE, conflict)
<1>1. CtlInv(head, results, s)
  BY DEF IInv, CtlsInv
<1>2. /\ s.flushing # NoEntry /\ Replaced(i, t) /\ draft' \in {draft, NoEntry}
      /\ UNCHANGED <<events, server, tab, doc, conflict, offered, seen, wire>>
  BY ClearedIs DEF FlushAnswered, page, history
<1>3. /\ CtlInv(head, results, u) /\ u.accepted = s.accepted /\ u.epoch = s.epoch
      /\ u.export = s.export /\ u.flushing = NoEntry
      /\ PageKept(head, results, s, head, results, u)
      /\ Stuck(head, results, s) => Stuck(head, results, u)
  BY <1>1, <1>2, FlushingKeeps
<1>. DEFINE go == TRUE
<1>4. t = Continue(u, go, conflict)
  OBVIOUS
<1>. HIDE DEF u, go
<1>5. /\ CtlInv(head, results, t) /\ Tame(u, t) /\ PageKept(head, results, u, head, results, t)
      /\ Stuck(head, results, u) => Stuck(head, results, t)
  BY <1>3, <1>4, ContinueKeeps
<1>. HIDE DEF t
<1>6. PageKept(head, results, s, head, results, t)
  BY <1>3, <1>5 DEF PageKept
<1>7. /\ t.accepted = s.accepted /\ t.epoch = s.epoch /\ t.flushing = NoEntry
      /\ s.export = "none" => t.export = "none"
  BY <1>3, <1>5 DEF Tame
<1>. QED  BY <1>2, <1>3, <1>5, <1>6, <1>7, AloneKeeps

LEMMA TimerKeeps == ASSUME IInv, NEW i \in DOMAIN ctl, TimerFires(i) PROVE IInv'
<1>. DEFINE s == ctl[i]
            off == FALSE
            u == [s EXCEPT !.timer = off]
            t == Process(u)
<1>1. CtlInv(head, results, s) /\ off \in BOOLEAN
  BY DEF IInv, CtlsInv
<1>2. /\ Replaced(i, t) /\ draft' = draft
      /\ UNCHANGED <<events, server, tab, doc, conflict, offered, seen, wire>>
  BY DEF TimerFires, page, history
<1>. HIDE DEF off
<1>3. /\ CtlInv(head, results, u) /\ Tame(s, u) /\ PageKept(head, results, s, head, results, u)
      /\ Stuck(head, results, s) => Stuck(head, results, u)
  BY <1>1, LaterKeeps
<1>. HIDE DEF u
<1>4. /\ CtlInv(head, results, t) /\ Tame(u, t) /\ PageKept(head, results, u, head, results, t)
      /\ Stuck(head, results, u) => Stuck(head, results, t)
  BY <1>3, ProcessKeeps
<1>. HIDE DEF t
<1>5. PageKept(head, results, s, head, results, t) /\ Tame(s, t)
  BY <1>3, <1>4 DEF PageKept, Tame
<1>. QED  BY <1>2, <1>3, <1>4, <1>5, AloneKeeps DEF Tame

LEMMA RetryKeeps == ASSUME IInv, RetrySave PROVE IInv'
<1>. DEFINE u == [c EXCEPT !.status = "saving"]
            t == Process(u)
<1>1. Mounted \in DOMAIN ctl /\ c = ctl[Mounted] /\ c \in Controllers /\ CtlInv(head, results, c)
  BY MountedIs
<1>2. /\ Replaced(Mounted, t) /\ draft' = draft
      /\ UNCHANGED <<events, server, tab, doc, conflict, offered, seen, wire>>
  BY DEF RetrySave, page, history
<1>3. u \in Controllers /\ Tame(c, u) /\ u.queue = c.queue /\ u.failed = c.failed /\ u.inflight = c.inflight
  BY <1>1 DEF Controllers, Tame
<1>. HIDE DEF u
<1>4. /\ CtlInv(head, results, u) /\ PageKept(head, results, c, head, results, u)
      /\ Stuck(head, results, c) => Stuck(head, results, u)
  BY <1>1, <1>3, SameEntries
<1>5. /\ CtlInv(head, results, t) /\ Tame(u, t) /\ PageKept(head, results, u, head, results, t)
      /\ Stuck(head, results, u) => Stuck(head, results, t)
  BY <1>4, ProcessKeeps
<1>. HIDE DEF t
<1>6. PageKept(head, results, c, head, results, t) /\ Tame(c, t)
  BY <1>3, <1>4, <1>5 DEF PageKept, Tame
<1>. QED  BY <1>1, <1>2, <1>4, <1>5, <1>6, AloneKeeps DEF Tame

-----------------------------------------------------------------------------
(* Validated edited export *)

\* A controller with the same entries, whatever becomes of its export.
LEMMA SameQueue ==
    ASSUME NEW h, NEW rs, NEW s, NEW t \in Controllers, CtlInv(h, rs, s),
           t.accepted = s.accepted, t.attempt = s.attempt, t.epoch = s.epoch,
           t.flushing = s.flushing, t.queue = s.queue, t.failed = s.failed, t.inflight = s.inflight
    PROVE  /\ CtlInv(h, rs, t)
           /\ PageKept(h, rs, s, h, rs, t)
           /\ Stuck(h, rs, s) => Stuck(h, rs, t)
BY DEF CtlInv, QueueInv, PutsInv, Informed, PageInv, PageKept, Stuck

LEMMA StartExportKeeps == ASSUME IInv, StartExport PROVE IInv'
<1>. DEFINE u == [c EXCEPT !.timer = FALSE, !.export = "wait"]
            t == IF Idle(u) THEN Notified(u) ELSE Process(u)
<1>1. Mounted \in DOMAIN ctl /\ c = ctl[Mounted] /\ c \in Controllers /\ CtlInv(head, results, c)
  BY MountedIs
<1>2. /\ "export" \in events /\ Replaced(Mounted, t) /\ draft' = draft
      /\ UNCHANGED <<events, server, tab, doc, conflict, offered, seen, wire>>
  BY DEF StartExport, page, history
<1>3. /\ u \in Controllers /\ u.accepted = c.accepted /\ u.attempt = c.attempt /\ u.epoch = c.epoch
      /\ u.flushing = c.flushing /\ u.queue = c.queue /\ u.failed = c.failed /\ u.inflight = c.inflight
  BY <1>1 DEF Controllers
<1>. HIDE DEF u
<1>4. /\ CtlInv(head, results, u) /\ PageKept(head, results, c, head, results, u)
      /\ Stuck(head, results, c) => Stuck(head, results, u)
  BY <1>1, <1>3, SameQueue
<1>5. /\ CtlInv(head, results, t) /\ Tame(u, t) /\ PageKept(head, results, u, head, results, t)
      /\ Stuck(head, results, u) => Stuck(head, results, t)
  <2>1. CASE Idle(u)
    <3>1. t = Notified(u)
      BY <2>1
    <3>. QED  BY <3>1, <1>3, <1>4, NotifiedIs, SameEntries
  <2>2. CASE ~Idle(u)
    <3>1. t = Process(u)
      BY <2>2
    <3>. QED  BY <3>1, <1>4, ProcessKeeps
  <2>. QED  BY <2>1, <2>2
<1>. HIDE DEF t
<1>6. PageKept(head, results, c, head, results, t)
  BY <1>4, <1>5 DEF PageKept
<1>7. t.accepted = c.accepted /\ t.epoch = c.epoch /\ t.flushing = c.flushing
  BY <1>3, <1>5 DEF Tame
<1>. QED  BY <1>1, <1>2, <1>4, <1>5, <1>6, <1>7, AloneKeeps

LEMMA ReadFidelityKeeps == ASSUME IInv, ReadFidelity PROVE IInv'
<1>. DEFINE t == [c EXCEPT !.export = "sent", !.exportGen = head.gen]
<1>1. /\ Mounted \in DOMAIN ctl /\ c = ctl[Mounted] /\ c \in Controllers /\ CtlInv(head, results, c)
      /\ head.gen \in Nat
  BY MountedIs DEF IInv, World, HeadsOfDeck
<1>2. /\ "export" \in events /\ Replaced(Mounted, t) /\ draft' = draft
      /\ UNCHANGED <<events, server, tab, doc, conflict, offered, seen, wire>>
  BY DEF ReadFidelity, page, history, IInv, ExportInv
<1>3. /\ t \in Controllers /\ t.accepted = c.accepted /\ t.attempt = c.attempt /\ t.epoch = c.epoch
      /\ t.flushing = c.flushing /\ t.queue = c.queue /\ t.failed = c.failed /\ t.inflight = c.inflight
  BY <1>1 DEF Controllers
<1>. HIDE DEF t
<1>4. /\ CtlInv(head, results, t) /\ PageKept(head, results, c, head, results, t)
      /\ Stuck(head, results, c) => Stuck(head, results, t)
  BY <1>1, <1>3, SameQueue
<1>. QED  BY <1>1, <1>2, <1>3, <1>4, AloneKeeps

\* An export has ended, u being the controller with what it then accepts.
LEMMA ResumeKeeps ==
    ASSUME IInv, "export" \in events,
           Onward(head, results, head', results'), World(head', results'), silent' = {},
           head'.body = head.body,
           NEW u, CtlInv(head', results', u), PageInv(head', results', u, tab, doc \cup seen),
           u.epoch = c.epoch, u.flushing = c.flushing, u.accepted >= c.accepted,
           Stuck(head, results, c) => Stuck(head', results', u),
           NEW v, v = EndExport(u), Replaced(Mounted, Resumed(v)),
           draft' = IF v.queue # c.queue THEN v.queue ELSE draft,
           UNCHANGED <<events, tab, doc, conflict, offered, seen, wire>>
    PROVE  IInv'
<1>. DEFINE t == Resumed(v)
<1>1. Mounted \in DOMAIN ctl /\ c = ctl[Mounted]
  BY MountedIs
<1>2. /\ CtlInv(head', results', v) /\ v.accepted = u.accepted
      /\ v.epoch = u.epoch /\ v.inflight = u.inflight /\ v.flushing = u.flushing
      /\ v.failed = u.failed /\ PageKept(head', results', u, head', results', v)
  BY EndExportKeeps
<1>3. /\ CtlInv(head', results', t) /\ Tame(v, t) /\ PageKept(head', results', v, head', results', t)
      /\ Stuck(head', results', v) => Stuck(head', results', t)
  <2>1. CASE v.failed = NoEntry
    <3>1. t = Process(v)
      BY <2>1 DEF Resumed
    <3>. QED  BY <3>1, <1>2, ProcessKeeps
  <2>2. CASE v.failed # NoEntry
    <3>1. t = v
      BY <2>2 DEF Resumed
    <3>. QED  BY <3>1, <1>2 DEF Tame, PageKept
  <2>. QED  BY <2>1, <2>2
<1>4. Stuck(head, results, c) => Stuck(head', results', t)
  BY <1>2, <1>3 DEF Stuck
<1>. HIDE DEF t
<1>5. PageInv(head', results', t, tab, doc \cup seen)
  BY <1>2, <1>3 DEF PageKept
<1>6. \/ draft' \in {draft, NoEntry}
      \/ tab = "open" /\ draft' \in Entries /\ draft'.gen <= head'.gen
  <2>. SUFFICES ASSUME draft' = v.queue, v.queue # NoEntry
                PROVE  tab = "open" /\ v.queue \in Entries /\ v.queue.gen <= head'.gen
    OBVIOUS
  <2>1. tab = "open"
    BY DEF IInv, ExportInv
  <2>. QED  BY <1>2, <2>1 DEF CtlInv, QueueInv, Safe, Controllers
<1>7. conflict' \in BOOLEAN
  BY DEF IInv, SaveType
<1>8. conflict' => tab = "open" /\ IF Mounted = Mounted THEN Stuck(head', results', t) ELSE conflict
  BY <1>4 DEF IInv, ConflictInv
<1>9. t.accepted >= c.accepted /\ t.epoch = c.epoch /\ t.flushing = c.flushing
  BY <1>2, <1>3 DEF Tame
<1>10. head'.body \subseteq doc \cup seen
  BY DEF IInv, ExportInv
<1>11. Replaced(Mounted, t)
  BY DEF t
<1>12. UNCHANGED <<events, tab, doc, seen, offered>> /\ wire' \subseteq wire
  OBVIOUS
<1>13. t.flushing = NoEntry \/ c.flushing # NoEntry
  BY <1>9
<1>. QED  BY <1>1, <1>3, <1>5, <1>6, <1>7, <1>8, <1>9, <1>10, <1>11, <1>12, <1>13, Quiet

LEMMA ExportAnsweredKeeps == ASSUME IInv, ExportAnswered PROVE IInv'
<1>. DEFINE K == doc \cup seen
<1>1. /\ c \in Controllers /\ CtlInv(head, results, c) /\ c.accepted \in Nat
      /\ World(head, results) /\ silent = {} /\ head \in HeadsOfDeck /\ head.gen \in Nat
      /\ PageInv(head, results, c, tab, K) /\ c.accepted <= head.gen
  BY MountedIs DEF IInv, MountedInv, World, HeadsOfDeck, CtlInv, Controllers
<1>2. /\ results' = results /\ silent' = {}
      /\ UNCHANGED <<events, tab, doc, conflict, offered, seen, wire>>
  BY <1>1 DEF ExportAnswered, page, history
<1>3. "export" \in events /\ tab = "open" /\ head.body \subseteq K
  BY DEF ExportAnswered, IInv, ExportInv
<1>4. CASE head' = [head EXCEPT !.gen = @ + 1]
  <2>. DEFINE u == [c EXCEPT !.accepted = Most(@, head'.gen)]
              v == EndExport(u)
  <2>1. /\ head' \in HeadsOfDeck /\ head'.gen = head.gen + 1 /\ head'.gen \in Nat
        /\ head'.body = head.body
    BY <1>1, <1>4 DEF HeadsOfDeck
  <2>2. Advances(head, results, head', results')
    BY <1>2, <2>1 DEF Advances
  <2>3. World(head', results') /\ Onward(head, results, head', results')
    BY <1>1, <2>2, WorldMoves DEF Onward
  <2>4. /\ CtlInv(head', results', c) /\ PageInv(head', results', c, tab, K)
        /\ Stuck(head, results, c) => Stuck(head', results', c)
    BY <1>1, <2>3, CtlMoves DEF PageKept
  <2>5. Most(c.accepted, head'.gen) = head'.gen
    BY <1>1, <2>1 DEF Most
  <2>6. /\ u \in Controllers /\ u.accepted = head'.gen /\ u.queue = c.queue /\ u.failed = c.failed
        /\ u.inflight = c.inflight /\ u.attempt = c.attempt /\ u.epoch = c.epoch
        /\ u.flushing = c.flushing
    BY <1>1, <2>1, <2>5 DEF Controllers
  <2>7. head' # head
    BY <1>1, <2>1
  <2>. HIDE DEF u
  <2>8. Informed(head', results', u, K)
    BY <1>3, <2>1, <2>4, <2>6 DEF PageInv, Informed
  <2>9. PageInv(head', results', u, tab, K)
    BY <1>3, <2>4, <2>6, <2>8 DEF PageInv
  <2>10. CtlInv(head', results', u)
    <3>1. QueueInv(head', results', u)
      BY <2>4, <2>6, <2>8, <2>9 DEF CtlInv, QueueInv, PageInv
    <3>2. u.accepted <= head'.gen
      BY <2>1, <2>6
    <3>. QED  BY <2>4, <2>6, <3>1, <3>2 DEF CtlInv, PutsInv
  <2>11. v.export = "none" /\ v = [v EXCEPT !.export = "none"]
    <3>1. v.export = "none" /\ v \in Controllers
      BY <2>10, EndExportKeeps DEF CtlInv
    <3>. QED  BY <3>1 DEF Controllers
  <2>12. \/ Replaced(Mounted, Resumed(v)) /\ draft' = (IF v.queue # c.queue THEN v.queue ELSE draft)
        \/ head' = head
    BY <2>11 DEF ExportAnswered, u
  <2>13. Stuck(head, results, c) => Stuck(head', results', u)
    BY <2>4, <2>6 DEF Stuck
  <2>14. u.accepted >= c.accepted
    BY <1>1, <2>1, <2>6
  <2>. QED  BY <1>2, <1>3, <2>1, <2>3, <2>6, <2>7, <2>9, <2>10, <2>12, <2>13, <2>14, ResumeKeeps
<1>5. CASE head' = head
  <2>. DEFINE v == EndExport(c)
  <2>1. head # [head EXCEPT !.gen = @ + 1]
    BY <1>1 DEF HeadsOfDeck
  <2>2. Replaced(Mounted, Resumed(v)) /\ draft' = (IF v.queue # c.queue THEN v.queue ELSE draft)
    BY <1>5, <2>1 DEF ExportAnswered
  <2>3. Onward(head, results, head', results') /\ World(head', results') /\ c.accepted >= c.accepted
    BY <1>1, <1>2, <1>5 DEF Onward
  <2>4. CtlInv(head', results', c) /\ PageInv(head', results', c, tab, K)
        /\ (Stuck(head, results, c) => Stuck(head', results', c)) /\ head'.body = head.body
    BY <1>1, <1>2, <1>5
  <2>. QED  BY <1>2, <1>3, <2>2, <2>3, <2>4, ResumeKeeps
<1>. QED  BY <1>4, <1>5 DEF ExportAnswered

-----------------------------------------------------------------------------
(* The page *)

\* The page changes with its controller; the server stays.
LEMMA PageMoves ==
    ASSUME IInv, NEW t, Replaced(Mounted, t), CtlInv(head, results, t),
           UNCHANGED <<events, server, wire>>,
           tab' \in {"closed", "loading", "reading", "open"}, doc' \in Bodies, seen' \in Bodies,
           draft' \in Entries \cup {NoEntry}, offered' \in Entries \cup {NoEntry},
           PageInv(head, results, t, tab', doc' \cup seen'),
           tab' = "reading" \/ offered' # NoEntry => doc' \subseteq seen',
           draft' # NoEntry => draft'.gen <= head.gen /\ (tab' = "reading" => draft'.gen <= t.accepted),
           offered' # NoEntry => tab' = "open" /\ offered'.gen <= t.accepted,
           conflict' \in BOOLEAN, conflict' => tab' = "open" /\ Stuck(head, results, t),
           IF "export" \in events
           THEN /\ tab' = "open" /\ offered' = NoEntry
                /\ t.flushing = NoEntry /\ t.epoch = 0 /\ head.body \subseteq doc' \cup seen'
           ELSE t.export = "none"
    PROVE  IInv'
<1>1. /\ SaveType /\ World(head, results) /\ CtlsInv /\ WireInv /\ ExportInv /\ silent = {}
      /\ head' = head /\ results' = results /\ silent' = silent
  BY DEF IInv, server
<1>2. t \in Controllers /\ Mounted \in DOMAIN ctl
  BY MountedIs DEF CtlInv
<1>3. /\ ctl' \in Seq(Controllers) /\ Len(ctl') = Len(ctl) /\ DOMAIN ctl' = DOMAIN ctl
      /\ \A j \in DOMAIN ctl : ctl'[j] = IF j = Mounted THEN t ELSE ctl[j]
      /\ c' = t
  BY <1>1, <1>2, ReplacedIs
<1>4. SaveType'
  BY <1>1, <1>3 DEF SaveType
<1>5. CtlsInv' /\ WireInv'
  BY <1>1, <1>3 DEF CtlsInv, WireInv
<1>6. MountedInv'
  BY <1>1, <1>3 DEF MountedInv
<1>7. DraftInv'
  BY <1>1, <1>3 DEF DraftInv
<1>8. ConflictInv'
  BY <1>1, <1>3 DEF ConflictInv
<1>9. ExportInv'
  BY <1>1, <1>3 DEF ExportInv
<1>. QED  BY <1>1, <1>4, <1>5, <1>6, <1>7, <1>8, <1>9 DEF IInv

\* A save is scheduled from the controller s; the entry is also the draft.
LEMMA SaveKeeps ==
    ASSUME IInv, NEW s \in Controllers, PutsInv(head, results, s), s.accepted <= head.gen,
           c.accepted <= s.accepted, s.epoch = c.epoch, s.flushing = c.flushing, s.export = c.export,
           doc' \in Bodies, seen' \in Bodies, Informed(head, results, s, doc' \cup seen'),
           NEW key \in Nat, NEW u, u = Schedule(s, doc', key, seen'),
           NEW t, t = Now(u) \/ t = Later(u), Replaced(Mounted, t), draft' = u.queue,
           tab = "open", UNCHANGED <<events, server, tab, wire>>,
           offered' \in {offered, NoEntry}, offered' # NoEntry => doc' \subseteq seen',
           conflict' \in BOOLEAN, conflict' => Stuck(head, results, s),
           "export" \in events => head.body \subseteq doc' \cup seen'
    PROVE  IInv'
<1>1. head \in HeadsOfDeck /\ head.gen \in Nat /\ MountedInv /\ DraftInv /\ SaveType /\ ExportInv
  BY DEF IInv, World, HeadsOfDeck
<1>2. /\ CtlInv(head, results, u) /\ PageInv(head, results, u, "open", doc' \cup seen')
      /\ u.accepted = s.accepted /\ u.epoch = s.epoch /\ u.flushing = s.flushing
      /\ u.export = s.export /\ u.queue \in Entries /\ u.queue.gen = s.accepted
      /\ Stuck(head, results, s) => Stuck(head, results, u)
  BY <1>1, ScheduleKeeps
<1>3. /\ CtlInv(head, results, t) /\ Tame(u, t) /\ PageKept(head, results, u, head, results, t)
      /\ Stuck(head, results, u) => Stuck(head, results, t)
  <2>1. CASE t = Now(u)
    BY <1>2, <2>1, NowKeeps
  <2>2. CASE t = Later(u)
    <3>. DEFINE b == ~Exporting(u)
    <3>1. t = [u EXCEPT !.timer = b] /\ b \in BOOLEAN
      BY <2>2 DEF Later
    <3>. HIDE DEF b
    <3>. QED  BY <1>2, <3>1, LaterKeeps
  <2>. QED  BY <2>1, <2>2
<1>4. PageInv(head, results, t, tab', doc' \cup seen')
  BY <1>2, <1>3 DEF PageKept
<1>5. draft' \in Entries /\ draft'.gen <= head.gen
  BY <1>2
<1>6. offered' # NoEntry => tab' = "open" /\ offered'.gen <= t.accepted
  <2>1. offered # NoEntry => offered.gen \in Nat
    BY <1>1 DEF SaveType, Entries
  <2>2. c.accepted \in Nat /\ s.accepted \in Nat
    BY MountedIs DEF Controllers
  <2>. QED  BY <1>1, <1>2, <1>3, <2>1, <2>2 DEF DraftInv, Tame
<1>7. conflict' => tab' = "open" /\ Stuck(head, results, t)
  BY <1>2, <1>3
<1>8. IF "export" \in events
      THEN /\ tab' = "open" /\ offered' = NoEntry
           /\ t.flushing = NoEntry /\ t.epoch = 0 /\ head.body \subseteq doc' \cup seen'
      ELSE t.export = "none"
  BY <1>1, <1>2, <1>3 DEF ExportInv, Tame
<1>9. /\ tab' \in {"closed", "loading", "reading", "open"} /\ draft' \in Entries \cup {NoEntry}
      /\ offered' \in Entries \cup {NoEntry} /\ UNCHANGED <<events, server, wire>>
      /\ tab' # "reading"
  BY <1>1, <1>5 DEF SaveType
<1>. QED  BY <1>3, <1>4, <1>5, <1>6, <1>7, <1>8, <1>9, PageMoves

\* The controller as it is: what a save needs of it.
LEMMA MountedKnows ==
    ASSUME IInv, tab = "open"
    PROVE  /\ c \in Controllers /\ PutsInv(head, results, c) /\ c.accepted <= head.gen
           /\ c.accepted <= c.accepted /\ c.accepted \in Nat /\ NewKey(c) \in Nat
           /\ Informed(head, results, c, doc \cup seen)
           /\ doc \in Bodies /\ seen \in Bodies /\ conflict \in BOOLEAN
           /\ head \in HeadsOfDeck /\ head.gen \in Nat /\ head.body \in Bodies
           /\ "export" \in events => head.body \subseteq doc \cup seen
<1>1. c \in Controllers /\ CtlInv(head, results, c)
  BY MountedIs
<1>2. c.accepted \in Nat /\ c.attempt \in Nat
  BY <1>1 DEF Controllers
<1>3. PageInv(head, results, c, tab, doc \cup seen)
  BY DEF IInv, MountedInv
<1>4. /\ doc \in Bodies /\ seen \in Bodies /\ conflict \in BOOLEAN /\ head \in HeadsOfDeck
      /\ "export" \in events => head.body \subseteq doc \cup seen
  BY DEF IInv, SaveType, World, ExportInv
<1>. QED  BY <1>1, <1>2, <1>3, <1>4 DEF CtlInv, PageInv, NewKey, HeadsOfDeck

LEMMA EditKeeps == ASSUME IInv, NEW e \in Edit, EditDoc(e) PROVE IInv'
<1>. DEFINE u == Schedule(c, doc', NewKey(c), seen)
<1>1. /\ tab = "open" /\ offered = NoEntry /\ ~conflict
      /\ doc' = doc \cup {e} /\ seen' = seen
      /\ Replaced(Mounted, Later(u)) /\ draft' = u.queue
      /\ UNCHANGED <<events, server, tab, conflict, offered, wire>>
  BY DEF EditDoc, Usable
<1>2. doc' \in Bodies
  BY <1>1, MountedKnows DEF Bodies
<1>3. Informed(head, results, c, doc' \cup seen')
  BY <1>1, MountedKnows, KnowsMore
<1>4. u = Schedule(c, doc', NewKey(c), seen')
  BY <1>1
<1>. HIDE DEF u
<1>. QED  BY <1>1, <1>2, <1>3, <1>4, MountedKnows, SaveKeeps

LEMMA ManualKeeps == ASSUME IInv, ManualSave PROVE IInv'
<1>. DEFINE u == Schedule(c, doc, NewKey(c), seen)
<1>1. /\ tab = "open" /\ offered = NoEntry /\ ~conflict
      /\ Replaced(Mounted, Now(u)) /\ draft' = u.queue
      /\ UNCHANGED <<events, server, tab, doc, seen, conflict, offered, wire>>
  BY DEF ManualSave, Usable, page, history
<1>2. u = Schedule(c, doc', NewKey(c), seen')
  BY <1>1
<1>. HIDE DEF u
<1>3. Informed(head, results, c, doc' \cup seen') /\ doc' \in Bodies /\ seen' \in Bodies
  BY <1>1, MountedKnows
<1>. QED  BY <1>1, <1>2, <1>3, MountedKnows, SaveKeeps

LEMMA KeepLocalKeeps == ASSUME IInv, KeepLocal PROVE IInv'
<1>. DEFINE s == [c EXCEPT !.accepted = Most(@, head.gen), !.failed = NoEntry]
            u == Schedule(s, doc, NewKey(s), seen')
<1>1. /\ tab = "open" /\ conflict' = FALSE /\ seen' = seen \cup head.body
      /\ Replaced(Mounted, Now(u)) /\ draft' = u.queue
      /\ UNCHANGED <<events, server, tab, doc, offered, wire>>
  BY DEF KeepLocal
<1>2. /\ c \in Controllers /\ PutsInv(head, results, c) /\ c.accepted <= head.gen
      /\ Informed(head, results, c, doc \cup seen) /\ c.accepted \in Nat /\ head.gen \in Nat
      /\ doc \in Bodies /\ seen \in Bodies /\ head.body \in Bodies
  BY <1>1, MountedKnows
<1>3. Most(c.accepted, head.gen) = head.gen
  BY <1>2 DEF Most
<1>4. /\ s \in Controllers /\ s.accepted = head.gen /\ s.failed = NoEntry /\ s.inflight = c.inflight
      /\ s.attempt = c.attempt /\ s.epoch = c.epoch /\ s.flushing = c.flushing /\ s.export = c.export
  BY <1>2, <1>3 DEF Controllers
<1>5. u = Schedule(s, doc', NewKey(s), seen')
  BY <1>1
<1>. HIDE DEF s, u
<1>6. Informed(head, results, s, doc' \cup seen')
  BY <1>1, <1>2, <1>4 DEF Informed
<1>7. PutsInv(head, results, s)
  BY <1>2, <1>4 DEF PutsInv
<1>8. doc' \in Bodies /\ seen' \in Bodies /\ NewKey(s) \in Nat
  <2>1. NewKey(s) \in Nat
    <3>1. s.attempt \in Nat
      BY <1>4 DEF Controllers
    <3>. QED  BY <3>1 DEF NewKey
  <2>2. doc' \in Bodies /\ seen' \in Bodies
    BY <1>1, <1>2 DEF Bodies
  <2>. QED  BY <2>1, <2>2
<1>9. offered' # NoEntry => doc' \subseteq seen'
  BY <1>1 DEF IInv, MountedInv
<1>10. /\ head.body \subseteq doc' \cup seen' /\ conflict' \in BOOLEAN /\ ~conflict'
       /\ offered' \in {offered, NoEntry}
  BY <1>1
<1>11. c.accepted <= s.accepted /\ s.accepted <= head.gen
  <2>1. s.accepted = head.gen
    BY <1>4
  <2>. QED  BY <1>2, <2>1
<1>. QED  BY <1>1, <1>2, <1>4, <1>5, <1>6, <1>7, <1>8, <1>9, <1>10, <1>11, SaveKeeps

LEMMA RecoverKeeps == ASSUME IInv, RecoverLocal PROVE IInv'
<1>. DEFINE s == [c EXCEPT !.accepted = Most(@, offered.gen)]
            u == Schedule(s, offered.body, offered.key, seen)
<1>1. /\ tab = "open" /\ offered # NoEntry /\ offered' = NoEntry /\ doc' = offered.body
      /\ Replaced(Mounted, Now(u)) /\ draft' = u.queue
      /\ UNCHANGED <<events, server, tab, conflict, seen, wire>>
  BY DEF RecoverLocal
<1>2. /\ offered \in Entries /\ offered.gen <= c.accepted /\ doc \subseteq seen
      /\ (conflict => Stuck(head, results, c)) /\ "export" \notin events
  BY <1>1 DEF IInv, SaveType, DraftInv, MountedInv, ConflictInv, ExportInv
<1>3. offered.gen \in Nat /\ offered.key \in Nat /\ offered.body \in Bodies
  BY <1>2 DEF Entries
<1>4. s = c
  <2>1. Most(c.accepted, offered.gen) = c.accepted
    BY <1>1, <1>2, <1>3, MountedKnows DEF Most
  <2>. QED  BY <1>1, <2>1, MountedKnows DEF Controllers
<1>5. u = Schedule(c, doc', offered.key, seen')
  BY <1>1, <1>4
<1>. HIDE DEF s, u
<1>6. Informed(head, results, c, doc' \cup seen')
  BY <1>1, <1>2, MountedKnows, KnowsMore
<1>. QED  BY <1>1, <1>2, <1>3, <1>5, <1>6, MountedKnows, SaveKeeps

LEMMA UseRemoteKeeps == ASSUME IInv, UseRemote PROVE IInv'
<1>. DEFINE off == IF c.export = "wait" THEN "none" ELSE c.export
            t == [c EXCEPT !.accepted = Most(@, head.gen), !.queue = NoEntry,
                           !.failed = NoEntry, !.timer = FALSE, !.attempt = @ + 1,
                           !.export = IF @ = "wait" THEN "none" ELSE @, !.status = ""]
<1>1. /\ tab = "open" /\ conflict /\ conflict' = FALSE /\ doc' = head.body
      /\ seen' = seen \cup head.body /\ Replaced(Mounted, t) /\ draft' \in {draft, NoEntry}
      /\ UNCHANGED <<events, server, tab, offered, wire>>
  BY DEF UseRemote
<1>2. /\ c \in Controllers /\ PutsInv(head, results, c) /\ c.accepted <= head.gen
      /\ c.accepted \in Nat /\ head.gen \in Nat /\ c.attempt \in Nat
      /\ seen \in Bodies /\ head.body \in Bodies
  BY <1>1, MountedKnows DEF Controllers
<1>3. /\ SaveType /\ Stuck(head, results, c) /\ MountedInv /\ DraftInv /\ ExportInv
  BY <1>1 DEF IInv, ConflictInv
<1>4. Most(c.accepted, head.gen) = head.gen
  BY <1>2 DEF Most
<1>5. off \in {"none", "wait", "begun", "sent"} /\ (c.export = "none" => off = "none")
  BY <1>2 DEF Controllers
<1>6. t = [c EXCEPT !.accepted = head.gen, !.queue = NoEntry, !.failed = NoEntry, !.timer = FALSE,
                    !.attempt = c.attempt + 1, !.export = off, !.status = ""]
  BY <1>2, <1>4 DEF Controllers
<1>. HIDE DEF off
<1>7. /\ t \in Controllers /\ t.accepted = head.gen /\ t.queue = NoEntry /\ t.failed = NoEntry
      /\ t.inflight = c.inflight /\ t.attempt = c.attempt + 1 /\ t.epoch = c.epoch
      /\ t.flushing = c.flushing /\ t.export = off
  <2>1. c.attempt + 1 \in Nat
    BY <1>2
  <2>. QED  BY <1>2, <1>5, <1>6, <2>1 DEF Controllers
<1>. HIDE DEF t
<1>8. Informed(head, results, t, doc' \cup seen')
  BY <1>1, <1>3, <1>7 DEF Informed, Stuck
<1>9. PutsInv(head, results, t)
  <2>1. c.inflight # NoEntry => c.inflight.e.n \in Nat
    BY <1>2 DEF Controllers, Puts, Entries
  <2>. QED  BY <1>2, <1>7, <2>1 DEF PutsInv
<1>10. CtlInv(head, results, t)
  BY <1>2, <1>7, <1>9 DEF CtlInv, QueueInv
<1>11. PageInv(head, results, t, tab', doc' \cup seen')
  BY <1>1, <1>7, <1>8 DEF PageInv
<1>12. /\ draft' # NoEntry => draft'.gen <= head.gen /\ tab' # "reading"
       /\ tab' # "reading" /\ doc' \subseteq seen'
  BY <1>1, <1>3 DEF DraftInv
<1>13. offered' # NoEntry => tab' = "open" /\ offered'.gen <= t.accepted
  <2>1. offered # NoEntry => offered.gen \in Nat
    BY <1>3 DEF SaveType, Entries
  <2>. QED  BY <1>1, <1>2, <1>3, <1>7, <2>1 DEF DraftInv
<1>14. IF "export" \in events
       THEN /\ tab' = "open" /\ offered' = NoEntry
            /\ t.flushing = NoEntry /\ t.epoch = 0 /\ head.body \subseteq doc' \cup seen'
       ELSE t.export = "none"
  BY <1>1, <1>3, <1>5, <1>7 DEF ExportInv
<1>15. /\ tab' \in {"closed", "loading", "reading", "open"} /\ doc' \in Bodies /\ seen' \in Bodies
       /\ draft' \in Entries \cup {NoEntry} /\ offered' \in Entries \cup {NoEntry}
       /\ conflict' \in BOOLEAN /\ ~conflict'
  BY <1>1, <1>2, <1>3 DEF SaveType, Bodies
<1>. QED  BY <1>1, <1>10, <1>11, <1>12, <1>13, <1>14, <1>15, PageMoves

\* A step of the page that leaves its controller alone.
LEMMA PageOnly ==
    ASSUME IInv, UNCHANGED <<events, server, ctl, wire, doc, seen>>,
           tab' \in {"closed", "loading", "reading", "open"},
           PageInv(head, results, c, tab', doc \cup seen),
           tab' = "reading" \/ offered' # NoEntry => doc \subseteq seen,
           draft' \in {draft, NoEntry}, tab' # "reading",
           offered' \in Entries \cup {NoEntry},
           offered' # NoEntry => tab' = "open" /\ offered'.gen <= c.accepted,
           conflict' \in BOOLEAN, conflict' => tab' = "open" /\ Stuck(head, results, c),
           "export" \in events => tab' = "open" /\ offered' = NoEntry
    PROVE  IInv'
<1>1. Mounted \in DOMAIN ctl /\ c = ctl[Mounted] /\ CtlInv(head, results, c)
  BY MountedIs
<1>2. Replaced(Mounted, c)
  <2>1. ctl' = [ctl EXCEPT ![Mounted] = c]
    BY <1>1 DEF IInv, SaveType
  <2>. QED  BY <2>1 DEF Replaced
<1>3. /\ doc' = doc /\ seen' = seen /\ doc' \in Bodies /\ seen' \in Bodies
      /\ draft' \in Entries \cup {NoEntry}
  BY DEF IInv, SaveType
<1>4. draft' # NoEntry => draft'.gen <= head.gen
  BY DEF IInv, DraftInv
<1>5. IF "export" \in events
      THEN c.flushing = NoEntry /\ c.epoch = 0 /\ head.body \subseteq doc \cup seen
      ELSE c.export = "none"
  BY DEF IInv, ExportInv
<1>. QED  BY <1>1, <1>2, <1>3, <1>4, <1>5, PageMoves

LEMMA DialogKeeps == ASSUME IInv, CloseConflict \/ DismissDraft \/ DeferDraft PROVE IInv'
<1>1. /\ UNCHANGED <<events, server, ctl, wire, doc, seen>> /\ tab = "open" /\ tab' = tab
      /\ draft' \in {draft, NoEntry} /\ offered' \in {offered, NoEntry}
      /\ conflict' \in {conflict, FALSE}
  BY ClearedIs DEF CloseConflict, DismissDraft, DeferDraft, history
<1>2. SaveType /\ MountedInv /\ DraftInv /\ ConflictInv /\ ExportInv
  BY DEF IInv
<1>3. /\ PageInv(head, results, c, tab', doc \cup seen) /\ tab' # "reading"
      /\ offered' # NoEntry => doc \subseteq seen
  BY <1>1, <1>2 DEF MountedInv
<1>4. /\ offered' \in Entries \cup {NoEntry}
      /\ offered' # NoEntry => offered'.gen <= c.accepted
  BY <1>1, <1>2 DEF SaveType, DraftInv
<1>5. conflict' \in BOOLEAN /\ (conflict' => Stuck(head, results, c))
  <2>1. conflict \in BOOLEAN /\ (conflict => Stuck(head, results, c))
    BY <1>2 DEF SaveType, ConflictInv
  <2>2. CASE conflict' = conflict
    BY <2>1, <2>2
  <2>3. CASE conflict' = FALSE
    BY <2>3
  <2>. QED  BY <1>1, <2>2, <2>3
<1>6. "export" \in events => offered' = NoEntry
  BY <1>1, <1>2 DEF ExportInv
<1>. QED  BY <1>1, <1>3, <1>4, <1>5, <1>6, PageOnly

LEMMA OpenKeeps == ASSUME IInv, Open PROVE IInv'
<1>1. /\ UNCHANGED <<events, server, ctl, wire, doc, seen, draft, offered, conflict>>
      /\ tab = "closed" /\ tab' = "loading"
  BY DEF Open, history
<1>2. SaveType /\ MountedInv /\ DraftInv /\ ConflictInv /\ ExportInv
  BY DEF IInv
<1>3. offered = NoEntry /\ ~conflict /\ "export" \notin events /\ conflict \in BOOLEAN
  BY <1>1, <1>2 DEF DraftInv, ConflictInv, ExportInv, SaveType
<1>4. PageInv(head, results, c, tab', doc \cup seen)
  BY <1>1, <1>2 DEF MountedInv, PageInv
<1>. QED  BY <1>1, <1>3, <1>4, PageOnly

LEMMA DraftReadKeeps == ASSUME IInv, DraftRead PROVE IInv'
<1>1. /\ UNCHANGED <<events, server, ctl, wire, doc, seen, draft, conflict>>
      /\ tab = "reading" /\ tab' = "open" /\ offered' = draft
  BY DEF DraftRead, history
<1>2. SaveType /\ MountedInv /\ DraftInv /\ ConflictInv /\ ExportInv
  BY DEF IInv
<1>3. /\ ~conflict /\ "export" \notin events /\ conflict \in BOOLEAN /\ doc \subseteq seen
      /\ draft \in Entries \cup {NoEntry} /\ (draft # NoEntry => draft.gen <= c.accepted)
  BY <1>1, <1>2 DEF DraftInv, ConflictInv, ExportInv, SaveType, MountedInv
<1>4. PageInv(head, results, c, tab', doc \cup seen)
  BY <1>1, <1>2 DEF MountedInv, PageInv
<1>. QED  BY <1>1, <1>3, <1>4, PageOnly

LEMMA LoadKeeps == ASSUME IInv, LoadArrives PROVE IInv'
<1>. DEFINE t == [c EXCEPT !.accepted = Most(@, head.gen)]
<1>1. /\ UNCHANGED <<events, server, wire, draft, offered, conflict>> /\ Replaced(Mounted, t)
      /\ tab = "loading" /\ tab' = "reading" /\ doc' = head.body /\ seen' = seen \cup head.body
  BY DEF LoadArrives
<1>2. /\ SaveType /\ MountedInv /\ DraftInv /\ ConflictInv /\ ExportInv
      /\ head.gen \in Nat /\ head.body \in Bodies
  BY DEF IInv, World, HeadsOfDeck
<1>3. /\ offered = NoEntry /\ ~conflict /\ "export" \notin events /\ conflict \in BOOLEAN
      /\ c.export = "none" /\ draft \in Entries \cup {NoEntry} /\ seen \in Bodies
      /\ draft # NoEntry => draft.gen <= head.gen
  BY <1>1, <1>2 DEF DraftInv, ConflictInv, ExportInv, SaveType
<1>4. /\ c \in Controllers /\ CtlInv(head, results, c) /\ c.accepted \in Nat /\ c.accepted <= head.gen
      /\ c.queue = NoEntry /\ c.failed = NoEntry
      /\ c.inflight # NoEntry => c.inflight.e.epoch < c.epoch
  BY <1>1, <1>2, MountedIs DEF CtlInv, Controllers, MountedInv, PageInv
<1>5. Most(c.accepted, head.gen) = head.gen
  BY <1>2, <1>4 DEF Most
<1>6. /\ t \in Controllers /\ t.accepted = head.gen /\ t.queue = NoEntry /\ t.failed = NoEntry
      /\ t.inflight = c.inflight /\ t.attempt = c.attempt /\ t.epoch = c.epoch
      /\ t.flushing = c.flushing /\ t.export = "none"
  BY <1>2, <1>3, <1>4, <1>5 DEF Controllers
<1>. HIDE DEF t
<1>7. t.accepted <= head.gen
  BY <1>2, <1>6
<1>8. CtlInv(head, results, t)
  BY <1>4, <1>6, <1>7 DEF CtlInv, QueueInv, PutsInv
<1>9. c.inflight # NoEntry => c.inflight.e.epoch # c.epoch
  <2>1. c.epoch \in Nat
    BY <1>4 DEF Controllers
  <2>. QED  BY <1>4, <2>1
<1>10. PageInv(head, results, t, tab', doc' \cup seen')
  BY <1>1, <1>4, <1>6, <1>9 DEF PageInv, Informed
<1>11. doc' \in Bodies /\ seen' \in Bodies /\ doc' \subseteq seen'
  BY <1>1, <1>2, <1>3 DEF Bodies
<1>. QED  BY <1>1, <1>3, <1>6, <1>8, <1>10, <1>11, PageMoves

-----------------------------------------------------------------------------
(* Leaving the deck *)

\* What the ways to leave have in common.
LEMMA LeaveIs ==
    ASSUME IInv, ExportsAlone, NEW how \in {"switch", "unmount", "close"}, Leave(how)
    PROVE  /\ tab' = "closed" /\ conflict' = FALSE /\ offered' = NoEntry
           /\ UNCHANGED <<events, doc, seen>>
           /\ "export" \notin events /\ c.export = "none"
<1>1. /\ tab' = "closed" /\ conflict' = FALSE /\ offered' = NoEntry /\ how \in events
      /\ UNCHANGED <<events, doc, seen>>
  BY DEF Leave, history
<1>2. events \in Workloads
  BY DEF IInv, SaveType
<1>3. "export" \notin events
  BY <1>1, <1>2 DEF ExportsAlone
<1>. QED  BY <1>1, <1>3 DEF IInv, ExportInv

LEMMA SwitchKeeps == ASSUME IInv, ExportsAlone, SwitchRoute PROVE IInv'
<1>. DEFINE f == Flushed(c)
            t == ResetForRoute(c)
<1>1. Replaced(Mounted, t) /\ UNCHANGED <<server, draft, wire>> /\ Leave("switch")
  BY DEF SwitchRoute
<1>2. /\ tab' = "closed" /\ conflict' = FALSE /\ offered' = NoEntry
      /\ UNCHANGED <<events, doc, seen>> /\ "export" \notin events
  BY <1>1, LeaveIs
<1>3. CtlInv(head, results, c)
  BY MountedIs
<1>4. CtlInv(head, results, f) /\ f \in Controllers
  BY <1>3, FlushedKeeps DEF CtlInv
<1>5. t = [f EXCEPT !.queue = NoEntry, !.failed = NoEntry, !.export = "none",
                    !.attempt = @ + 1, !.epoch = @ + 1, !.accepted = 0, !.status = ""]
  BY DEF ResetForRoute
<1>. HIDE DEF f
<1>6. f.attempt \in Nat /\ f.epoch \in Nat /\ head.gen \in Nat
  BY <1>4 DEF Controllers, IInv, World, HeadsOfDeck
<1>7. /\ t \in Controllers /\ t.queue = NoEntry /\ t.failed = NoEntry /\ t.accepted = 0
      /\ t.attempt = f.attempt + 1 /\ t.epoch = f.epoch + 1 /\ t.export = "none"
      /\ t.inflight = f.inflight /\ t.flushing = f.flushing
  <2>1. t = [f EXCEPT !.queue = NoEntry, !.failed = NoEntry, !.export = "none",
                      !.attempt = f.attempt + 1, !.epoch = f.epoch + 1, !.accepted = 0, !.status = ""]
    BY <1>4, <1>5 DEF Controllers
  <2>2. f.attempt + 1 \in Nat /\ f.epoch + 1 \in Nat /\ 0 \in Nat
    BY <1>6
  <2>. QED  BY <1>4, <2>1, <2>2 DEF Controllers
<1>. HIDE DEF t
<1>8. f.inflight # NoEntry =>
        f.inflight.e.n < t.attempt /\ f.inflight.e.epoch < t.epoch
        /\ f.inflight.e.n <= t.attempt /\ f.inflight.e.epoch <= t.epoch
  <2>1. f.inflight # NoEntry => f.inflight.e.n \in Nat /\ f.inflight.e.epoch \in Nat
    BY <1>4 DEF Controllers, Puts, Entries
  <2>2. f.inflight # NoEntry => f.inflight.e.n <= f.attempt /\ f.inflight.e.epoch <= f.epoch
    BY <1>4 DEF CtlInv, PutsInv
  <2>. QED  BY <1>6, <1>7, <2>1, <2>2
<1>9. PutsInv(head, results, t)
  BY <1>4, <1>7, <1>8 DEF CtlInv, PutsInv
<1>10. t.accepted <= head.gen
  BY <1>6, <1>7
<1>11. CtlInv(head, results, t)
  BY <1>7, <1>9, <1>10 DEF CtlInv, QueueInv
<1>12. PageInv(head, results, t, tab', doc' \cup seen')
  BY <1>2, <1>7, <1>8 DEF PageInv
<1>13. /\ doc' \in Bodies /\ seen' \in Bodies /\ draft' \in Entries \cup {NoEntry}
       /\ draft' # NoEntry => draft'.gen <= head.gen
  BY <1>1, <1>2 DEF IInv, SaveType, DraftInv
<1>. QED  BY <1>1, <1>2, <1>7, <1>11, <1>12, <1>13, PageMoves

\* A controller that has not saved anything
LEMMA FreshIs ==
    ASSUME NEW h \in HeadsOfDeck, NEW rs, NEW n \in Nat
    PROVE  LET t == Fresh(n)
           IN  /\ CtlInv(h, rs, t) /\ t.accepted = 0
               /\ t.queue = NoEntry /\ t.failed = NoEntry /\ t.inflight = NoEntry
               /\ t.flushing = NoEntry /\ t.epoch = 0 /\ t.export = "none"
<1>. DEFINE t == Fresh(n)
<1>1. /\ t \in Controllers /\ t.accepted = 0 /\ t.attempt = n /\ t.epoch = 0
      /\ t.queue = NoEntry /\ t.failed = NoEntry /\ t.inflight = NoEntry
      /\ t.flushing = NoEntry /\ t.export = "none"
  BY DEF Fresh, Controllers
<1>. HIDE DEF t
<1>2. h.gen \in Nat
  BY DEF HeadsOfDeck
<1>3. CtlInv(h, rs, t)
  BY <1>1, <1>2 DEF CtlInv, QueueInv, PutsInv
<1>. QED  BY <1>1, <1>3 DEF t

\* The page is closed and the next one has a controller of its own.
LEMMA PageLeft ==
    ASSUME IInv, "export" \notin events, UNCHANGED <<events, doc, seen>>,
           tab' = "closed", conflict' = FALSE, offered' = NoEntry, draft' \in {draft, NoEntry},
           Onward(head, results, head', results'), World(head', results'), silent' = {},
           ctl' \in Seq(Controllers), Len(ctl') > 0,
           \A i \in DOMAIN ctl' : i # Len(ctl') => CtlInv(head', results', ctl'[i]),
           NEW n \in Nat, ctl'[Len(ctl')] = Fresh(n),
           wire' \subseteq Puts, \A p \in wire' : Safe(head', p.e)
    PROVE  IInv'
<1>1. /\ head \in HeadsOfDeck /\ head' \in HeadsOfDeck
      /\ head.gen \in Nat /\ head'.gen \in Nat /\ head'.gen >= head.gen
  BY DEF IInv, World, HeadsOfDeck, Onward, Advances
<1>2. c' = Fresh(n) /\ Len(ctl') \in DOMAIN ctl'
  BY DEF c, Mounted
<1>3. /\ CtlInv(head', results', c')
      /\ c'.queue = NoEntry /\ c'.failed = NoEntry /\ c'.inflight = NoEntry /\ c'.export = "none"
  <2>1. /\ CtlInv(head', results', Fresh(n))
        /\ LET t == Fresh(n)
           IN  t.queue = NoEntry /\ t.failed = NoEntry /\ t.inflight = NoEntry /\ t.export = "none"
    BY <1>1, FreshIs
  <2>. QED  BY <1>2, <2>1
<1>4. CtlsInv'
  BY <1>2, <1>3 DEF CtlsInv
<1>5. SaveType'
  BY DEF IInv, SaveType
<1>6. MountedInv'
  BY <1>3 DEF MountedInv, PageInv
<1>7. DraftInv'
  <2>1. draft # NoEntry => draft.gen \in Nat /\ draft.gen <= head.gen
    BY DEF IInv, SaveType, DraftInv, Entries
  <2>. QED  BY <1>1, <2>1 DEF DraftInv
<1>8. ConflictInv' /\ WireInv' /\ ExportInv'
  BY <1>3 DEF ConflictInv, WireInv, ExportInv
<1>. QED  BY <1>4, <1>5, <1>6, <1>7, <1>8 DEF IInv

LEMMA UnmountKeeps == ASSUME IInv, ExportsAlone, Unmount PROVE IInv'
<1>. DEFINE f == Flushed(c)
            t == [f EXCEPT !.export = "none"]
            left == [ctl EXCEPT ![Mounted] = t]
            new == Fresh(c.attempt)
<1>1. ctl' = Append(left, new) /\ UNCHANGED <<server, draft, wire>> /\ Leave("unmount")
  BY DEF Unmount
<1>2. /\ tab' = "closed" /\ conflict' = FALSE /\ offered' = NoEntry
      /\ UNCHANGED <<events, doc, seen>> /\ "export" \notin events /\ c.export = "none"
  BY <1>1, LeaveIs
<1>3. /\ Mounted \in DOMAIN ctl /\ CtlInv(head, results, c) /\ c \in Controllers
      /\ ctl \in Seq(Controllers) /\ CtlsInv /\ World(head, results) /\ silent = {}
      /\ wire \subseteq Puts /\ WireInv /\ head \in HeadsOfDeck /\ head.gen \in Nat
      /\ head' = head /\ results' = results /\ silent' = silent
  BY <1>1, MountedIs DEF IInv, SaveType, server, World, HeadsOfDeck
<1>4. CtlInv(head, results, f) /\ f \in Controllers /\ f.export = "none"
  BY <1>2, <1>3, FlushedKeeps DEF CtlInv
<1>. HIDE DEF f
<1>5. t = f
  BY <1>4 DEF Controllers
<1>. HIDE DEF t
<1>6. /\ left \in Seq(Controllers) /\ Len(left) = Len(ctl)
      /\ \A i \in DOMAIN left : CtlInv(head, results, left[i])
  BY <1>3, <1>4, <1>5 DEF CtlsInv
<1>. HIDE DEF left
<1>7. c.attempt \in Nat /\ new \in Controllers
  <2>1. c.attempt \in Nat
    BY <1>3 DEF Controllers
  <2>. QED  BY <2>1 DEF Fresh, Controllers
<1>. HIDE DEF new
<1>8. /\ ctl' \in Seq(Controllers) /\ Len(ctl') = Len(left) + 1 /\ ctl'[Len(ctl')] = new
      /\ \A i \in DOMAIN left : ctl'[i] = left[i]
      /\ \A i \in DOMAIN ctl' : i # Len(ctl') => i \in DOMAIN left
  BY <1>1, <1>6, <1>7
<1>9. Len(ctl') > 0
  BY <1>6, <1>8
<1>10. Onward(head, results, head', results') /\ World(head', results') /\ silent' = {}
  BY <1>3 DEF Onward
<1>11. \A i \in DOMAIN ctl' : i # Len(ctl') => CtlInv(head', results', ctl'[i])
  BY <1>3, <1>6, <1>8
<1>12. wire' \subseteq Puts /\ \A p \in wire' : Safe(head', p.e)
  BY <1>1, <1>3 DEF WireInv
<1>. QED  BY <1>1, <1>2, <1>7, <1>8, <1>9, <1>10, <1>11, <1>12, PageLeft DEF new

\* The requests of a page go on when it unloads.
LEMMA CloseKeeps == ASSUME IInv, ExportsAlone, ClosePage PROVE IInv'
<1>. DEFINE puts(i) == PutsOf(IF i = Mounted THEN Flushed(c) ELSE ctl[i])
            e == FlushEntry(c)
<1>1. /\ ctl' = <<Fresh(c.attempt)>> /\ wire' = wire \cup UNION {puts(i) : i \in DOMAIN ctl}
      /\ Leave("close") /\ draft' \in {draft, NoEntry}
      /\ UNCHANGED server \/ (CanFlush(c) /\ Serve(e))
  BY ClearedIs DEF ClosePage
<1>2. /\ tab' = "closed" /\ conflict' = FALSE /\ offered' = NoEntry
      /\ UNCHANGED <<events, doc, seen>> /\ "export" \notin events
  BY <1>1, LeaveIs
<1>3. /\ CtlInv(head, results, c) /\ c \in Controllers /\ CtlsInv /\ World(head, results)
      /\ silent = {} /\ wire \subseteq Puts /\ WireInv
  BY MountedIs DEF IInv, SaveType
<1>4. Onward(head, results, head', results') /\ World(head', results') /\ silent' = {}
  <2>1. CASE UNCHANGED server
    BY <1>3, <2>1 DEF Onward, server
  <2>2. CASE CanFlush(c) /\ Serve(e)
    <3>1. e \in Entries /\ Safe(head, e)
      BY <1>3, <2>2 DEF CanFlush, FlushEntry, CtlInv, QueueInv, PutsInv, Controllers
    <3>. QED  BY <1>3, <2>2, <3>1, ServeMoves
  <2>. QED  BY <1>1, <2>1, <2>2
<1>5. ASSUME NEW i \in DOMAIN ctl PROVE \A p \in puts(i) : p \in Puts /\ Safe(head, p.e)
  <2>. DEFINE s == IF i = Mounted THEN Flushed(c) ELSE ctl[i]
  <2>1. CtlInv(head, results, s)
    BY <1>3, FlushedKeeps DEF CtlsInv
  <2>. HIDE DEF s
  <2>2. s \in Controllers /\ PutsInv(head, results, s)
    BY <2>1 DEF CtlInv
  <2>3. ASSUME NEW p \in PutsOf(s) PROVE p \in Puts /\ Safe(head, p.e)
    BY <2>2 DEF PutsOf, PutsInv, Controllers
  <2>. QED  BY <2>3 DEF s
<1>. HIDE DEF puts
<1>6. wire' \subseteq Puts /\ \A p \in wire' : Safe(head, p.e)
  BY <1>1, <1>3, <1>5 DEF WireInv
<1>7. ASSUME NEW p \in wire' PROVE Safe(head', p.e)
  <2>1. p.e \in Entries /\ Safe(head, p.e)
    BY <1>6 DEF Puts
  <2>. QED  BY <1>3, <1>4, <2>1, HopeFades DEF Onward
<1>8. c.attempt \in Nat /\ Fresh(c.attempt) \in Controllers
  <2>1. c.attempt \in Nat
    BY <1>3 DEF Controllers
  <2>. QED  BY <2>1 DEF Fresh, Controllers
<1>9. /\ ctl' \in Seq(Controllers) /\ Len(ctl') = 1 /\ ctl'[Len(ctl')] = Fresh(c.attempt)
      /\ \A i \in DOMAIN ctl' : i = Len(ctl')
  BY <1>1, <1>8
<1>10. Len(ctl') > 0 /\ \A i \in DOMAIN ctl' : i # Len(ctl') => CtlInv(head', results', ctl'[i])
  BY <1>9
<1>11. draft' \in {draft, NoEntry}
  BY <1>1
<1>. QED  BY <1>2, <1>4, <1>6, <1>7, <1>8, <1>9, <1>10, <1>11, PageLeft

-----------------------------------------------------------------------------
(* Every step keeps the invariant. *)

LEMMA Initially == ASSUME Init PROVE IInv
<1>. DEFINE t == [Fresh(0) EXCEPT !.accepted = 1]
<1>1. head \in HeadsOfDeck /\ head.gen = 1 /\ head.body = {}
  BY DEF Init, HeadsOfDeck, Bodies
<1>2. World(head, results) /\ silent = {}
  BY <1>1 DEF Init, World
<1>3. /\ CtlInv(head, results, t) /\ t \in Controllers
      /\ t.queue = NoEntry /\ t.failed = NoEntry /\ t.inflight = NoEntry
      /\ t.flushing = NoEntry /\ t.epoch = 0 /\ t.export = "none"
  <2>. DEFINE zero == 0
              s == Fresh(zero)
  <2>1. zero \in Nat
    OBVIOUS
  <2>2. t = [s EXCEPT !.accepted = 1]
    OBVIOUS
  <2>. HIDE DEF zero
  <2>3. s \in Controllers /\ PutsInv(head, results, s) /\ s.queue = NoEntry /\ s.failed = NoEntry
        /\ s.inflight = NoEntry /\ s.flushing = NoEntry /\ s.epoch = 0 /\ s.export = "none"
    BY <1>1, <2>1, FreshIs DEF CtlInv
  <2>. HIDE DEF s
  <2>4. /\ t \in Controllers /\ t.accepted = 1 /\ t.queue = NoEntry /\ t.failed = NoEntry
        /\ t.inflight = NoEntry /\ t.flushing = NoEntry /\ t.epoch = 0 /\ t.export = "none"
    BY <2>2, <2>3 DEF Controllers
  <2>. HIDE DEF t
  <2>5. t.accepted <= head.gen
    BY <1>1, <2>4
  <2>. QED  BY <2>4, <2>5 DEF CtlInv, QueueInv, PutsInv
<1>4. /\ ctl \in Seq(Controllers) /\ Len(ctl) = 1 /\ c = t /\ \A i \in DOMAIN ctl : ctl[i] = t
  <2>1. ctl = <<t>>
    BY DEF Init, t
  <2>. QED  BY <1>3, <2>1 DEF c, Mounted
<1>5. SaveType
  <2>1. /\ events \in Workloads /\ tab = "open" /\ doc = {} /\ seen = {} /\ conflict = FALSE
        /\ draft = NoEntry /\ offered = NoEntry /\ wire = {}
    BY DEF Init
  <2>2. Len(ctl) > 0
    BY <1>4
  <2>. QED  BY <1>4, <2>1, <2>2 DEF SaveType, Bodies
<1>6. CtlsInv /\ WireInv /\ DraftInv /\ ConflictInv
  BY <1>3, <1>4 DEF Init, CtlsInv, WireInv, DraftInv, ConflictInv
<1>7. MountedInv
  BY <1>1, <1>3, <1>4 DEF Init, MountedInv, PageInv, Informed
<1>8. ExportInv
  BY <1>1, <1>3, <1>4 DEF Init, ExportInv
<1>. QED  BY <1>2, <1>5, <1>6, <1>7, <1>8 DEF IInv

LEMMA Inductive == ASSUME IInv, ExportsAlone, [Next]_vars PROVE IInv'
<1>1. ASSUME User PROVE IInv'
  BY <1>1, EditKeeps, ManualKeeps, RetryKeeps, DialogKeeps, KeepLocalKeeps, UseRemoteKeeps,
     SwitchKeeps, UnmountKeeps, CloseKeeps, OpenKeeps, RecoverKeeps, StartExportKeeps DEF User
<1>2. ASSUME NEW i \in DOMAIN ctl, Background(i) PROVE IInv'
  BY <1>2, DeliverSaveKeeps, DeliverFlushKeeps, SaveAnsweredKeeps, FlushAnsweredKeeps, TimerKeeps
     DEF Background
<1>3. ASSUME UNCHANGED vars PROVE IInv'
  BY <1>3 DEF vars, server, page, history, IInv, SaveType, CtlsInv, WireInv, MountedInv, DraftInv,
     ConflictInv, ExportInv, c, Mounted
<1>. QED
  BY <1>1, <1>2, <1>3, LoadKeeps, DraftReadKeeps, ReadFidelityKeeps, ExportAnsweredKeeps, LateKeeps,
     RemoteKeeps DEF Next, Exports

LEMMA Invariant == ASSUME ExportsAlone PROVE Spec => []IInv
<1>1. Init => IInv
  BY Initially
<1>2. IInv /\ [Next]_vars => IInv'
  BY Inductive
<1>. QED  BY <1>1, <1>2, PTL DEF Spec

-----------------------------------------------------------------------------
\* Whatever is lost, delayed, retried, replayed or handed over from page to page, a save
\* of the editor never drops what another client or an earlier page has saved unless
\* the user was shown it (scheduleSave(), adoptGeneration(), savePackageProjection());
\* exports are not combined with other writers, which the run editor_export needs.
THEOREM SavesDropNothingUnseen ==
    ASSUME ExportsAlone PROVE Spec => []NoSilentOverwrite
<1>1. Spec => []IInv
  BY Invariant
<1>2. IInv => NoSilentOverwrite
  BY DEF IInv, NoSilentOverwrite
<1>. QED  BY <1>1, <1>2, PTL

-----------------------------------------------------------------------------
(* Types *)

\* What the invariant does not say of the types: the generation, the bounds, the histories.
Tally ==
    /\ head.gen \in Nat \ {0}
    /\ bounds \in [save : 0 .. MaxSaves, loss : 0 .. MaxLoss, leave : 0 .. MaxLeave,
                   export : 0 .. MaxExport]
    /\ {made, dropped, shelved} \subseteq Bodies

LEMMA HeadGrows ==
    ASSUME World(head, results), Next
    PROVE  head' = head \/ head'.gen = head.gen + 1
<1>1. \A e : Serve(e) => head' = head \/ head'.gen = head.gen + 1
  BY DEF Serve, server
<1>2. UNCHANGED server => head' = head
  BY DEF server
<1>3. ASSUME NEW p, NEW q, Delivered(p, q) PROVE head' = head \/ head'.gen = head.gen + 1
  BY <1>1, <1>2, <1>3 DEF Delivered
<1>4. ASSUME ExportAnswered PROVE head' = head \/ head'.gen = head.gen + 1
  BY <1>4 DEF ExportAnswered, World, HeadsOfDeck
<1>5. ASSUME NEW i \in DOMAIN ctl, Background(i) PROVE head' = head \/ head'.gen = head.gen + 1
  BY <1>2, <1>3, <1>5 DEF Background, DeliverSave, DeliverFlush, SaveAnswered, FlushAnswered, TimerFires
<1>6. ASSUME User PROVE head' = head \/ head'.gen = head.gen + 1
  BY <1>1, <1>2, <1>6 DEF User, EditDoc, ManualSave, RetrySave, CloseConflict, KeepLocal, UseRemote,
     SwitchRoute, Unmount, ClosePage, Open, RecoverLocal, DismissDraft, DeferDraft, StartExport
<1>7. ASSUME NEW p \in wire, DeliverLate(p) PROVE head' = head \/ head'.gen = head.gen + 1
  BY <1>1, <1>2, <1>7 DEF DeliverLate
<1>8. ASSUME NEW r \in RemoteEdit, RemoteSave(r) PROVE head' = head \/ head'.gen = head.gen + 1
  BY <1>8 DEF RemoteSave
<1>9. LoadArrives \/ DraftRead \/ ReadFidelity => UNCHANGED server
  BY DEF LoadArrives, DraftRead, ReadFidelity
<1>. QED  BY <1>2, <1>4, <1>5, <1>6, <1>7, <1>8, <1>9 DEF Next, Exports

\* A bound grows by one where a guard leaves room.
LEMMA BoundsGrow ==
    ASSUME Next
    PROVE  \/ UNCHANGED bounds
           \/ bounds.save < MaxSaves /\ bounds' = [bounds EXCEPT !.save = @ + 1]
           \/ bounds.loss < MaxLoss /\ bounds' = [bounds EXCEPT !.loss = @ + 1]
           \/ bounds.leave < MaxLeave /\ bounds' = [bounds EXCEPT !.leave = @ + 1]
           \/ bounds.export < MaxExport /\ bounds' = [bounds EXCEPT !.export = @ + 1]
<1>1. CASE \E i \in DOMAIN ctl : Background(i)
  BY <1>1 DEF Background, DeliverSave, DeliverFlush, Delivered, SaveAnswered, FlushAnswered, TimerFires
<1>2. CASE User
  BY <1>2 DEF User, Saves, Leave, EditDoc, ManualSave, RetrySave, CloseConflict, KeepLocal, UseRemote,
     SwitchRoute, Unmount, ClosePage, Open, RecoverLocal, DismissDraft, DeferDraft, StartExport
<1>3. CASE (\E p \in wire : DeliverLate(p)) \/ (\E r \in RemoteEdit : RemoteSave(r))
  BY <1>3 DEF DeliverLate, RemoteSave
<1>4. CASE LoadArrives \/ DraftRead \/ Exports
  BY <1>4 DEF LoadArrives, DraftRead, Exports, ReadFidelity, ExportAnswered
<1>. QED  BY <1>1, <1>2, <1>3, <1>4 DEF Next

\* The histories gain edits the user made and parts of bodies at hand.
LEMMA HistoriesGrow ==
    ASSUME IInv, Tally, Next
    PROVE  {made', dropped', shelved'} \subseteq Bodies
<1>1. doc \in Bodies /\ head.body \in Bodies /\ (offered # NoEntry => offered.body \in Bodies)
  BY DEF IInv, SaveType, World, HeadsOfDeck, Entries
<1>2. made \in Bodies /\ dropped \in Bodies /\ shelved \in Bodies
  BY DEF Tally
<1>3. CASE User
  <2>1. CASE \E e \in Edit : EditDoc(e)
    BY <1>2, <2>1 DEF EditDoc, Bodies
  <2>2. CASE KeepLocal \/ UseRemote
    BY <1>1, <1>2, <2>2 DEF KeepLocal, UseRemote, Bodies
  <2>3. CASE RecoverLocal \/ DismissDraft \/ DeferDraft
    BY <1>1, <1>2, <2>3 DEF RecoverLocal, DismissDraft, DeferDraft, Bodies
  <2>4. CASE SwitchRoute \/ Unmount \/ ClosePage
    BY <1>2, <2>4 DEF SwitchRoute, Unmount, ClosePage, Leave, history
  <2>5. CASE ManualSave \/ RetrySave \/ CloseConflict \/ Open \/ StartExport
    BY <1>2, <2>5 DEF ManualSave, RetrySave, CloseConflict, Open, StartExport, history
  <2>. QED  BY <1>3, <2>1, <2>2, <2>3, <2>4, <2>5 DEF User
<1>4. CASE LoadArrives \/ DraftRead \/ Exports
  BY <1>2, <1>4 DEF LoadArrives, DraftRead, Exports, ReadFidelity, ExportAnswered, history
<1>5. CASE \E i \in DOMAIN ctl : Background(i)
  BY <1>2, <1>5 DEF Background, DeliverSave, DeliverFlush, SaveAnswered, FlushAnswered, TimerFires, history
<1>6. CASE (\E p \in wire : DeliverLate(p)) \/ (\E r \in RemoteEdit : RemoteSave(r))
  BY <1>2, <1>6 DEF DeliverLate, RemoteSave, history
<1>. QED  BY <1>3, <1>4, <1>5, <1>6 DEF Next

LEMMA TallyKeeps == ASSUME IInv, Tally, [Next]_vars PROVE Tally'
<1>1. CASE UNCHANGED vars
  BY <1>1 DEF vars, server, history, Tally
<1>2. CASE Next
  <2>1. head'.gen \in Nat \ {0}
    BY <1>2, HeadGrows DEF IInv, Tally
  <2>2. bounds' \in [save : 0 .. MaxSaves, loss : 0 .. MaxLoss, leave : 0 .. MaxLeave,
                     export : 0 .. MaxExport]
    BY <1>2, BoundsGrow, EditorConstants DEF Tally
  <2>. QED  BY <1>2, <2>1, <2>2, HistoriesGrow DEF Tally
<1>. QED  BY <1>1, <1>2

\* The type invariant of the editor, its controllers and the server, for any number of
\* saves, pages and losses, under the same hypothesis.
THEOREM SavesAreWellTyped ==
    ASSUME ExportsAlone PROVE Spec => []TypeOK
<1>1. Spec => []IInv
  BY Invariant
<1>2. Init => Tally
  BY EditorConstants DEF Init, Tally, Bodies
<1>3. IInv /\ Tally /\ [Next]_vars => Tally'
  BY TallyKeeps
<1>4. IInv /\ Tally => TypeOK
  <2>. SUFFICES ASSUME IInv, Tally PROVE TypeOK
    OBVIOUS
  <2>1. head \in [gen : Nat \ {0}, body : Bodies]
    BY DEF IInv, Tally, World, HeadsOfDeck
  <2>2. \A r \in results : r \in [n : Nat, key : Nat, from : Nat, body : Bodies, gen : Nat]
    BY DEF IInv, World, Results
  <2>3. ASSUME NEW i \in DOMAIN ctl
        PROVE  /\ {ctl[i].queue, ctl[i].failed} \subseteq Entries \cup {NoEntry}
               /\ {ctl[i].inflight, ctl[i].flushing} \subseteq Puts \cup {NoEntry}
               /\ ~(ctl[i].inflight # NoEntry /\ ctl[i].flushing # NoEntry)
               /\ ctl[i].timer \in BOOLEAN
               /\ {ctl[i].accepted, ctl[i].attempt, ctl[i].epoch, ctl[i].exportGen} \subseteq Nat
               /\ ctl[i].export \in {"none", "wait", "begun", "sent"}
               /\ ctl[i].status \in {"", "saving", "saved", "error"}
    <3>1. ctl[i] \in Controllers /\ PutsInv(head, results, ctl[i])
      BY DEF IInv, CtlsInv, CtlInv
    <3>. QED  BY <3>1 DEF Controllers, PutsInv
  <2>4. seen \in Bodies /\ silent \in Bodies
    BY DEF IInv, SaveType, Bodies
  <2>. QED  BY <2>1, <2>2, <2>3, <2>4 DEF TypeOK, Tally, IInv, SaveType
<1>. QED  BY <1>1, <1>2, <1>3, <1>4, PTL DEF Spec

-----------------------------------------------------------------------------
(* The order of saves.  A save has a number, its attempt, and a key, which a   *)
(* recovered draft inherits; both grow together.                              *)

\* The entries a controller keeps beside its queue, and all of them.
Others(s) == ({s.failed} \ {NoEntry}) \cup {p.e : p \in {s.inflight, s.flushing} \ {NoEntry}}
Slots(s) == Others(s) \cup ({s.queue} \ {NoEntry})

\* Every entry that may still reach the server, and with them the saves that have.
Pending == {x \in Entries : (\E i \in DOMAIN ctl : x \in Slots(ctl[i])) \/ \E p \in wire : x = p.e}
Known == Pending \cup results

MayCommit(e) == e.gen = head.gen /\ \A r \in results : r.key # e.key

\* The queue is newer than what was sent and expects what the controller accepted; an
\* export begins only when nothing else is to be sent.
Tidy(s) ==
    /\ s.queue # NoEntry => s.queue.gen = s.accepted /\ \A x \in Others(s) : x.n < s.queue.n
    /\ Exporting(s) => s.failed = NoEntry /\ s.inflight = NoEntry

\* A controller that has not saved anything of the route that is open.
Alone(s) ==
    /\ s.queue = NoEntry /\ s.failed = NoEntry
    /\ s.inflight # NoEntry => s.inflight.e.epoch < s.epoch

DraftsInv ==
    /\ \A d \in {draft, offered} \ {NoEntry} :
          d.key <= c.attempt /\ \A x \in Known : x.key <= d.key
    /\ offered # NoEntry => Alone(c)

OrderInv ==
    /\ \A x \in Known : x.n <= c.attempt /\ x.key <= c.attempt
    /\ \A x, y \in Known : x.n <= y.n => x.key <= y.key
    /\ \A r, q \in results : r.gen <= q.gen => r.n <= q.n
    /\ \A e \in Pending : MayCommit(e) => \A r \in results : r.n < e.n
    /\ \A i \in DOMAIN ctl : Tidy(ctl[i])
    /\ c.queue # NoEntry => c.queue.n = c.attempt
    /\ DraftsInv

\* What an operator leaves of a controller that moves its entries on.
Carries(s, t) ==
    /\ t \in Controllers /\ Slots(t) \subseteq Slots(s)
    /\ t.attempt = s.attempt /\ t.epoch = s.epoch /\ t.queue \in {s.queue, NoEntry}
    /\ Tidy(s) => Tidy(t)
    /\ Alone(s) => Alone(t)

LEMMA CarriesOn ==
    ASSUME NEW s, NEW t, NEW u, Carries(s, t), Carries(t, u)
    PROVE  Carries(s, u)
BY DEF Carries

\* A controller that has the same entries, or has lost some.
LEMMA Fewer ==
    ASSUME NEW s \in Controllers, NEW t \in Controllers,
           t.accepted = s.accepted, t.attempt = s.attempt, t.epoch = s.epoch,
           t.queue \in {s.queue, NoEntry}, t.failed \in {s.failed, NoEntry},
           t.inflight = NoEntry \/ (s.inflight # NoEntry /\ t.inflight.e = s.inflight.e),
           t.flushing = NoEntry \/ (s.flushing # NoEntry /\ t.flushing.e = s.flushing.e),
           Exporting(t) => Exporting(s) \/ (t.failed = NoEntry /\ t.inflight = NoEntry)
    PROVE  Carries(s, t)
<1>1. Others(t) \subseteq Others(s)
  BY DEF Others
<1>2. Slots(t) \subseteq Slots(s)
  BY <1>1 DEF Slots
<1>3. ASSUME Tidy(s) PROVE Tidy(t)
  BY <1>1, <1>3 DEF Tidy
<1>4. Alone(s) => Alone(t)
  BY DEF Alone
<1>. QED  BY <1>2, <1>3, <1>4 DEF Carries

LEMMA NotifiedCarries == ASSUME NEW s \in Controllers PROVE Carries(s, Notified(s))
<1>1. Exporting(Notified(s)) =>
        Exporting(s) \/ (s.failed = NoEntry /\ s.inflight = NoEntry)
  BY DEF Notified, Idle, Exporting, Controllers
<1>2. /\ Notified(s) \in Controllers /\ Notified(s).attempt = s.attempt /\ Notified(s).epoch = s.epoch
      /\ Notified(s).accepted = s.accepted /\ Notified(s).flushing = s.flushing
      /\ Notified(s).queue = s.queue /\ Notified(s).failed = s.failed /\ Notified(s).inflight = s.inflight
  BY NotifiedIs DEF Tame
<1>. HIDE DEF Notified
<1>. QED  BY <1>1, <1>2, Fewer

\* An entry is sent: it leaves the queue, or what had failed goes again.
LEMMA ProcessCarries == ASSUME NEW s \in Controllers PROVE Carries(s, Process(s))
<1>. DEFINE t == Process(s)
<1>1. CASE Blocked(s)
  <2>1. t = s
    BY <1>1 DEF Process
  <2>. QED  BY <2>1 DEF Carries
<1>2. CASE ~Blocked(s) /\ s.failed = NoEntry /\ s.queue = NoEntry
  <2>1. t = Notified(s)
    BY <1>2 DEF Process
  <2>. QED  BY <2>1, NotifiedCarries
<1>3. CASE ~Blocked(s) /\ s.failed # NoEntry
  <2>1. s.failed \in Entries /\ s.inflight = NoEntry /\ s.flushing = NoEntry /\ ~Exporting(s)
    BY <1>3 DEF Controllers, Blocked
  <2>2. PICK q \in Puts : q = PutOf(s.failed) /\ q # NoEntry /\ q.e = s.failed
    BY <2>1, PutOfIs
  <2>3. t = [s EXCEPT !.inflight = q, !.failed = NoEntry]
    BY <1>3, <2>2 DEF Process
  <2>4. /\ t \in Controllers /\ t.queue = s.queue /\ t.failed = NoEntry /\ t.inflight = q
        /\ t.flushing = NoEntry /\ t.attempt = s.attempt /\ t.epoch = s.epoch
        /\ t.accepted = s.accepted /\ t.export = s.export
    BY <2>1, <2>3 DEF Controllers
  <2>5. Others(t) = Others(s)
    BY <1>3, <2>1, <2>2, <2>4 DEF Others
  <2>6. ~Exporting(t)
    BY <2>1, <2>4 DEF Exporting
  <2>. QED  BY <1>3, <2>4, <2>5, <2>6 DEF Carries, Slots, Tidy, Alone
<1>4. CASE ~Blocked(s) /\ s.failed = NoEntry /\ s.queue # NoEntry
  <2>1. s.queue \in Entries /\ s.inflight = NoEntry /\ s.flushing = NoEntry /\ ~Exporting(s)
    BY <1>4 DEF Controllers, Blocked
  <2>2. PICK q \in Puts : q = PutOf(s.queue) /\ q # NoEntry /\ q.e = s.queue
    BY <2>1, PutOfIs
  <2>3. t = [s EXCEPT !.inflight = q, !.queue = NoEntry]
    BY <1>4, <2>2 DEF Process
  <2>4. /\ t \in Controllers /\ t.queue = NoEntry /\ t.failed = NoEntry /\ t.inflight = q
        /\ t.flushing = NoEntry /\ t.attempt = s.attempt /\ t.epoch = s.epoch
        /\ t.accepted = s.accepted /\ t.export = s.export
    BY <1>4, <2>1, <2>3 DEF Controllers
  <2>5. Others(t) = {s.queue} /\ Slots(t) \subseteq Slots(s)
    BY <1>4, <2>1, <2>2, <2>4 DEF Others, Slots
  <2>6. ~Exporting(t)
    BY <2>1, <2>4 DEF Exporting
  <2>. QED  BY <1>4, <2>4, <2>5, <2>6 DEF Carries, Tidy, Alone
<1>. QED  BY <1>1, <1>2, <1>3, <1>4

LEMMA ContinueCarries ==
    ASSUME NEW s \in Controllers, NEW go, NEW dialog PROVE Carries(s, Continue(s, go, dialog))
<1>. DEFINE going == go /\ s.queue # NoEntry /\ s.queue.epoch = s.epoch /\ ~dialog
            u == IF going THEN Process(s) ELSE s
<1>1. Carries(s, s)
  BY DEF Carries
<1>2. Carries(s, u)
  BY <1>1, ProcessCarries
<1>3. Continue(s, go, dialog) = Notified(u)
  BY DEF Continue
<1>. HIDE DEF u
<1>4. Carries(u, Notified(u))
  BY <1>2, NotifiedCarries DEF Carries
<1>. QED  BY <1>2, <1>3, <1>4, CarriesOn

\* The timer, sending at once and the flush
LEMMA SendsCarry ==
    ASSUME NEW s \in Controllers
    PROVE  Carries(s, Later(s)) /\ Carries(s, Now(s))
<1>1. Carries(s, Later(s))
  <2>. DEFINE b == ~Exporting(s)
              t == [s EXCEPT !.timer = b]
  <2>1. Later(s) = t /\ b \in BOOLEAN
    BY DEF Later
  <2>. HIDE DEF b
  <2>2. /\ t \in Controllers /\ t.accepted = s.accepted /\ t.attempt = s.attempt /\ t.epoch = s.epoch
        /\ t.queue = s.queue /\ t.failed = s.failed /\ t.inflight = s.inflight
        /\ t.flushing = s.flushing /\ t.export = s.export
    BY <2>1 DEF Controllers
  <2>3. Exporting(t) => Exporting(s)
    BY <2>2 DEF Exporting
  <2>. HIDE DEF t
  <2>4. Carries(s, t)
    BY <2>2, <2>3, Fewer
  <2>. QED  BY <2>1, <2>4
<1>2. Carries(s, Now(s))
  <2>1. Carries(s, s)
    BY DEF Carries
  <2>. QED  BY <2>1, ProcessCarries DEF Now
<1>. QED  BY <1>1, <1>2

LEMMA FlushedCarries == ASSUME NEW s \in Controllers PROVE Carries(s, Flushed(s))
<1>. DEFINE t == Flushed(s)
            e == FlushEntry(s)
<1>1. CASE Blocked(s)
  <2>1. t = s
    BY <1>1 DEF Flushed
  <2>. QED  BY <2>1 DEF Carries
<1>2. CASE ~Blocked(s) /\ (~CanFlush(s) \/ Oversize(e))
  <2>1. t = [s EXCEPT !.timer = FALSE]
    BY <1>2 DEF Flushed
  <2>2. /\ t \in Controllers /\ t.accepted = s.accepted /\ t.attempt = s.attempt /\ t.epoch = s.epoch
        /\ t.queue = s.queue /\ t.failed = s.failed /\ t.inflight = s.inflight
        /\ t.flushing = s.flushing /\ t.export = s.export
    BY <2>1 DEF Controllers
  <2>3. Exporting(t) => Exporting(s)
    BY <2>2 DEF Exporting
  <2>. HIDE DEF t
  <2>4. Carries(s, t)
    BY <2>2, <2>3, Fewer
  <2>. QED  BY <2>4 DEF t
<1>3. CASE ~Blocked(s) /\ CanFlush(s) /\ ~Oversize(e)
  <2>. DEFINE left == IF s.queue = NoEntry THEN NoEntry ELSE s.failed
  <2>1. /\ e \in Entries /\ e \in {s.queue, s.failed} /\ ~Exporting(s) /\ s.inflight = NoEntry
        /\ e # NoEntry
    BY <1>3, NoEntryOK DEF CanFlush, FlushEntry, Blocked, Controllers
  <2>2. PICK q \in Puts : q = PutOf(e) /\ q # NoEntry /\ q.e = e
    BY <2>1, PutOfIs
  <2>3. t = [s EXCEPT !.timer = FALSE, !.flushing = q, !.queue = NoEntry, !.failed = left]
    BY <1>3, <2>2 DEF Flushed
  <2>4. left \in {NoEntry, s.failed} /\ left \in Entries \cup {NoEntry}
    BY DEF Controllers
  <2>. HIDE DEF left
  <2>5. /\ t \in Controllers /\ t.accepted = s.accepted /\ t.attempt = s.attempt
        /\ t.epoch = s.epoch /\ t.inflight = NoEntry /\ t.export = s.export
        /\ t.queue = NoEntry /\ t.failed = left /\ t.flushing = q
    BY <2>1, <2>3, <2>4 DEF Controllers
  <2>6. ~Exporting(t)
    BY <2>1, <2>5 DEF Exporting
  <2>7. Slots(t) \subseteq Slots(s)
    BY <2>1, <2>2, <2>4, <2>5 DEF Slots, Others
  <2>8. ~Alone(s)
    BY <2>1 DEF Alone
  <2>. QED  BY <2>5, <2>6, <2>7, <2>8 DEF Carries, Tidy
<1>. QED  BY <1>1, <1>2, <1>3

-----------------------------------------------------------------------------
(* How a step moves the entries *)

\* An entry that can no longer be committed, or is newer than what has been.
Settled(x) ==
    \/ x.gen < head'.gen
    \/ \E r \in results' : r.key = x.key
    \/ \A r \in results' : r.n < x.n

\* It was there before, perhaps with another generation; or it is the next save, with key k.
Stays(x) == \E y \in Pending : y.n = x.n /\ y.key = x.key /\ (y.gen = x.gen \/ Settled(x))
IsNext(x, k) == x.n = c.attempt + 1 /\ x.n <= c'.attempt /\ x.key = k

\* A key no save known so far is above.
Covers(k) == k \in Nat /\ k <= c'.attempt /\ \A y \in Known : y.key <= k

AllStay == \A x \in Pending' : Stays(x)
Newest == \A r \in results' \ results : \A old \in results : old.n < r.n

\* The server stays, or publishes a generation, perhaps by the commit of an entry.
Commit(e) ==
    /\ e \in Pending /\ MayCommit(e)
    /\ \E r : results' = results \cup {r} /\ r.n = e.n /\ r.key = e.key /\ r.gen = head'.gen
ServerMoves ==
    \/ head' = head /\ results' = results
    \/ head'.gen = head.gen + 1 /\ (results' = results \/ \E e : Commit(e))

LEMMA SlotsAre == ASSUME NEW s \in Controllers PROVE Slots(s) \subseteq Entries
BY DEF Slots, Others, Controllers, Puts

LEMMA KnownType == ASSUME IInv PROVE Pending \subseteq Entries /\ results \subseteq Results
BY DEF Pending, IInv, World

\* No entry expects a generation to come.
LEMMA PendingIsOld == ASSUME IInv, NEW e \in Pending PROVE e.gen <= head.gen
<1>1. ASSUME NEW i \in DOMAIN ctl, e \in Slots(ctl[i]) PROVE e.gen <= head.gen
  <2>1. CtlInv(head, results, ctl[i])
    BY DEF IInv, CtlsInv
  <2>. QED  BY <1>1, <2>1 DEF Slots, Others, CtlInv, QueueInv, PutsInv, Safe
<1>2. ASSUME NEW p \in wire, e = p.e PROVE e.gen <= head.gen
  BY <1>2 DEF IInv, WireInv, Safe
<1>3. (\E i \in DOMAIN ctl : e \in Slots(ctl[i])) \/ \E p \in wire : e = p.e
  BY DEF Pending
<1>. QED  BY <1>1, <1>2, <1>3

\* What a step keeps of the order of numbers, keys and generations.
LEMMA OrderMoves ==
    ASSUME IInv, OrderInv, ServerMoves, c'.attempt \in Nat, c'.attempt >= c.attempt,
           NEW k, Covers(k), \A x \in Pending' : Stays(x) \/ IsNext(x, k)
    PROVE  /\ (\A x \in Known : x.n <= c.attempt /\ x.key <= c.attempt)'
           /\ (\A x, y \in Known : x.n <= y.n => x.key <= y.key)'
           /\ (\A r, q \in results : r.gen <= q.gen => r.n <= q.n)'
           /\ (\A e \in Pending : MayCommit(e) => \A r \in results : r.n < e.n)'
           /\ Newest
           /\ \A x \in Known' : \/ \E y \in Known : y.n = x.n /\ y.key = x.key
                                \/ IsNext(x, k) /\ ~AllStay
<1>1. /\ Pending \subseteq Entries /\ results \subseteq Results
      /\ c.attempt \in Nat /\ c'.attempt \in Nat
      /\ head.gen \in Nat /\ head'.gen \in Nat /\ head'.gen >= head.gen
  <2>1. Pending \subseteq Entries /\ results \subseteq Results
    BY KnownType
  <2>2. c \in Controllers
    BY MountedIs
  <2>3. head.gen \in Nat
    BY DEF IInv, World, HeadsOfDeck
  <2>4. head'.gen \in Nat /\ head'.gen >= head.gen
    BY <2>3 DEF ServerMoves
  <2>. QED  BY <2>1, <2>2, <2>3, <2>4 DEF Controllers
<1>2. \A x \in Known : x.n \in Nat /\ x.key \in Nat
  BY <1>1 DEF Known, Entries, Results
<1>3. /\ \A x \in Known : x.n <= c.attempt /\ x.key <= c.attempt
      /\ \A x, y \in Known : x.n <= y.n => x.key <= y.key
      /\ \A r, q \in results : r.gen <= q.gen => r.n <= q.n
      /\ \A e \in Pending : MayCommit(e) => \A r \in results : r.n < e.n
  BY DEF OrderInv
<1>4. ASSUME NEW r \in results'
      PROVE  \/ r \in results
             \/ /\ head'.gen = head.gen + 1 /\ r.gen = head'.gen
                /\ results' = results \cup {r}
                /\ \E e \in Pending : MayCommit(e) /\ r.n = e.n /\ r.key = e.key
  BY <1>4 DEF ServerMoves, Commit
<1>5. ASSUME NEW x \in Known' PROVE (\E y \in Known : y.n = x.n /\ y.key = x.key) \/ IsNext(x, k)
  <2>1. CASE x \in Pending'
    BY <2>1 DEF Stays, Known
  <2>2. CASE x \in results'
    BY <1>4, <2>2 DEF Known
  <2>. QED  BY <2>1, <2>2 DEF Known
<1>6. ASSUME NEW x \in Known' PROVE x.n <= c'.attempt /\ x.key <= c'.attempt /\ x.n \in Nat
  <2>1. CASE \E y \in Known : y.n = x.n /\ y.key = x.key
    BY <1>1, <1>2, <1>3, <2>1
  <2>2. CASE IsNext(x, k)
    BY <1>1, <2>2 DEF IsNext, Covers
  <2>. QED  BY <1>5, <2>1, <2>2
<1>7. ASSUME NEW x \in Known', NEW y \in Known', x.n <= y.n PROVE x.key <= y.key
  <2>1. CASE IsNext(y, k)
    <3>1. CASE IsNext(x, k)
      BY <2>1, <3>1 DEF IsNext, Covers
    <3>2. CASE \E z \in Known : z.n = x.n /\ z.key = x.key
      BY <2>1, <3>2 DEF IsNext, Covers
    <3>. QED  BY <1>5, <3>1, <3>2
  <2>2. CASE \E w \in Known : w.n = y.n /\ w.key = y.key
    <3>1. PICK w \in Known : w.n = y.n /\ w.key = y.key
      BY <2>2
    <3>2. CASE IsNext(x, k)
      <4>1. w.n <= c.attempt /\ w.n \in Nat /\ x.n = c.attempt + 1
        BY <1>2, <1>3, <3>2 DEF IsNext
      <4>. QED  BY <1>1, <1>7, <3>1, <4>1
    <3>3. CASE \E z \in Known : z.n = x.n /\ z.key = x.key
      BY <1>3, <1>7, <3>1, <3>3
    <3>. QED  BY <1>5, <3>2, <3>3
  <2>. QED  BY <1>5, <2>1, <2>2
<1>8. ASSUME NEW r \in results', r \notin results PROVE \A old \in results : old.n < r.n
  BY <1>3, <1>4, <1>8
<1>9. \A r \in results : r.gen \in Nat /\ r.gen <= head.gen
  BY <1>1 DEF IInv, World, Results
<1>10. ASSUME NEW r \in results', NEW q \in results', r.gen <= q.gen PROVE r.n <= q.n
  <2>1. r.n \in Nat /\ q.n \in Nat
    BY <1>6 DEF Known
  <2>2. CASE r \in results /\ q \in results
    BY <1>3, <1>10, <2>2
  <2>3. CASE q \notin results /\ r \in results
    BY <1>8, <2>1, <2>3
  <2>4. CASE q \notin results /\ r \notin results
    <3>1. r = q
      BY <1>4, <2>4
    <3>. QED  BY <2>1, <3>1
  <2>5. CASE q \in results /\ r \notin results
    <3>1. q.gen <= head.gen /\ r.gen = head.gen + 1 /\ q.gen \in Nat
      BY <1>4, <1>9, <2>5
    <3>. QED  BY <1>1, <1>10, <3>1
  <2>. QED  BY <2>2, <2>3, <2>4, <2>5
<1>11. ASSUME NEW e \in Pending', MayCommit(e)' PROVE \A r \in results' : r.n < e.n
  <2>1. e.gen = head'.gen /\ \A r \in results' : r.key # e.key
    BY <1>11 DEF MayCommit
  <2>2. CASE IsNext(e, k)
    <3>1. ASSUME NEW r \in results' PROVE r.n <= c.attempt /\ r.n \in Nat
      <4>1. PICK y \in Known : r.n = y.n
        BY <1>4 DEF Known
      <4>. QED  BY <1>2, <1>3, <4>1
    <3>. QED  BY <1>1, <2>2, <3>1 DEF IsNext
  <2>3. CASE Stays(e)
    <3>1. PICK y \in Pending : y.n = e.n /\ y.key = e.key /\ (y.gen = e.gen \/ Settled(e))
      BY <2>3 DEF Stays
    <3>2. CASE Settled(e)
      BY <1>1, <2>1, <3>2 DEF Settled
    <3>3. CASE y.gen = e.gen
      <4>1. y.gen <= head.gen
        BY PendingIsOld
      <4>2. head' = head /\ results' = results
        BY <1>1, <2>1, <3>3, <4>1 DEF ServerMoves
      <4>3. MayCommit(y)
        BY <2>1, <3>1, <3>3, <4>2 DEF MayCommit
      <4>. QED  BY <1>3, <3>1, <4>2, <4>3
    <3>. QED  BY <3>1, <3>2, <3>3
  <2>. QED  BY <2>2, <2>3
<1>12. ASSUME AllStay, NEW x \in Known' PROVE \E y \in Known : y.n = x.n /\ y.key = x.key
  <2>1. CASE x \in Pending'
    BY <1>12, <2>1 DEF AllStay, Stays, Known
  <2>2. CASE x \in results'
    BY <1>4, <2>2 DEF Known
  <2>. QED  BY <2>1, <2>2 DEF Known
<1>13. Newest
  BY <1>8 DEF Newest
<1>14. ASSUME NEW x \in Known'
       PROVE  (\E y \in Known : y.n = x.n /\ y.key = x.key) \/ (IsNext(x, k) /\ ~AllStay)
  BY <1>5, <1>12
<1>. QED  BY <1>6, <1>7, <1>10, <1>11, <1>13, <1>14

\* Drafts are as new as every save; what is offered is offered before anything is saved.
DraftsMove(k) ==
    /\ \A d \in {draft', offered'} \ {NoEntry} : Covers(d.key) /\ (d.key = k \/ AllStay)
    /\ offered' # NoEntry => Alone(c)'

LEMMA OrderSteps ==
    ASSUME IInv, OrderInv, ServerMoves, c'.attempt \in Nat, c'.attempt >= c.attempt,
           NEW k, Covers(k), \A x \in Pending' : Stays(x) \/ IsNext(x, k),
           \A i \in DOMAIN ctl' : Tidy(ctl'[i]),
           c'.queue # NoEntry => c'.queue.n = c'.attempt, DraftsMove(k)
    PROVE  OrderInv' /\ Newest
<1>1. /\ (\A x \in Known : x.n <= c.attempt /\ x.key <= c.attempt)'
      /\ (\A x, y \in Known : x.n <= y.n => x.key <= y.key)'
      /\ (\A r, q \in results : r.gen <= q.gen => r.n <= q.n)'
      /\ (\A e \in Pending : MayCommit(e) => \A r \in results : r.n < e.n)'
      /\ Newest
      /\ \A x \in Known' : \/ \E y \in Known : y.n = x.n /\ y.key = x.key
                           \/ IsNext(x, k) /\ ~AllStay
  BY OrderMoves
<1>2. ASSUME NEW d \in {draft', offered'} \ {NoEntry}
      PROVE  d.key <= c'.attempt /\ \A x \in Known' : x.key <= d.key
  <2>1. Covers(d.key) /\ (d.key = k \/ AllStay)
    BY DEF DraftsMove
  <2>2. ASSUME NEW x \in Known' PROVE x.key <= d.key
    <3>1. CASE \E y \in Known : y.n = x.n /\ y.key = x.key
      BY <2>1, <3>1 DEF Covers
    <3>2. CASE IsNext(x, k) /\ ~AllStay
      BY <2>1, <3>2 DEF Covers, IsNext
    <3>. QED  BY <1>1, <3>1, <3>2
  <2>. QED  BY <2>1, <2>2 DEF Covers
<1>3. DraftsInv'
  BY <1>2 DEF DraftsInv, DraftsMove
<1>4. (\A i \in DOMAIN ctl : Tidy(ctl[i]))' /\ (c.queue # NoEntry => c.queue.n = c.attempt)'
  OBVIOUS
<1>. QED  BY <1>1, <1>3, <1>4 DEF OrderInv

\* One controller changes.
LEMMA OneMoves ==
    ASSUME IInv, OrderInv, ServerMoves, NEW i \in DOMAIN ctl, NEW t \in Controllers,
           Replaced(i, t), wire' \subseteq wire, t.attempt >= ctl[i].attempt,
           NEW k, Covers(k), \A x \in Slots(t) : Stays(x) \/ IsNext(x, k), Tidy(t),
           i = Mounted /\ t.queue # NoEntry => t.queue.n = t.attempt,
           \A d \in {draft', offered'} \ {NoEntry} :
              Covers(d.key) /\ (d.key = k \/ \A x \in Slots(t) : Stays(x)),
           offered' # NoEntry => IF i = Mounted THEN Alone(t) ELSE offered # NoEntry
    PROVE  OrderInv' /\ Newest
<1>1. /\ DOMAIN ctl' = DOMAIN ctl
      /\ \A j \in DOMAIN ctl : ctl'[j] = IF j = i THEN t ELSE ctl[j]
      /\ c' = IF i = Mounted THEN t ELSE c
  BY ReplacedIs DEF IInv
<1>2. c \in Controllers /\ c = ctl[Mounted] /\ Mounted \in DOMAIN ctl
  BY MountedIs
<1>3. c'.attempt \in Nat /\ c'.attempt >= c.attempt
  <2>1. t.attempt \in Nat /\ c.attempt \in Nat
    BY <1>2 DEF Controllers
  <2>2. CASE i = Mounted
    BY <1>1, <1>2, <2>1, <2>2
  <2>3. CASE i # Mounted
    BY <1>1, <2>1, <2>3
  <2>. QED  BY <2>2, <2>3
<1>4. ASSUME NEW x \in Pending' PROVE x \in Slots(t) \/ Stays(x)
  <2>1. x \in Entries /\ ((\E j \in DOMAIN ctl' : x \in Slots(ctl'[j])) \/ \E p \in wire' : x = p.e)
    BY DEF Pending
  <2>2. x \in Slots(t) \/ (\E j \in DOMAIN ctl : x \in Slots(ctl[j])) \/ \E p \in wire : x = p.e
    BY <1>1, <2>1
  <2>3. x \in Slots(t) \/ x \in Pending
    BY <2>1, <2>2 DEF Pending
  <2>. QED  BY <2>3 DEF Stays
<1>5. \A x \in Pending' : Stays(x) \/ IsNext(x, k)
  BY <1>4
<1>6. (\A x \in Slots(t) : Stays(x)) => AllStay
  BY <1>4 DEF AllStay
<1>7. \A j \in DOMAIN ctl' : Tidy(ctl'[j])
  BY <1>1 DEF OrderInv
<1>8. c'.queue # NoEntry => c'.queue.n = c'.attempt
  BY <1>1 DEF OrderInv
<1>9. offered' # NoEntry => Alone(c')
  BY <1>1 DEF OrderInv, DraftsInv
<1>10. DraftsMove(k)
  BY <1>6, <1>9 DEF DraftsMove, Alone
<1>. QED  BY <1>3, <1>5, <1>7, <1>8, <1>10, OrderSteps

\* What is known stays within the attempts; so do the drafts.
LEMMA OldCovers ==
    ASSUME IInv, OrderInv, c'.attempt \in Nat, c'.attempt >= c.attempt
    PROVE  /\ Covers(c.attempt)
           /\ \A d \in {draft, offered} \ {NoEntry} : Covers(d.key)
<1>1. c.attempt \in Nat
  BY MountedIs DEF Controllers
<1>2. \A d \in {draft, offered} \ {NoEntry} : d.key \in Nat
  BY DEF IInv, SaveType, Entries
<1>. QED  BY <1>1, <1>2 DEF OrderInv, DraftsInv, Covers

\* A controller changes and no save is scheduled.
LEMMA QuietMoves ==
    ASSUME IInv, OrderInv, ServerMoves, NEW i \in DOMAIN ctl, NEW t \in Controllers,
           Replaced(i, t), wire' \subseteq wire, t.attempt >= ctl[i].attempt,
           \A x \in Slots(t) : Stays(x), Tidy(t),
           i = Mounted /\ t.queue # NoEntry => t.queue.n = t.attempt,
           draft' \in {draft, NoEntry}, offered' \in {offered, draft, NoEntry},
           offered' # NoEntry => IF i = Mounted THEN Alone(t) ELSE offered # NoEntry
    PROVE  OrderInv' /\ Newest
<1>1. c'.attempt \in Nat /\ c'.attempt >= c.attempt
  <2>1. c' = IF i = Mounted THEN t ELSE c
    BY ReplacedIs DEF IInv
  <2>2. t.attempt \in Nat /\ c.attempt \in Nat /\ c = ctl[Mounted]
    BY MountedIs DEF Controllers
  <2>3. CASE i = Mounted
    BY <2>1, <2>2, <2>3
  <2>4. CASE i # Mounted
    BY <2>1, <2>2, <2>4
  <2>. QED  BY <2>3, <2>4
<1>2. Covers(c.attempt) /\ \A d \in {draft, offered} \ {NoEntry} : Covers(d.key)
  BY <1>1, OldCovers
<1>3. \A d \in {draft', offered'} \ {NoEntry} : Covers(d.key)
  BY <1>2
<1>. QED  BY <1>2, <1>3, OneMoves

\* A controller moves its entries on.
LEMMA CarriedMoves ==
    ASSUME IInv, OrderInv, ServerMoves, NEW i \in DOMAIN ctl, NEW t, Carries(ctl[i], t),
           Replaced(i, t), wire' \subseteq wire,
           draft' \in {draft, NoEntry}, offered' \in {offered, NoEntry}
    PROVE  OrderInv' /\ Newest
<1>. DEFINE s == ctl[i]
<1>1. s \in Controllers /\ t \in Controllers /\ c = ctl[Mounted] /\ s.attempt \in Nat
  BY MountedIs DEF IInv, CtlsInv, CtlInv, Carries, Controllers
<1>2. \A x \in Slots(s) : x \in Pending
  BY <1>1, SlotsAre DEF Pending
<1>3. \A x \in Slots(t) : Stays(x)
  BY <1>2 DEF Carries, Stays
<1>4. Tidy(t) /\ t.attempt >= s.attempt
  BY <1>1 DEF OrderInv, Carries
<1>5. i = Mounted /\ t.queue # NoEntry => t.queue.n = t.attempt
  BY <1>1 DEF OrderInv, Carries
<1>6. offered' # NoEntry => IF i = Mounted THEN Alone(t) ELSE offered # NoEntry
  BY <1>1 DEF OrderInv, DraftsInv, Carries
<1>. QED  BY <1>1, <1>3, <1>4, <1>5, <1>6, QuietMoves

-----------------------------------------------------------------------------
(* The server and the requests *)

\* savePackageProjection() publishes the entry as the newest save, or nothing.
LEMMA ServeOrders ==
    ASSUME World(head, results), NEW e \in Pending, Serve(e) \/ UNCHANGED server
    PROVE  ServerMoves
<1>1. CASE UNCHANGED server \/ (Serve(e) /\ ~Commits(e))
  BY <1>1 DEF Serve, server, ServerMoves
<1>2. CASE Serve(e) /\ Commits(e)
  <2>. DEFINE new == [n |-> e.n, key |-> e.key, from |-> e.gen, body |-> e.body, gen |-> head.gen + 1]
  <2>1. head' = [gen |-> head.gen + 1, body |-> e.body] /\ results' = results \cup {new}
    BY <1>2 DEF Serve
  <2>2. new.n = e.n /\ new.key = e.key /\ new.gen = head'.gen /\ head'.gen = head.gen + 1
    BY <2>1
  <2>3. MayCommit(e)
    BY <1>2, VerdictIs DEF MayCommit, Pending
  <2>. HIDE DEF new
  <2>4. Commit(e)
    BY <2>1, <2>2, <2>3 DEF Commit
  <2>. QED  BY <2>2, <2>4 DEF ServerMoves
<1>. QED  BY <1>1, <1>2

\* The request of a controller is pending.
LEMMA PutPends ==
    ASSUME IInv, NEW i \in DOMAIN ctl, NEW p \in {ctl[i].inflight, ctl[i].flushing}, p # NoEntry
    PROVE  p \in Puts /\ p.e \in Pending
<1>1. ctl[i] \in Controllers
  BY DEF IInv, CtlsInv, CtlInv
<1>2. p \in Puts /\ p.e \in Slots(ctl[i])
  BY <1>1 DEF Controllers, Slots, Others
<1>. QED  BY <1>2 DEF Pending, Puts

LEMMA DeliverSaveOrders ==
    ASSUME IInv, OrderInv, NEW i \in DOMAIN ctl, DeliverSave(i) PROVE OrderInv' /\ Newest
<1>. DEFINE s == ctl[i]
            p == s.inflight
<1>1. s \in Controllers /\ p # NoEntry /\ World(head, results) /\ silent = {} /\ Safe(head, p.e)
  BY DEF IInv, CtlsInv, CtlInv, PutsInv, DeliverSave
<1>2. p \in Puts /\ p.e \in Pending
  BY <1>1, PutPends
<1>3. PICK q \in Outcomes(p) : Delivered(p, q) /\ Replaced(i, [s EXCEPT !.inflight = q])
  BY DEF DeliverSave
<1>. DEFINE t == [s EXCEPT !.inflight = q]
<1>4. (Serve(p.e) \/ UNCHANGED server) /\ q \in Puts /\ q.e = p.e
  BY <1>1, <1>2, <1>3, DeliveredIs
<1>5. ServerMoves
  BY <1>1, <1>2, <1>4, ServeOrders
<1>6. /\ t \in Controllers /\ t.accepted = s.accepted /\ t.attempt = s.attempt /\ t.epoch = s.epoch
      /\ t.queue = s.queue /\ t.failed = s.failed /\ t.inflight = q
      /\ t.flushing = s.flushing /\ t.export = s.export
  BY <1>1, <1>4 DEF Controllers
<1>7. (Exporting(t) => Exporting(s)) /\ Replaced(i, t)
  BY <1>3, <1>6 DEF Exporting
<1>. HIDE DEF t
<1>8. Carries(s, t)
  BY <1>1, <1>4, <1>6, <1>7, Fewer
<1>9. UNCHANGED <<wire, draft, offered>>
  BY DEF DeliverSave, page
<1>. QED  BY <1>5, <1>7, <1>8, <1>9, CarriedMoves

LEMMA DeliverFlushOrders ==
    ASSUME IInv, OrderInv, NEW i \in DOMAIN ctl, DeliverFlush(i) PROVE OrderInv' /\ Newest
<1>. DEFINE s == ctl[i]
            p == s.flushing
<1>1. s \in Controllers /\ p # NoEntry /\ World(head, results) /\ silent = {} /\ Safe(head, p.e)
  BY DEF IInv, CtlsInv, CtlInv, PutsInv, DeliverFlush
<1>2. p \in Puts /\ p.e \in Pending
  BY <1>1, PutPends
<1>3. PICK q \in Outcomes(p) : Delivered(p, q) /\ Replaced(i, [s EXCEPT !.flushing = q])
  BY DEF DeliverFlush
<1>. DEFINE t == [s EXCEPT !.flushing = q]
<1>4. (Serve(p.e) \/ UNCHANGED server) /\ q \in Puts /\ q.e = p.e
  BY <1>1, <1>2, <1>3, DeliveredIs
<1>5. ServerMoves
  BY <1>1, <1>2, <1>4, ServeOrders
<1>6. /\ t \in Controllers /\ t.accepted = s.accepted /\ t.attempt = s.attempt /\ t.epoch = s.epoch
      /\ t.queue = s.queue /\ t.failed = s.failed /\ t.inflight = s.inflight
      /\ t.flushing = q /\ t.export = s.export
  BY <1>1, <1>4 DEF Controllers
<1>7. (Exporting(t) => Exporting(s)) /\ Replaced(i, t)
  BY <1>3, <1>6 DEF Exporting
<1>. HIDE DEF t
<1>8. Carries(s, t)
  BY <1>1, <1>4, <1>6, <1>7, Fewer
<1>9. UNCHANGED <<wire, draft, offered>>
  BY DEF DeliverFlush, page
<1>. QED  BY <1>5, <1>7, <1>8, <1>9, CarriedMoves

\* The page and its controllers stay.
LEMMA ServerOrders ==
    ASSUME IInv, OrderInv, ServerMoves, UNCHANGED ctl, wire' \subseteq wire,
           draft' \in {draft, NoEntry}, offered' \in {offered, NoEntry}
    PROVE  OrderInv' /\ Newest
<1>1. Mounted \in DOMAIN ctl /\ c = ctl[Mounted] /\ c \in Controllers
  BY MountedIs
<1>2. Replaced(Mounted, c)
  <2>1. ctl' = [ctl EXCEPT ![Mounted] = c]
    BY <1>1 DEF IInv, SaveType
  <2>. QED  BY <2>1 DEF Replaced
<1>3. Carries(c, c)
  BY <1>1 DEF Carries
<1>. QED  BY <1>1, <1>2, <1>3, CarriedMoves

LEMMA LateOrders == ASSUME IInv, OrderInv, NEW p \in wire, DeliverLate(p) PROVE OrderInv' /\ Newest
<1>1. p.e \in Pending /\ World(head, results)
  BY DEF IInv, SaveType, Puts, Pending
<1>2. ServerMoves
  BY <1>1, ServeOrders DEF DeliverLate
<1>. QED  BY <1>2, ServerOrders DEF DeliverLate, page

LEMMA RemoteOrders ==
    ASSUME IInv, OrderInv, NEW r \in RemoteEdit, RemoteSave(r) PROVE OrderInv' /\ Newest
<1>1. ServerMoves
  BY DEF RemoteSave, ServerMoves
<1>. QED  BY <1>1, ServerOrders DEF RemoteSave, page

-----------------------------------------------------------------------------
(* Answers, timers and exports *)

\* A step of a controller that the server does not see.
LEMMA HereOrders ==
    ASSUME IInv, OrderInv, UNCHANGED <<server, wire>>, NEW i \in DOMAIN ctl, NEW u, NEW t,
           Carries(ctl[i], u), Carries(u, t), Replaced(i, t),
           draft' \in {draft, NoEntry}, offered' \in {offered, NoEntry}
    PROVE  OrderInv' /\ Newest
<1>1. ServerMoves
  BY DEF server, ServerMoves
<1>2. Carries(ctl[i], t)
  BY CarriesOn
<1>. QED  BY <1>1, <1>2, CarriedMoves

LEMMA FlushAnsweredOrders ==
    ASSUME IInv, OrderInv, NEW i \in DOMAIN ctl, FlushAnswered(i) PROVE OrderInv' /\ Newest
<1>. DEFINE s == ctl[i]
            u == [s EXCEPT !.flushing = NoEntry]
            go == TRUE
            t == Continue(u, go, conflict)
<1>1. s \in Controllers
  BY DEF IInv, CtlsInv, CtlInv
<1>2. /\ Replaced(i, t) /\ draft' \in {draft, NoEntry} /\ UNCHANGED <<server, wire, offered>>
  BY ClearedIs DEF FlushAnswered, page
<1>3. /\ u \in Controllers /\ u.accepted = s.accepted /\ u.attempt = s.attempt /\ u.epoch = s.epoch
      /\ u.queue = s.queue /\ u.failed = s.failed /\ u.inflight = s.inflight
      /\ u.flushing = NoEntry /\ u.export = s.export
  BY <1>1 DEF Controllers
<1>4. Exporting(u) => Exporting(s)
  BY <1>3 DEF Exporting
<1>. HIDE DEF u, go
<1>5. Carries(s, u) /\ Carries(u, t)
  BY <1>1, <1>3, <1>4, Fewer, ContinueCarries
<1>. QED  BY <1>2, <1>5, HereOrders

LEMMA TimerOrders ==
    ASSUME IInv, OrderInv, NEW i \in DOMAIN ctl, TimerFires(i) PROVE OrderInv' /\ Newest
<1>. DEFINE s == ctl[i]
            u == [s EXCEPT !.timer = FALSE]
            t == Process(u)
<1>1. s \in Controllers
  BY DEF IInv, CtlsInv, CtlInv
<1>2. Replaced(i, t) /\ UNCHANGED <<server, wire, draft, offered>>
  BY DEF TimerFires, page
<1>3. /\ u \in Controllers /\ u.accepted = s.accepted /\ u.attempt = s.attempt /\ u.epoch = s.epoch
      /\ u.queue = s.queue /\ u.failed = s.failed /\ u.inflight = s.inflight
      /\ u.flushing = s.flushing /\ u.export = s.export
  BY <1>1 DEF Controllers
<1>4. Exporting(u) => Exporting(s)
  BY <1>3 DEF Exporting
<1>. HIDE DEF u
<1>5. Carries(s, u) /\ Carries(u, t)
  BY <1>1, <1>3, <1>4, Fewer, ProcessCarries
<1>. QED  BY <1>2, <1>5, HereOrders

LEMMA RetryOrders == ASSUME IInv, OrderInv, RetrySave PROVE OrderInv' /\ Newest
<1>. DEFINE u == [c EXCEPT !.status = "saving"]
            t == Process(u)
<1>1. Mounted \in DOMAIN ctl /\ c = ctl[Mounted] /\ c \in Controllers
  BY MountedIs
<1>2. Replaced(Mounted, t) /\ UNCHANGED <<server, wire, draft, offered>>
  BY DEF RetrySave, page
<1>3. /\ u \in Controllers /\ u.accepted = c.accepted /\ u.attempt = c.attempt /\ u.epoch = c.epoch
      /\ u.queue = c.queue /\ u.failed = c.failed /\ u.inflight = c.inflight
      /\ u.flushing = c.flushing /\ u.export = c.export
  BY <1>1 DEF Controllers
<1>4. Exporting(u) => Exporting(c)
  BY <1>3 DEF Exporting
<1>. HIDE DEF u
<1>5. Carries(c, u) /\ Carries(u, t)
  BY <1>1, <1>3, <1>4, Fewer, ProcessCarries
<1>. QED  BY <1>1, <1>2, <1>5, HereOrders

LEMMA StartExportOrders == ASSUME IInv, OrderInv, StartExport PROVE OrderInv' /\ Newest
<1>. DEFINE u == [c EXCEPT !.timer = FALSE, !.export = "wait"]
            t == IF Idle(u) THEN Notified(u) ELSE Process(u)
<1>1. Mounted \in DOMAIN ctl /\ c = ctl[Mounted] /\ c \in Controllers
  BY MountedIs
<1>2. Replaced(Mounted, t) /\ UNCHANGED <<server, wire, draft, offered>>
  BY DEF StartExport, page
<1>3. /\ u \in Controllers /\ u.accepted = c.accepted /\ u.attempt = c.attempt /\ u.epoch = c.epoch
      /\ u.queue = c.queue /\ u.failed = c.failed /\ u.inflight = c.inflight
      /\ u.flushing = c.flushing /\ u.export = "wait"
  BY <1>1 DEF Controllers
<1>4. ~Exporting(u)
  BY <1>3 DEF Exporting
<1>. HIDE DEF u
<1>5. Carries(c, u)
  BY <1>1, <1>3, <1>4, Fewer
<1>6. Carries(u, t)
  <2>1. Carries(u, Notified(u)) /\ Carries(u, Process(u))
    BY <1>3, NotifiedCarries, ProcessCarries
  <2>. QED  BY <2>1
<1>. QED  BY <1>1, <1>2, <1>5, <1>6, HereOrders

LEMMA ReadFidelityOrders == ASSUME IInv, OrderInv, ReadFidelity PROVE OrderInv' /\ Newest
<1>. DEFINE t == [c EXCEPT !.export = "sent", !.exportGen = head.gen]
<1>1. Mounted \in DOMAIN ctl /\ c = ctl[Mounted] /\ c \in Controllers /\ head.gen \in Nat
  BY MountedIs DEF IInv, World, HeadsOfDeck
<1>2. Replaced(Mounted, t) /\ UNCHANGED <<server, wire, draft, offered>> /\ Exporting(c)
  BY DEF ReadFidelity, page, Exporting
<1>3. /\ t \in Controllers /\ t.accepted = c.accepted /\ t.attempt = c.attempt /\ t.epoch = c.epoch
      /\ t.queue = c.queue /\ t.failed = c.failed /\ t.inflight = c.inflight
      /\ t.flushing = c.flushing
  BY <1>1 DEF Controllers
<1>. HIDE DEF t
<1>4. Carries(c, c) /\ Carries(c, t)
  BY <1>1, <1>2, <1>3, Fewer DEF Carries
<1>. QED  BY <1>1, <1>2, <1>4, HereOrders

\* A controller whose entries stay, as far as the order is concerned.
Orderly(s, u) ==
    /\ u \in Controllers /\ u.attempt = s.attempt /\ u.epoch = s.epoch
    /\ \A x \in Slots(u) : Stays(x)
    /\ Tidy(u) /\ (Alone(s) => Alone(u))
    /\ u.queue # NoEntry => s.queue # NoEntry /\ u.queue.n = s.queue.n

LEMMA OrderlyMoves ==
    ASSUME IInv, OrderInv, ServerMoves, NEW i \in DOMAIN ctl, NEW u, NEW t, Orderly(ctl[i], u),
           Carries(u, t), Replaced(i, t), wire' \subseteq wire,
           draft' \in {draft, NoEntry}, offered' \in {offered, NoEntry}
    PROVE  OrderInv' /\ Newest
<1>1. t \in Controllers /\ c = ctl[Mounted] /\ ctl[i].attempt \in Nat
  BY MountedIs DEF Carries, IInv, CtlsInv, CtlInv, Controllers
<1>2. \A x \in Slots(t) : Stays(x)
  BY DEF Orderly, Carries
<1>3. Tidy(t) /\ t.attempt >= ctl[i].attempt
  BY <1>1 DEF Orderly, Carries
<1>4. i = Mounted /\ t.queue # NoEntry => t.queue.n = t.attempt
  BY <1>1 DEF OrderInv, Orderly, Carries
<1>5. offered' # NoEntry => IF i = Mounted THEN Alone(t) ELSE offered # NoEntry
  BY <1>1 DEF OrderInv, DraftsInv, Orderly, Carries
<1>. QED  BY <1>1, <1>2, <1>3, <1>4, <1>5, QuietMoves

\* persistEditorSave() without success: the save is kept as failed.
LEMMA FailedOrders ==
    ASSUME IInv, NEW i \in DOMAIN ctl, ctl[i].inflight # NoEntry, Tidy(ctl[i]), NEW mounted
    PROVE  Orderly(ctl[i], [KeepFailed(ctl[i], ctl[i].inflight, mounted) EXCEPT !.inflight = NoEntry])
<1>. DEFINE s == ctl[i]
            p == s.inflight
            kept == IF p.e.epoch = s.epoch THEN p.e ELSE s.failed
            now == IF mounted /\ Heeded(s, p.e) THEN "error" ELSE s.status
            t == [KeepFailed(s, p, mounted) EXCEPT !.inflight = NoEntry]
<1>1. s \in Controllers /\ p \in Puts /\ p.e \in Entries /\ s.epoch \in Nat /\ p.e.epoch \in Nat
  BY DEF IInv, CtlsInv, CtlInv, Controllers, Puts, Entries
<1>2. t = [s EXCEPT !.status = now, !.failed = kept, !.inflight = NoEntry]
  BY <1>1 DEF KeepFailed, Controllers
<1>3. kept \in Entries \cup {NoEntry} /\ now \in {"", "saving", "saved", "error"}
  BY <1>1 DEF Controllers
<1>4. kept \in {s.failed, p.e} /\ (p.e.epoch < s.epoch => kept = s.failed)
  BY <1>1
<1>. HIDE DEF kept, now
<1>5. /\ t \in Controllers /\ t.accepted = s.accepted /\ t.queue = s.queue /\ t.failed = kept
      /\ t.inflight = NoEntry /\ t.attempt = s.attempt /\ t.epoch = s.epoch
      /\ t.flushing = s.flushing /\ t.export = s.export
  BY <1>1, <1>2, <1>3 DEF Controllers
<1>. HIDE DEF t
<1>6. Others(t) \subseteq Others(s)
  BY <1>4, <1>5 DEF Others
<1>7. Tidy(t)
  BY <1>5, <1>6 DEF Tidy, Exporting
<1>8. ASSUME NEW x \in Slots(t) PROVE Stays(x)
  <2>1. x \in Slots(s)
    BY <1>5, <1>6 DEF Slots
  <2>2. x \in Pending
    BY <1>1, <2>1, SlotsAre DEF Pending
  <2>. QED  BY <2>2 DEF Stays
<1>9. Alone(s) => Alone(t)
  BY <1>4, <1>5 DEF Alone
<1>. QED  BY <1>5, <1>7, <1>8, <1>9 DEF Orderly, t

\* A save that was confirmed with the current generation is the newest of the results, so
\* a newer entry is newer than all of them, or has the key of one of them.
LEMMA NewerThanCurrent ==
    ASSUME IInv, OrderInv, NEW e \in Pending, Replayed(head, results, e),
           NEW x \in Pending, e.n < x.n
    PROVE  (\E r \in results : r.key = x.key) \/ \A r \in results : r.n < x.n
<1>1. PICK r \in results : r.key = e.key /\ r.gen = head.gen
  BY DEF Replayed
<1>2. /\ \A q \in Known : q.n \in Nat /\ q.key \in Nat
      /\ e \in Known /\ x \in Known /\ r \in Known /\ results \subseteq Known
  BY <1>1, KnownType DEF Known, Entries, Results
<1>3. \A q \in results : q.n <= r.n
  BY <1>1 DEF OrderInv, IInv, World
<1>4. CASE r.n < x.n
  BY <1>2, <1>3, <1>4
<1>5. CASE x.n <= r.n
  <2>1. x.key <= r.key /\ e.key <= x.key
    BY <1>2, <1>5 DEF OrderInv
  <2>. QED  BY <1>1, <1>2, <2>1
<1>. QED  BY <1>2, <1>4, <1>5

\* persistEditorSave() with success: the queue is raised to the accepted generation.
LEMMA AdoptOrders ==
    ASSUME IInv, OrderInv, UNCHANGED server, NEW i \in DOMAIN ctl,
           ctl[i].inflight # NoEntry, ctl[i].inflight.at = "ok"
    PROVE  Orderly(ctl[i], [AdoptSaved(ctl[i], ctl[i].inflight) EXCEPT !.inflight = NoEntry])
<1>. DEFINE s == ctl[i]
            p == s.inflight
            gen == Most(s.accepted, p.gen)
            t == [AdoptSaved(s, p) EXCEPT !.inflight = NoEntry]
<1>1. /\ CtlInv(head, results, s) /\ s \in Controllers /\ s.accepted \in Nat /\ p \in Puts
      /\ p.gen \in Nat /\ head.gen \in Nat /\ p.e \in Entries /\ p.e \in Pending
      /\ s.queue \in Entries \cup {NoEntry} /\ head' = head /\ results' = results
  <2>1. CtlInv(head, results, s) /\ head.gen \in Nat
    BY DEF IInv, CtlsInv, World, HeadsOfDeck
  <2>2. p \in Puts /\ p.e \in Pending
    BY PutPends
  <2>. QED  BY <2>1, <2>2 DEF CtlInv, Controllers, Puts, server
<1>2. /\ p.gen <= head.gen /\ (p.gen = head.gen => Replayed(head, results, p.e))
      /\ s.accepted <= head.gen
  BY <1>1 DEF CtlInv, PutsInv, AnswerInv
<1>3. Tidy(s) /\ p.e \in Others(s)
  BY DEF OrderInv, Others
<1>4. \A x \in Slots(s) : x \in Pending /\ Stays(x)
  BY <1>1, SlotsAre DEF Pending, Stays
<1>5. CASE ~Heeded(s, p.e)
  <2>1. t = [s EXCEPT !.inflight = NoEntry]
    BY <1>5 DEF AdoptSaved
  <2>2. /\ t \in Controllers /\ t.accepted = s.accepted /\ t.queue = s.queue /\ t.failed = s.failed
        /\ t.inflight = NoEntry /\ t.attempt = s.attempt /\ t.epoch = s.epoch
        /\ t.flushing = s.flushing /\ t.export = s.export
    BY <1>1, <2>1 DEF Controllers
  <2>. HIDE DEF t
  <2>3. Carries(s, t)
    BY <1>1, <2>2, Fewer DEF Exporting
  <2>. QED  BY <1>3, <1>4, <2>2, <2>3 DEF Carries, Orderly, t
<1>6. CASE Heeded(s, p.e)
  <2>. DEFINE q == IF Successor(s, p.e) THEN Rebased(s.queue, gen) ELSE s.queue
              done == IF p.e.n = s.attempt THEN "saved" ELSE s.status
  <2>1. t = [s EXCEPT !.accepted = gen, !.queue = q, !.status = done, !.inflight = NoEntry]
    <3>1. AdoptSaved(s, p) = [s EXCEPT !.accepted = gen, !.queue = q, !.status = done]
      BY <1>6 DEF AdoptSaved
    <3>. HIDE DEF q, gen, done
    <3>. QED  BY <1>1, <3>1 DEF Controllers
  <2>2. gen \in Nat /\ gen >= s.accepted /\ gen <= head.gen /\ gen \in {s.accepted, p.gen}
    BY <1>1, <1>2 DEF Most
  <2>3. ASSUME s.queue # NoEntry
        PROVE  /\ s.queue \in Slots(s) /\ s.queue.gen = s.accepted /\ p.e.n < s.queue.n
               /\ Successor(s, p.e)
    <3>1. s.queue.gen = s.accepted /\ p.e.n < s.queue.n
      BY <1>3, <2>3 DEF Tidy
    <3>2. s.queue.n <= s.attempt /\ s.queue.n \in Nat /\ p.e.n \in Nat /\ s.attempt \in Nat
      BY <1>1, <2>3 DEF CtlInv, QueueInv, Controllers, Entries
    <3>. QED  BY <1>6, <2>3, <3>1, <3>2 DEF Heeded, Slots
  <2>4. ASSUME s.queue # NoEntry
        PROVE  q \in Entries /\ q.n = s.queue.n /\ q.key = s.queue.key /\ q.gen = gen
    <3>1. q = [s.queue EXCEPT !.gen = Most(s.queue.gen, gen)]
      BY <2>3, <2>4 DEF Rebased
    <3>2. Most(s.queue.gen, gen) = gen
      BY <1>1, <2>2, <2>3, <2>4 DEF Most
    <3>. HIDE DEF q, gen
    <3>. QED  BY <1>1, <2>2, <2>4, <3>1, <3>2 DEF Entries
  <2>5. s.queue = NoEntry => q = NoEntry
    BY DEF Successor
  <2>6. q \in Entries \cup {NoEntry} /\ done \in {"", "saving", "saved", "error"}
        /\ (q = NoEntry <=> s.queue = NoEntry)
    BY <1>1, <2>4, <2>5, NoEntryOK DEF Controllers
  <2>. HIDE DEF q, done, gen
  <2>7. /\ t \in Controllers /\ t.accepted = gen /\ t.queue = q /\ t.failed = s.failed
        /\ t.inflight = NoEntry /\ t.attempt = s.attempt /\ t.epoch = s.epoch
        /\ t.flushing = s.flushing /\ t.export = s.export
    BY <1>1, <2>1, <2>2, <2>6 DEF Controllers
  <2>. HIDE DEF t
  <2>8. Others(t) \subseteq Others(s)
    BY <2>7 DEF Others
  <2>9. Tidy(t)
    BY <1>3, <2>4, <2>6, <2>7, <2>8 DEF Tidy, Exporting
  <2>10. ASSUME s.queue # NoEntry PROVE Stays(q)
    <3>1. s.queue \in Pending /\ s.queue.gen = s.accepted /\ p.e.n < s.queue.n
      BY <1>4, <2>3, <2>10
    <3>2. q.n = s.queue.n /\ q.key = s.queue.key /\ q.gen = gen
      BY <2>4, <2>10
    <3>3. CASE gen = s.accepted
      BY <3>1, <3>2, <3>3 DEF Stays
    <3>4. CASE gen # head.gen
      BY <1>1, <2>2, <3>1, <3>2, <3>4 DEF Stays, Settled
    <3>5. CASE gen = p.gen /\ gen = head.gen
      <4>1. (\E r \in results : r.key = s.queue.key) \/ \A r \in results : r.n < s.queue.n
        BY <1>1, <1>2, <3>1, <3>5, NewerThanCurrent
      <4>. QED  BY <1>1, <3>1, <3>2, <4>1 DEF Stays, Settled
    <3>. QED  BY <2>2, <3>3, <3>4, <3>5
  <2>11. ASSUME NEW x \in Slots(t) PROVE Stays(x)
    <3>1. x \in Others(s) \/ (x = q /\ q # NoEntry)
      BY <2>7, <2>8, <2>11 DEF Slots
    <3>. QED  BY <1>4, <2>6, <2>10, <3>1 DEF Slots
  <2>12. Alone(s) => Alone(t)
    BY <2>6, <2>7 DEF Alone
  <2>. QED  BY <2>4, <2>6, <2>7, <2>9, <2>11, <2>12 DEF Orderly, t
<1>. QED  BY <1>5, <1>6

LEMMA SaveAnsweredOrders ==
    ASSUME IInv, OrderInv, NEW i \in DOMAIN ctl, SaveAnswered(i) PROVE OrderInv' /\ Newest
<1>. DEFINE s == ctl[i]
            p == s.inflight
            ok == p.at = "ok"
            u == [IF ok THEN AdoptSaved(s, p) ELSE KeepFailed(s, p, i = Mounted)
                  EXCEPT !.inflight = NoEntry]
            go == ok \/ p.e.epoch # s.epoch
            t == Continue(u, go, conflict')
<1>1. Tidy(s)
  BY DEF OrderInv
<1>2. /\ p # NoEntry /\ Replaced(i, t) /\ draft' \in {draft, NoEntry}
      /\ UNCHANGED <<server, wire, offered>>
  BY ClearedIs DEF SaveAnswered
<1>3. ServerMoves
  BY <1>2 DEF server, ServerMoves
<1>4. Orderly(s, u)
  <2>1. CASE ok
    <3>1. u = [AdoptSaved(s, p) EXCEPT !.inflight = NoEntry]
      BY <2>1
    <3>. QED  BY <1>2, <2>1, <3>1, AdoptOrders
  <2>2. CASE ~ok
    <3>. DEFINE mounted == i = Mounted
    <3>1. u = [KeepFailed(s, p, mounted) EXCEPT !.inflight = NoEntry]
      BY <2>2
    <3>. HIDE DEF mounted, u
    <3>. QED  BY <1>1, <1>2, <3>1, FailedOrders
  <2>. QED  BY <2>1, <2>2
<1>. HIDE DEF u, go
<1>5. Carries(u, t)
  BY <1>4, ContinueCarries DEF Orderly
<1>. QED  BY <1>2, <1>3, <1>4, <1>5, OrderlyMoves

\* The queue of the page holds its last attempt: its key is above all others.
LEMMA QueueIsLast ==
    ASSUME IInv, OrderInv, c.queue # NoEntry, c'.attempt \in Nat, c'.attempt >= c.attempt
    PROVE  /\ c.queue \in Pending /\ Covers(c.queue.key)
           /\ \A r \in results : r.key = c.queue.key \/ r.n < c.queue.n
<1>1. c \in Controllers /\ Mounted \in DOMAIN ctl /\ c = ctl[Mounted] /\ c.attempt \in Nat
  BY MountedIs DEF Controllers
<1>2. c.queue \in Pending /\ c.queue \in Entries
  BY <1>1 DEF Controllers, Pending, Slots
<1>3. c.queue \in Known /\ results \subseteq Known /\ \A y \in Known : y.n \in Nat /\ y.key \in Nat
  BY <1>2, KnownType DEF Known, Entries, Results
<1>4. \A y \in Known : y.n <= c.queue.n /\ y.key <= c.queue.key
  BY <1>3 DEF OrderInv
<1>5. ASSUME NEW r \in results PROVE r.key = c.queue.key \/ r.n < c.queue.n
  <2>1. r.n = c.queue.n => c.queue.key <= r.key
    BY <1>3 DEF OrderInv
  <2>. QED  BY <1>3, <1>4, <2>1
<1>6. c.queue.key <= c.attempt
  BY <1>3 DEF OrderInv
<1>. QED  BY <1>1, <1>2, <1>3, <1>4, <1>5, <1>6 DEF Covers

\* An export has ended, u being the controller with what it then accepts.
LEMMA ResumeOrders ==
    ASSUME IInv, OrderInv, "export" \in events, Exporting(c), ServerMoves, results' = results,
           NEW u \in Controllers, u.queue = c.queue, u.failed = c.failed, u.inflight = c.inflight,
           u.flushing = c.flushing, u.attempt = c.attempt, u.epoch = c.epoch,
           u.accepted >= c.accepted, u.accepted \in {c.accepted, head'.gen},
           NEW v, v = EndExport(u), Replaced(Mounted, Resumed(v)),
           draft' = IF v.queue # c.queue THEN v.queue ELSE draft,
           UNCHANGED <<wire, offered>>
    PROVE  OrderInv' /\ Newest
<1>. DEFINE q == IF c.queue # NoEntry THEN Rebased(c.queue, u.accepted) ELSE NoEntry
            t == Resumed(v)
<1>1. /\ Mounted \in DOMAIN ctl /\ c = ctl[Mounted] /\ c \in Controllers /\ CtlInv(head, results, c)
      /\ c.accepted \in Nat /\ u.accepted \in Nat /\ c.attempt \in Nat
  BY MountedIs DEF Controllers
<1>2. /\ c.failed = NoEntry /\ c.inflight = NoEntry /\ c.flushing = NoEntry
      /\ c.queue # NoEntry => c.queue.gen = c.accepted /\ c.queue.n = c.attempt
      /\ offered = NoEntry
  BY <1>1 DEF OrderInv, Tidy, IInv, ExportInv
<1>3. c.queue # NoEntry => c.queue \in Entries /\ c.queue.epoch = c.epoch
  BY <1>1 DEF CtlInv, QueueInv, Controllers
<1>4. ASSUME c.queue # NoEntry
      PROVE  q \in Entries /\ q.n = c.queue.n /\ q.key = c.queue.key /\ q.gen = u.accepted
  <2>1. Most(c.queue.gen, u.accepted) = u.accepted
    BY <1>1, <1>2, <1>4 DEF Most
  <2>2. q = [c.queue EXCEPT !.gen = u.accepted]
    BY <1>4, <2>1 DEF Rebased
  <2>. HIDE DEF q
  <2>. QED  BY <1>1, <1>3, <1>4, <2>2 DEF Entries
<1>5. q \in Entries \cup {NoEntry} /\ (q = NoEntry <=> c.queue = NoEntry)
  BY <1>4, NoEntryOK
<1>6. v = [u EXCEPT !.export = "none", !.exportGen = 0, !.queue = q]
  <2>. DEFINE w == [u EXCEPT !.export = "none", !.exportGen = 0]
  <2>1. /\ w \in Controllers /\ w.failed = NoEntry /\ w.queue = c.queue /\ w.epoch = c.epoch
        /\ w.accepted = u.accepted
    BY <1>2 DEF Controllers
  <2>2. v = IF c.queue # NoEntry THEN [w EXCEPT !.queue = q] ELSE w
    <3>1. CASE c.queue # NoEntry
      <4>1. v = [w EXCEPT !.queue = Rebased(w.queue, w.accepted)]
        BY <1>3, <2>1, <3>1 DEF EndExport
      <4>. HIDE DEF w
      <4>. QED  BY <2>1, <3>1, <4>1
    <3>2. CASE c.queue = NoEntry
      BY <2>1, <3>2 DEF EndExport
    <3>. QED  BY <3>1, <3>2
  <2>3. c.queue = NoEntry => w = [w EXCEPT !.queue = q]
    BY <2>1 DEF Controllers
  <2>4. v = [w EXCEPT !.queue = q]
    BY <2>2, <2>3
  <2>. QED  BY <2>4
<1>. HIDE DEF q
<1>7. /\ v \in Controllers /\ v.accepted = u.accepted /\ v.attempt = c.attempt /\ v.epoch = c.epoch
      /\ v.queue = q /\ v.failed = NoEntry /\ v.inflight = NoEntry /\ v.flushing = NoEntry
      /\ v.export = "none"
  <2>1. "none" \in {"none", "wait", "begun", "sent"} /\ 0 \in Nat
    OBVIOUS
  <2>. QED  BY <1>2, <1>5, <1>6, <2>1 DEF Controllers
<1>8. Others(v) = {} /\ Tidy(v) /\ \A x \in Slots(v) : x = q /\ q # NoEntry
  BY <1>4, <1>5, <1>7 DEF Others, Slots, Tidy, Exporting
<1>9. t = Process(v) /\ Carries(v, t)
  BY <1>7, ProcessCarries DEF Resumed
<1>. HIDE DEF t
<1>10. c' = t /\ t \in Controllers /\ t.attempt = c.attempt
  BY <1>1, <1>7, <1>9, ReplacedIs DEF IInv, Carries, t
<1>11. c'.attempt \in Nat /\ c'.attempt >= c.attempt
  BY <1>1, <1>10
<1>12. ASSUME c.queue # NoEntry PROVE Stays(q) /\ Covers(q.key)
  <2>1. /\ c.queue \in Pending /\ Covers(c.queue.key)
        /\ \A r \in results : r.key = c.queue.key \/ r.n < c.queue.n
    BY <1>11, <1>12, QueueIsLast
  <2>2. q.n = c.queue.n /\ q.key = c.queue.key /\ q.gen = u.accepted
    BY <1>4, <1>12
  <2>3. Settled(q) \/ q.gen = c.queue.gen
    BY <2>1, <2>2 DEF Settled
  <2>. QED  BY <2>1, <2>2, <2>3 DEF Stays
<1>13. \A x \in Slots(t) : Stays(x)
  BY <1>5, <1>8, <1>9, <1>12 DEF Carries
<1>14. /\ Tidy(t) /\ t.attempt >= c.attempt
       /\ t.queue # NoEntry => t.queue.n = t.attempt
  BY <1>2, <1>4, <1>5, <1>7, <1>8, <1>9, <1>10, <1>11 DEF Carries
<1>15. Covers(c.attempt) /\ \A d \in {draft, offered} \ {NoEntry} : Covers(d.key)
  BY <1>11, OldCovers
<1>16. \A d \in {draft', offered'} \ {NoEntry} : Covers(d.key)
  BY <1>2, <1>5, <1>7, <1>12, <1>15
<1>17. Replaced(Mounted, t) /\ offered' = NoEntry /\ wire' \subseteq wire
  BY <1>2 DEF t
<1>. QED  BY <1>1, <1>10, <1>13, <1>14, <1>15, <1>16, <1>17, OneMoves

LEMMA ExportAnsweredOrders == ASSUME IInv, OrderInv, ExportAnswered PROVE OrderInv' /\ Newest
<1>1. /\ c \in Controllers /\ CtlInv(head, results, c) /\ c.accepted \in Nat
      /\ head \in HeadsOfDeck /\ head.gen \in Nat /\ c.accepted <= head.gen
  BY MountedIs DEF IInv, World, HeadsOfDeck, CtlInv, Controllers
<1>2. results' = results /\ UNCHANGED <<wire, offered>> /\ Exporting(c)
  BY DEF ExportAnswered, page, Exporting
<1>3. "export" \in events
  BY DEF ExportAnswered, IInv, ExportInv
<1>4. CASE head' = [head EXCEPT !.gen = @ + 1]
  <2>. DEFINE u == [c EXCEPT !.accepted = Most(@, head'.gen)]
              v == EndExport(u)
  <2>1. head'.gen = head.gen + 1 /\ head'.gen \in Nat /\ head' # head
    BY <1>1, <1>4 DEF HeadsOfDeck
  <2>2. Most(c.accepted, head'.gen) = head'.gen
    BY <1>1, <2>1 DEF Most
  <2>3. /\ u \in Controllers /\ u.accepted = head'.gen /\ u.queue = c.queue /\ u.failed = c.failed
        /\ u.inflight = c.inflight /\ u.flushing = c.flushing /\ u.attempt = c.attempt
        /\ u.epoch = c.epoch
    BY <1>1, <2>1, <2>2 DEF Controllers
  <2>. HIDE DEF u
  <2>4. v = [v EXCEPT !.export = "none"]
    <3>. DEFINE w == [u EXCEPT !.export = "none", !.exportGen = 0]
                q == Rebased(w.queue, w.accepted)
    <3>1. w \in Controllers /\ w.export = "none"
      BY <2>3 DEF Controllers
    <3>2. v = w \/ v = [w EXCEPT !.queue = q]
      BY DEF EndExport
    <3>. HIDE DEF w, q, v
    <3>. QED  BY <3>1, <3>2 DEF Controllers
  <2>5. \/ Replaced(Mounted, Resumed(v)) /\ draft' = (IF v.queue # c.queue THEN v.queue ELSE draft)
        \/ head' = head
    BY <2>4 DEF ExportAnswered, u
  <2>6. ServerMoves /\ u.accepted >= c.accepted
    BY <1>1, <1>2, <2>1, <2>3 DEF ServerMoves
  <2>. QED  BY <1>2, <1>3, <2>1, <2>3, <2>5, <2>6, ResumeOrders
<1>5. CASE head' = head
  <2>. DEFINE v == EndExport(c)
  <2>1. head # [head EXCEPT !.gen = @ + 1]
    BY <1>1 DEF HeadsOfDeck
  <2>2. Replaced(Mounted, Resumed(v)) /\ draft' = (IF v.queue # c.queue THEN v.queue ELSE draft)
    BY <1>5, <2>1 DEF ExportAnswered
  <2>3. ServerMoves /\ c.accepted >= c.accepted
    BY <1>1, <1>2, <1>5 DEF ServerMoves
  <2>. QED  BY <1>1, <1>2, <1>3, <2>2, <2>3, ResumeOrders
<1>. QED  BY <1>4, <1>5 DEF ExportAnswered

-----------------------------------------------------------------------------
(* The page: saves, dialogs, loading and leaving *)

\* A save is scheduled from the controller s; the entry is also the draft.
LEMMA SaveOrders ==
    ASSUME IInv, OrderInv, offered' = NoEntry, UNCHANGED <<server, wire>>,
           NEW s \in Controllers, s.queue = c.queue, s.failed \in {c.failed, NoEntry},
           s.inflight = c.inflight, s.flushing = c.flushing, s.export = c.export,
           s.attempt = c.attempt,
           NEW key \in Nat, key <= c.attempt + 1, \A y \in Known : y.key <= key,
           NEW body \in Bodies, NEW view \in Bodies,
           NEW u, u = Schedule(s, body, key, view),
           NEW t, t = Now(u) \/ t = Later(u), Replaced(Mounted, t), draft' = u.queue
    PROVE  OrderInv' /\ Newest
<1>. DEFINE e == [n |-> s.attempt + 1, key |-> key, gen |-> s.accepted, body |-> body,
                  epoch |-> s.epoch, seen |-> view]
<1>1. /\ Mounted \in DOMAIN ctl /\ c = ctl[Mounted] /\ c \in Controllers /\ c.attempt \in Nat
      /\ s.accepted \in Nat /\ s.epoch \in Nat /\ Tidy(c) /\ ServerMoves
  BY MountedIs DEF Controllers, OrderInv, server, ServerMoves
<1>2. e \in Entries /\ e.gen = s.accepted /\ e.n = c.attempt + 1 /\ e.key = key /\ e # NoEntry
  <2>1. e \in Entries /\ e.gen = s.accepted /\ e.n = c.attempt + 1 /\ e.key = key
    BY <1>1 DEF Entries
  <2>. HIDE DEF e
  <2>. QED  BY <2>1, NoEntryOK
<1>3. u = [s EXCEPT !.queue = e, !.attempt = @ + 1, !.timer = FALSE, !.status = "saving"]
  BY DEF Schedule
<1>. HIDE DEF e
<1>4. /\ u \in Controllers /\ u.queue = e /\ u.attempt = c.attempt + 1 /\ u.accepted = s.accepted
      /\ u.flushing = c.flushing /\ u.export = c.export /\ u.failed = s.failed
      /\ u.inflight = c.inflight
  <2>1. "saving" \in {"", "saving", "saved", "error"} /\ s.attempt + 1 \in Nat
        /\ e \in Entries \cup {NoEntry}
    BY <1>1, <1>2
  <2>2. u = [s EXCEPT !.queue = e, !.attempt = s.attempt + 1, !.timer = FALSE, !.status = "saving"]
    BY <1>1, <1>3 DEF Controllers
  <2>3. /\ u \in Controllers /\ u.queue = e /\ u.attempt = s.attempt + 1 /\ u.accepted = s.accepted
        /\ u.flushing = s.flushing /\ u.export = s.export /\ u.failed = s.failed
        /\ u.inflight = s.inflight
    BY <2>1, <2>2 DEF Controllers
  <2>. QED  BY <2>3
<1>5. Others(u) \subseteq Others(c)
  BY <1>4 DEF Others
<1>6. \A x \in Others(c) : x \in Pending /\ x.n <= c.attempt /\ x.n \in Nat
  <2>1. \A x \in Others(c) : x \in Pending
    BY <1>1, SlotsAre DEF Pending, Slots
  <2>2. \A x \in Pending : x.n \in Nat
    BY DEF Pending, Entries
  <2>. QED  BY <2>1, <2>2 DEF OrderInv, Known
<1>7. Tidy(u)
  <2>1. \A x \in Others(u) : x.n < e.n
    BY <1>1, <1>2, <1>5, <1>6
  <2>2. Exporting(u) => u.failed = NoEntry /\ u.inflight = NoEntry
    BY <1>1, <1>4 DEF Tidy, Exporting
  <2>. QED  BY <1>2, <1>4, <2>1, <2>2 DEF Tidy
<1>8. Carries(u, t)
  BY <1>4, SendsCarry
<1>9. c' = t /\ t \in Controllers /\ t.attempt = c.attempt + 1 /\ Tidy(t)
  BY <1>1, <1>4, <1>7, <1>8, ReplacedIs DEF IInv, Carries
<1>10. Covers(key) /\ c'.attempt \in Nat /\ t.attempt >= c.attempt
  BY <1>1, <1>9 DEF Covers
<1>11. ASSUME NEW x \in Slots(t) PROVE Stays(x) \/ IsNext(x, key)
  <2>1. x = e \/ x \in Others(c)
    BY <1>4, <1>5, <1>8 DEF Carries, Slots
  <2>2. CASE x = e
    BY <1>1, <1>2, <1>9, <2>2 DEF IsNext
  <2>3. CASE x \in Others(c)
    BY <1>6, <2>3 DEF Stays
  <2>. QED  BY <2>1, <2>2, <2>3
<1>12. t.queue # NoEntry => t.queue.n = t.attempt
  BY <1>2, <1>4, <1>8, <1>9 DEF Carries
<1>13. \A d \in {draft', offered'} \ {NoEntry} : d.key = key
  BY <1>2, <1>4
<1>. QED  BY <1>1, <1>9, <1>10, <1>11, <1>12, <1>13, OneMoves

\* The next attempt is a key above all others.
LEMMA NewKeyCovers ==
    ASSUME IInv, OrderInv
    PROVE  /\ NewKey(c) \in Nat /\ NewKey(c) <= c.attempt + 1 /\ \A y \in Known : y.key <= NewKey(c)
<1>1. c.attempt \in Nat
  BY MountedIs DEF Controllers
<1>2. \A y \in Known : y.key \in Nat
  BY KnownType DEF Known, Entries, Results
<1>. QED  BY <1>1, <1>2 DEF OrderInv, NewKey

LEMMA EditOrders == ASSUME IInv, OrderInv, NEW e \in Edit, EditDoc(e) PROVE OrderInv' /\ Newest
<1>. DEFINE u == Schedule(c, doc', NewKey(c), seen)
<1>1. /\ tab = "open" /\ offered = NoEntry /\ offered' = NoEntry /\ doc' = doc \cup {e}
      /\ Replaced(Mounted, Later(u)) /\ draft' = u.queue /\ UNCHANGED <<server, wire>>
  BY DEF EditDoc, Usable
<1>2. doc' \in Bodies /\ seen \in Bodies /\ c \in Controllers
  BY <1>1, MountedKnows DEF Bodies
<1>. HIDE DEF u
<1>. QED  BY <1>1, <1>2, NewKeyCovers, SaveOrders DEF u

LEMMA ManualOrders == ASSUME IInv, OrderInv, ManualSave PROVE OrderInv' /\ Newest
<1>. DEFINE u == Schedule(c, doc, NewKey(c), seen)
<1>1. /\ tab = "open" /\ offered = NoEntry /\ offered' = NoEntry
      /\ Replaced(Mounted, Now(u)) /\ draft' = u.queue /\ UNCHANGED <<server, wire>>
  BY DEF ManualSave, Usable, page
<1>2. doc \in Bodies /\ seen \in Bodies /\ c \in Controllers
  BY <1>1, MountedKnows
<1>. HIDE DEF u
<1>. QED  BY <1>1, <1>2, NewKeyCovers, SaveOrders DEF u

\* A draft is offered before anything is saved, the conflict dialog after a save.
LEMMA KeepLocalOrders == ASSUME IInv, OrderInv, KeepLocal PROVE OrderInv' /\ Newest
<1>. DEFINE s == [c EXCEPT !.accepted = Most(@, head.gen), !.failed = NoEntry]
            u == Schedule(s, doc, NewKey(s), seen')
<1>1. /\ tab = "open" /\ conflict /\ seen' = seen \cup head.body /\ offered' = offered
      /\ Replaced(Mounted, Now(u)) /\ draft' = u.queue /\ UNCHANGED <<server, wire>>
  BY DEF KeepLocal
<1>2. /\ c \in Controllers /\ c.accepted <= head.gen /\ c.accepted \in Nat /\ head.gen \in Nat
      /\ doc \in Bodies /\ seen \in Bodies /\ head.body \in Bodies /\ c.epoch \in Nat
  BY <1>1, MountedKnows DEF Controllers
<1>3. Most(c.accepted, head.gen) = head.gen
  BY <1>2 DEF Most
<1>4. /\ s \in Controllers /\ s.failed = NoEntry /\ s.inflight = c.inflight /\ s.queue = c.queue
      /\ s.attempt = c.attempt /\ s.flushing = c.flushing /\ s.export = c.export
  BY <1>2, <1>3 DEF Controllers
<1>. HIDE DEF s
<1>5. offered = NoEntry
  <2>1. Stuck(head, results, c)
    BY <1>1 DEF IInv, ConflictInv
  <2>. QED  BY <1>2, <2>1 DEF OrderInv, DraftsInv, Alone, Stuck
<1>6. NewKey(s) = NewKey(c) /\ seen' \in Bodies
  BY <1>1, <1>2, <1>4 DEF NewKey, Bodies
<1>. HIDE DEF u
<1>. QED  BY <1>1, <1>2, <1>4, <1>5, <1>6, NewKeyCovers, SaveOrders DEF u

LEMMA RecoverOrders == ASSUME IInv, OrderInv, RecoverLocal PROVE OrderInv' /\ Newest
<1>. DEFINE s == [c EXCEPT !.accepted = Most(@, offered.gen)]
            u == Schedule(s, offered.body, offered.key, seen)
<1>1. /\ tab = "open" /\ offered # NoEntry /\ offered' = NoEntry /\ draft' = u.queue
      /\ Replaced(Mounted, Now(u)) /\ UNCHANGED <<server, wire>>
  BY DEF RecoverLocal
<1>2. /\ offered \in Entries /\ offered.gen \in Nat /\ offered.key \in Nat /\ offered.body \in Bodies
  BY <1>1 DEF IInv, SaveType, Entries
<1>3. /\ c \in Controllers /\ c.accepted \in Nat /\ c.attempt \in Nat /\ seen \in Bodies
  BY <1>1, MountedKnows DEF Controllers
<1>4. Most(c.accepted, offered.gen) \in Nat
  BY <1>2, <1>3 DEF Most
<1>5. /\ s \in Controllers /\ s.failed = c.failed /\ s.inflight = c.inflight /\ s.queue = c.queue
      /\ s.attempt = c.attempt /\ s.flushing = c.flushing /\ s.export = c.export
  BY <1>3, <1>4 DEF Controllers
<1>. HIDE DEF s
<1>6. offered.key <= c.attempt + 1 /\ \A y \in Known : y.key <= offered.key
  BY <1>1, <1>2, <1>3 DEF OrderInv, DraftsInv
<1>. HIDE DEF u
<1>. QED  BY <1>1, <1>2, <1>3, <1>5, <1>6, SaveOrders DEF u

\* The controller of the page loses its queue.
LEMMA EmptiedMoves ==
    ASSUME IInv, OrderInv, UNCHANGED <<server, wire>>, NEW t \in Controllers, Replaced(Mounted, t),
           t.queue = NoEntry, Slots(t) \subseteq Slots(c), t.attempt >= c.attempt,
           Exporting(t) => t.failed = NoEntry /\ t.inflight = NoEntry,
           draft' \in {draft, NoEntry}, offered' \in {offered, NoEntry},
           offered' # NoEntry => Alone(t)
    PROVE  OrderInv' /\ Newest
<1>1. Mounted \in DOMAIN ctl /\ c = ctl[Mounted] /\ c \in Controllers /\ ServerMoves
  BY MountedIs DEF server, ServerMoves
<1>2. \A x \in Slots(c) : x \in Pending
  BY <1>1, SlotsAre DEF Pending
<1>3. \A x \in Slots(t) : Stays(x)
  BY <1>2 DEF Stays
<1>4. Tidy(t)
  BY DEF Tidy
<1>. QED  BY <1>1, <1>3, <1>4, QuietMoves

LEMMA UseRemoteOrders == ASSUME IInv, OrderInv, UseRemote PROVE OrderInv' /\ Newest
<1>. DEFINE off == IF c.export = "wait" THEN "none" ELSE c.export
            t == [c EXCEPT !.accepted = Most(@, head.gen), !.queue = NoEntry,
                           !.failed = NoEntry, !.timer = FALSE, !.attempt = @ + 1,
                           !.export = IF @ = "wait" THEN "none" ELSE @, !.status = ""]
            gen == Most(c.accepted, head.gen)
<1>1. /\ tab = "open" /\ Replaced(Mounted, t) /\ draft' \in {draft, NoEntry}
      /\ UNCHANGED <<server, wire, offered>>
  BY DEF UseRemote
<1>2. /\ c \in Controllers /\ c.attempt \in Nat /\ c.attempt + 1 \in Nat /\ gen \in Nat
  <2>1. c \in Controllers /\ c.accepted \in Nat /\ head.gen \in Nat /\ c.attempt \in Nat
    BY <1>1, MountedKnows DEF Controllers
  <2>. QED  BY <2>1 DEF Most
<1>3. off \in {"none", "wait", "begun", "sent"} /\ (off \in {"begun", "sent"} => c.export = off)
  BY <1>2 DEF Controllers
<1>4. t = [c EXCEPT !.accepted = gen, !.queue = NoEntry, !.failed = NoEntry, !.timer = FALSE,
                    !.attempt = c.attempt + 1, !.export = off, !.status = ""]
  BY <1>2 DEF Controllers
<1>. HIDE DEF off, gen
<1>5. /\ t \in Controllers /\ t.queue = NoEntry /\ t.failed = NoEntry
      /\ t.inflight = c.inflight /\ t.attempt = c.attempt + 1 /\ t.epoch = c.epoch
      /\ t.flushing = c.flushing /\ t.export = off
  BY <1>2, <1>3, <1>4 DEF Controllers
<1>. HIDE DEF t
<1>6. Slots(t) \subseteq Slots(c) /\ t.attempt >= c.attempt
  BY <1>2, <1>5 DEF Slots, Others
<1>7. Exporting(t) => t.failed = NoEntry /\ t.inflight = NoEntry
  <2>1. Tidy(c)
    BY MountedIs DEF OrderInv
  <2>. QED  BY <1>3, <1>5, <2>1 DEF Tidy, Exporting
<1>8. offered' # NoEntry => Alone(t)
  BY <1>1, <1>5 DEF OrderInv, DraftsInv, Alone
<1>. QED  BY <1>1, <1>5, <1>6, <1>7, <1>8, EmptiedMoves

LEMMA LoadOrders == ASSUME IInv, OrderInv, LoadArrives PROVE OrderInv' /\ Newest
<1>. DEFINE gen == Most(c.accepted, head.gen)
            t == [c EXCEPT !.accepted = gen]
<1>1. Replaced(Mounted, t) /\ UNCHANGED <<server, wire, draft, offered>> /\ tab = "loading"
  BY DEF LoadArrives
<1>2. /\ c \in Controllers /\ c.accepted \in Nat /\ head.gen \in Nat /\ c.attempt \in Nat
      /\ c.queue = NoEntry /\ c.failed = NoEntry
  BY <1>1, MountedIs DEF Controllers, IInv, World, HeadsOfDeck, MountedInv, PageInv
<1>3. gen \in Nat
  BY <1>2 DEF Most
<1>. HIDE DEF gen
<1>4. /\ t \in Controllers /\ t.queue = NoEntry /\ t.failed = c.failed
      /\ t.inflight = c.inflight /\ t.attempt = c.attempt /\ t.epoch = c.epoch
      /\ t.flushing = c.flushing /\ t.export = c.export
  BY <1>2, <1>3 DEF Controllers
<1>. HIDE DEF t
<1>5. Slots(t) \subseteq Slots(c) /\ t.attempt >= c.attempt
  BY <1>2, <1>4 DEF Slots, Others
<1>6. Exporting(t) => t.failed = NoEntry /\ t.inflight = NoEntry
  <2>1. Tidy(c)
    BY MountedIs DEF OrderInv
  <2>. QED  BY <1>4, <2>1 DEF Tidy, Exporting
<1>7. offered' # NoEntry => Alone(t)
  BY <1>1, <1>4 DEF OrderInv, DraftsInv, Alone
<1>. QED  BY <1>1, <1>4, <1>5, <1>6, <1>7, EmptiedMoves

LEMMA DialogOrders ==
    ASSUME IInv, OrderInv, CloseConflict \/ DismissDraft \/ DeferDraft \/ Open
    PROVE  OrderInv' /\ Newest
<1>1. /\ UNCHANGED <<server, ctl, wire>>
      /\ draft' \in {draft, NoEntry} /\ offered' \in {offered, NoEntry}
  BY ClearedIs DEF CloseConflict, DismissDraft, DeferDraft, Open
<1>2. ServerMoves
  BY <1>1 DEF server, ServerMoves
<1>. QED  BY <1>1, <1>2, ServerOrders

\* The draft is offered before anything of this route is saved.
LEMMA DraftReadOrders == ASSUME IInv, OrderInv, DraftRead PROVE OrderInv' /\ Newest
<1>1. /\ UNCHANGED <<server, ctl, wire, draft>> /\ tab = "reading" /\ offered' = draft
  BY DEF DraftRead
<1>2. Mounted \in DOMAIN ctl /\ c = ctl[Mounted] /\ c \in Controllers /\ c.attempt \in Nat
  BY MountedIs DEF Controllers
<1>3. Replaced(Mounted, c)
  <2>1. ctl' = [ctl EXCEPT ![Mounted] = c]
    BY <1>1, <1>2 DEF IInv, SaveType
  <2>. QED  BY <2>1 DEF Replaced
<1>4. ServerMoves /\ Alone(c)
  BY <1>1 DEF server, ServerMoves, IInv, MountedInv, PageInv, Alone
<1>5. \A x \in Slots(c) : Stays(x)
  BY <1>2, SlotsAre DEF Pending, Stays
<1>6. Tidy(c) /\ (c.queue # NoEntry => c.queue.n = c.attempt) /\ c.attempt >= c.attempt
  BY <1>2 DEF OrderInv
<1>. QED  BY <1>1, <1>2, <1>3, <1>4, <1>5, <1>6, QuietMoves

LEMMA SwitchOrders == ASSUME IInv, OrderInv, SwitchRoute PROVE OrderInv' /\ Newest
<1>. DEFINE f == Flushed(c)
            t == ResetForRoute(c)
<1>1. /\ Replaced(Mounted, t) /\ UNCHANGED <<server, draft, wire>> /\ offered' = NoEntry
  BY DEF SwitchRoute, Leave
<1>2. c \in Controllers /\ f \in Controllers /\ Slots(f) \subseteq Slots(c) /\ f.attempt = c.attempt
  BY MountedIs, FlushedCarries DEF Carries
<1>3. t = [f EXCEPT !.queue = NoEntry, !.failed = NoEntry, !.export = "none",
                    !.attempt = @ + 1, !.epoch = @ + 1, !.accepted = 0, !.status = ""]
  BY DEF ResetForRoute
<1>. HIDE DEF f
<1>4. /\ t \in Controllers /\ t.queue = NoEntry /\ t.failed = NoEntry /\ t.export = "none"
      /\ t.attempt = f.attempt + 1 /\ t.inflight = f.inflight /\ t.flushing = f.flushing
  <2>1. f.attempt \in Nat /\ f.epoch \in Nat
    BY <1>2 DEF Controllers
  <2>2. t = [f EXCEPT !.queue = NoEntry, !.failed = NoEntry, !.export = "none",
                      !.attempt = f.attempt + 1, !.epoch = f.epoch + 1, !.accepted = 0, !.status = ""]
    BY <1>2, <1>3 DEF Controllers
  <2>3. f.attempt + 1 \in Nat /\ f.epoch + 1 \in Nat /\ 0 \in Nat
    BY <2>1
  <2>. QED  BY <1>2, <2>2, <2>3 DEF Controllers
<1>. HIDE DEF t
<1>5. Slots(t) \subseteq Slots(c)
  BY <1>2, <1>4 DEF Slots, Others
<1>6. t.attempt >= c.attempt
  <2>1. c.attempt \in Nat /\ t.attempt = c.attempt + 1
    BY <1>2, <1>4 DEF Controllers
  <2>. QED  BY <2>1
<1>7. ~Exporting(t)
  BY <1>4 DEF Exporting
<1>. QED  BY <1>1, <1>4, <1>5, <1>6, <1>7, EmptiedMoves

\* The page is left; what it had sent may still arrive.
LEMMA LeftOrders ==
    ASSUME IInv, OrderInv, ServerMoves, c'.attempt = c.attempt, c'.queue = NoEntry,
           Pending' \subseteq Pending, \A i \in DOMAIN ctl' : Tidy(ctl'[i]),
           offered' = NoEntry, draft' \in {draft, NoEntry}
    PROVE  OrderInv' /\ Newest
<1>1. c.attempt \in Nat /\ c'.attempt \in Nat /\ c'.attempt >= c.attempt
  <2>1. c.attempt \in Nat
    BY MountedIs DEF Controllers
  <2>. QED  BY <2>1
<1>2. AllStay
  BY DEF AllStay, Stays
<1>3. \A x \in Pending' : Stays(x) \/ IsNext(x, c.attempt)
  BY <1>2 DEF AllStay
<1>4. Covers(c.attempt) /\ \A d \in {draft, offered} \ {NoEntry} : Covers(d.key)
  BY <1>1, OldCovers
<1>5. DraftsMove(c.attempt)
  BY <1>2, <1>4 DEF DraftsMove
<1>. QED  BY <1>1, <1>3, <1>4, <1>5, OrderSteps

\* A controller that has not saved anything has no entries.
LEMMA FreshOrders ==
    ASSUME NEW n \in Nat
    PROVE  /\ Slots(Fresh(n)) = {} /\ Tidy(Fresh(n)) /\ Fresh(n) \in Controllers
           /\ Fresh(n).queue = NoEntry /\ Fresh(n).attempt = n
<1>. DEFINE t == Fresh(n)
<1>1. /\ t \in Controllers /\ t.queue = NoEntry /\ t.failed = NoEntry /\ t.inflight = NoEntry
      /\ t.flushing = NoEntry /\ t.export = "none" /\ t.attempt = n
  BY DEF Fresh, Controllers
<1>. HIDE DEF t
<1>2. Slots(t) = {} /\ Tidy(t)
  BY <1>1 DEF Slots, Others, Tidy, Exporting
<1>. QED  BY <1>1, <1>2 DEF t

LEMMA UnmountOrders ==
    ASSUME IInv, OrderInv, ExportsAlone, Unmount PROVE OrderInv' /\ Newest
<1>. DEFINE f == Flushed(c)
            t == [f EXCEPT !.export = "none"]
            left == [ctl EXCEPT ![Mounted] = t]
            new == Fresh(c.attempt)
<1>1. ctl' = Append(left, new) /\ UNCHANGED <<server, draft, wire>> /\ Leave("unmount")
  BY DEF Unmount
<1>2. offered' = NoEntry /\ c.export = "none"
  BY <1>1, LeaveIs
<1>3. /\ Mounted \in DOMAIN ctl /\ c = ctl[Mounted] /\ c \in Controllers /\ c.attempt \in Nat
      /\ ctl \in Seq(Controllers) /\ CtlInv(head, results, c)
  BY MountedIs DEF IInv, SaveType, Controllers
<1>4. /\ f \in Controllers /\ f.export = "none" /\ Slots(f) \subseteq Slots(c)
      /\ Tidy(f)
  <2>1. f.export = c.export
    BY <1>3, FlushedKeeps
  <2>2. Carries(c, f) /\ Tidy(c)
    BY <1>3, FlushedCarries DEF OrderInv
  <2>. QED  BY <1>2, <2>1, <2>2 DEF Carries
<1>. HIDE DEF f
<1>5. t = f
  BY <1>4 DEF Controllers
<1>. HIDE DEF t
<1>6. /\ left \in Seq(Controllers) /\ Len(left) = Len(ctl)
      /\ \A i \in DOMAIN left : i \in DOMAIN ctl /\ left[i] = IF i = Mounted THEN f ELSE ctl[i]
  BY <1>3, <1>4, <1>5
<1>. HIDE DEF left
<1>7. /\ Slots(new) = {} /\ Tidy(new) /\ new \in Controllers
      /\ new.queue = NoEntry /\ new.attempt = c.attempt
  BY <1>3, FreshOrders
<1>. HIDE DEF new
<1>8. /\ Len(ctl') = Len(left) + 1 /\ ctl'[Len(ctl')] = new /\ c' = new
      /\ \A i \in DOMAIN ctl' : (i \in DOMAIN left /\ ctl'[i] = left[i]) \/ ctl'[i] = new
  BY <1>1, <1>6, <1>7 DEF c, Mounted
<1>9. ASSUME NEW i \in DOMAIN ctl'
      PROVE  Tidy(ctl'[i]) /\ \A x \in Slots(ctl'[i]) : \E j \in DOMAIN ctl : x \in Slots(ctl[j])
  <2>1. CASE ctl'[i] = new
    BY <1>7, <2>1
  <2>2. CASE i \in DOMAIN left /\ ctl'[i] = left[i]
    BY <1>3, <1>4, <1>6, <2>2 DEF OrderInv
  <2>. QED  BY <1>8, <2>1, <2>2
<1>10. Pending' \subseteq Pending
  BY <1>1, <1>9 DEF Pending
<1>11. ServerMoves
  BY <1>1 DEF server, ServerMoves
<1>. QED  BY <1>1, <1>2, <1>7, <1>8, <1>9, <1>10, <1>11, LeftOrders

LEMMA CloseOrders == ASSUME IInv, OrderInv, ClosePage PROVE OrderInv' /\ Newest
<1>. DEFINE at(i) == IF i = Mounted THEN Flushed(c) ELSE ctl[i]
            puts(i) == PutsOf(at(i))
            e == FlushEntry(c)
            new == Fresh(c.attempt)
<1>1. /\ ctl' = <<new>> /\ wire' = wire \cup UNION {puts(i) : i \in DOMAIN ctl}
      /\ offered' = NoEntry /\ draft' \in {draft, NoEntry}
      /\ UNCHANGED server \/ (CanFlush(c) /\ Serve(e))
  BY ClearedIs DEF ClosePage, Leave
<1>2. /\ Mounted \in DOMAIN ctl /\ c = ctl[Mounted] /\ c \in Controllers /\ c.attempt \in Nat
      /\ World(head, results) /\ wire \subseteq Puts
  BY MountedIs DEF IInv, SaveType, Controllers
<1>3. ServerMoves
  <2>1. CASE UNCHANGED server
    BY <2>1 DEF server, ServerMoves
  <2>2. CASE CanFlush(c) /\ Serve(e)
    <3>1. e \in Slots(c)
      BY <2>2 DEF CanFlush, FlushEntry, Slots, Others
    <3>2. e \in Pending
      BY <1>2, <3>1, SlotsAre DEF Pending
    <3>. QED  BY <1>2, <2>2, <3>2, ServeOrders
  <2>. QED  BY <1>1, <2>1, <2>2
<1>4. ASSUME NEW i \in DOMAIN ctl, NEW p \in puts(i) PROVE p.e \in Slots(ctl[i])
  <2>. DEFINE s == at(i)
  <2>1. Slots(s) \subseteq Slots(ctl[i])
    BY <1>2, FlushedCarries DEF Carries
  <2>. HIDE DEF s
  <2>2. p \in {s.inflight, s.flushing} /\ p # NoEntry
    BY DEF PutsOf, s
  <2>3. p.e \in Slots(s)
    BY <2>2 DEF Slots, Others
  <2>. QED  BY <2>1, <2>3
<1>. HIDE DEF puts
<1>5. ASSUME NEW p \in wire'
      PROVE  p \in wire \/ \E i \in DOMAIN ctl : p.e \in Slots(ctl[i])
  BY <1>1, <1>4
<1>6. /\ Slots(new) = {} /\ Tidy(new) /\ new \in Controllers
      /\ new.queue = NoEntry /\ new.attempt = c.attempt
  BY <1>2, FreshOrders
<1>. HIDE DEF new
<1>7. c' = new /\ \A i \in DOMAIN ctl' : ctl'[i] = new
  BY <1>1 DEF c, Mounted
<1>8. Pending' \subseteq Pending
  BY <1>5, <1>6, <1>7 DEF Pending
<1>. QED  BY <1>1, <1>3, <1>6, <1>7, <1>8, LeftOrders

-----------------------------------------------------------------------------
(* Every step keeps the order. *)

LEMMA OrderInitially == ASSUME Init PROVE OrderInv
<1>. DEFINE zero == 0
            s == Fresh(zero)
            t == [s EXCEPT !.accepted = 1]
<1>1. zero \in Nat /\ ctl = <<t>>
  BY DEF Init
<1>. HIDE DEF zero
<1>2. s \in Controllers /\ s.queue = NoEntry /\ Slots(s) = {} /\ Tidy(s)
  BY <1>1, FreshOrders
<1>. HIDE DEF s
<1>3. /\ t.queue = NoEntry /\ t.failed = s.failed /\ t.inflight = s.inflight
      /\ t.flushing = s.flushing /\ t.export = s.export
  BY <1>2 DEF Controllers
<1>. HIDE DEF t
<1>4. Slots(t) = {} /\ Tidy(t)
  BY <1>2, <1>3 DEF Slots, Others, Tidy, Exporting
<1>5. c = t /\ \A i \in DOMAIN ctl : ctl[i] = t
  BY <1>1 DEF c, Mounted
<1>6. Pending = {} /\ results = {} /\ draft = NoEntry /\ offered = NoEntry
  BY <1>4, <1>5 DEF Init, Pending
<1>. QED  BY <1>3, <1>4, <1>5, <1>6, <1>2 DEF OrderInv, DraftsInv, Known

LEMMA OrderInductive ==
    ASSUME IInv, OrderInv, ExportsAlone, [Next]_vars PROVE OrderInv' /\ Newest
<1>1. ASSUME User PROVE OrderInv' /\ Newest
  BY <1>1, EditOrders, ManualOrders, RetryOrders, DialogOrders, KeepLocalOrders, UseRemoteOrders,
     SwitchOrders, UnmountOrders, CloseOrders, RecoverOrders, StartExportOrders DEF User
<1>2. ASSUME NEW i \in DOMAIN ctl, Background(i) PROVE OrderInv' /\ Newest
  BY <1>2, DeliverSaveOrders, DeliverFlushOrders, SaveAnsweredOrders, FlushAnsweredOrders, TimerOrders
     DEF Background
<1>3. ASSUME UNCHANGED vars PROVE OrderInv' /\ Newest
  <2>1. UNCHANGED <<server, ctl, wire, draft, offered>>
    BY <1>3 DEF vars, page
  <2>2. ServerMoves
    BY <2>1 DEF server, ServerMoves
  <2>. QED  BY <2>1, <2>2, ServerOrders
<1>. QED
  BY <1>1, <1>2, <1>3, LoadOrders, DraftReadOrders, ReadFidelityOrders, ExportAnsweredOrders,
     LateOrders, RemoteOrders DEF Next, Exports

-----------------------------------------------------------------------------
\* A save that was delayed, retried, replayed, handed over to a keepalive request or left
\* behind by an earlier page never replaces a newer one of this browser: what is committed
\* has the highest number so far (processQueue(), adoptGeneration(), savePackageProjection());
\* under the same hypothesis.
THEOREM SavesKeepTheirOrder ==
    ASSUME ExportsAlone PROVE Spec => OlderNeverOverNewer
<1>1. Spec => []IInv
  BY Invariant
<1>2. Init => OrderInv
  BY OrderInitially
<1>3. IInv /\ OrderInv /\ [Next]_vars => OrderInv'
  BY OrderInductive
<1>4. IInv /\ OrderInv /\ [Next]_vars
        => [\A r \in results' \ results : \A old \in results : old.n < r.n]_vars
  <2>. SUFFICES ASSUME IInv, OrderInv, [Next]_vars
                PROVE  \A r \in results' \ results : \A old \in results : old.n < r.n
    OBVIOUS
  <2>. QED  BY OrderInductive DEF Newest
<1>. QED  BY <1>1, <1>2, <1>3, <1>4, PTL DEF Spec, OlderNeverOverNewer

-----------------------------------------------------------------------------
(* No edit is lost.  What the server has, or the user has given up, only      *)
(* grows; what it does not have yet is in the draft, and the draft goes only  *)
(* when a save that holds its edits has been committed.                       *)

\* What the user dropped or shelved, what is safe on the server or given up, and what
\* the draft holds.
Gone == dropped \cup shelved
Saved == head.body \cup Gone
InDraft == IF draft # NoEntry THEN draft.body ELSE {}

\* The requests of a controller that were answered with success.
Answers(s) == {p \in {s.inflight, s.flushing} \ {NoEntry} : p.at = "ok"}
SameEdits(x, y) == x.n = y.n /\ x.body = y.body /\ x.seen = y.seen

\* An entry leaves out of what the user saw only what is gone; the entry that clears
\* the draft holds its edits.
EntriesInv ==
    \A e \in Pending :
       /\ e.seen \subseteq e.body \cup Gone
       /\ draft # NoEntry /\ draft.n <= e.n => draft.body \subseteq e.body \cup Saved

\* What was committed, and what is known to be, is safe.
AnswersInv ==
    /\ \A r \in results : r.body \subseteq Saved
    /\ \A i \in DOMAIN ctl : \A p \in Answers(ctl[i]) : p.e.body \subseteq Saved

\* Every edit is safe or in the draft; so is the document, and nothing else is in the
\* draft unless the user is asked about it.
EditsInv ==
    /\ seen \subseteq Saved /\ made \subseteq Saved \cup InDraft
    /\ tab \in {"reading", "open"} => seen \subseteq doc \cup Gone
    /\ tab = "open" => doc \subseteq Saved \cup InDraft
    /\ tab = "open" /\ offered = NoEntry => InDraft \subseteq doc \cup Saved
    /\ offered # NoEntry => draft \in {offered, NoEntry} /\ offered.body \subseteq Saved \cup InDraft

KeptInv == EntriesInv /\ AnswersInv /\ EditsInv

\* An entry a request may still carry is well formed and safe to commit.
LEMMA PendingIsSafe == ASSUME IInv, NEW e \in Pending PROVE e \in Entries /\ Safe(head, e)
<1>1. ASSUME NEW i \in DOMAIN ctl, e \in Slots(ctl[i]) PROVE Safe(head, e)
  <2>1. CtlInv(head, results, ctl[i])
    BY DEF IInv, CtlsInv
  <2>. QED  BY <1>1, <2>1 DEF Slots, Others, CtlInv, QueueInv, PutsInv
<1>2. ASSUME NEW p \in wire, e = p.e PROVE Safe(head, e)
  BY <1>2 DEF IInv, WireInv
<1>. QED  BY <1>1, <1>2 DEF Pending

\* savePackageProjection(): what a commit takes out of the deck was given up before.
LEMMA ServeRetains ==
    ASSUME IInv, KeptInv, UNCHANGED <<dropped, shelved>>, NEW e \in Pending,
           Serve(e) \/ UNCHANGED server
    PROVE  /\ Saved \subseteq Saved' /\ \A r \in results' : r.body \subseteq Saved'
           /\ Serve(e) /\ Verdict(e) = "ok" => e.body \subseteq Saved'
<1>1. /\ World(head, results) /\ e \in Entries /\ Safe(head, e) /\ e.seen \subseteq e.body \cup Gone
      /\ \A r \in results : r.body \subseteq Saved
  BY PendingIsSafe DEF IInv, KeptInv, EntriesInv, AnswersInv
<1>2. Gone' = Gone
  BY DEF Gone
<1>3. CASE Serve(e) /\ Commits(e)
  <2>. DEFINE new == [n |-> e.n, key |-> e.key, from |-> e.gen, body |-> e.body, gen |-> head.gen + 1]
  <2>1. head'.body = e.body /\ results' = results \cup {new} /\ new.body = e.body
    BY <1>3 DEF Serve
  <2>. HIDE DEF new
  <2>2. head.body \subseteq e.body \cup Gone
    BY <1>1, <1>3, VerdictIs DEF Safe, Knows
  <2>3. Saved \subseteq Saved' /\ e.body \subseteq Saved'
    BY <1>2, <2>1, <2>2 DEF Saved
  <2>. QED  BY <1>1, <2>1, <2>3
<1>4. CASE UNCHANGED server \/ (Serve(e) /\ ~Commits(e))
  <2>1. head' = head /\ results' = results
    BY <1>4 DEF Serve, server
  <2>2. Saved' = Saved
    BY <1>2, <2>1 DEF Saved
  <2>3. ASSUME Serve(e), Verdict(e) = "ok" PROVE e.body \subseteq Saved
    <3>1. CASE Commits(e)
      <4>1. head'.body = e.body
        BY <2>3, <3>1 DEF Serve
      <4>. QED  BY <2>1, <4>1 DEF Saved
    <3>2. CASE ~Commits(e)
      BY <1>1, <2>3, <3>2, VerdictIs DEF Replayed, SameRequest
    <3>. QED  BY <3>1, <3>2
  <2>. QED  BY <1>1, <2>1, <2>2, <2>3
<1>. QED  BY <1>3, <1>4

\* The draft is cleared by a save that holds its edits.
LEMMA ClearedRetains ==
    ASSUME KeptInv, Saved \subseteq Saved', NEW e \in Pending, e.body \subseteq Saved'
    PROVE  Cleared(e) = draft \/ (Cleared(e) = NoEntry /\ InDraft \subseteq Saved')
<1>1. draft # NoEntry /\ draft.n <= e.n => draft.body \subseteq e.body \cup Saved
  BY DEF KeptInv, EntriesInv
<1>. QED  BY <1>1 DEF Cleared, InDraft

\* The page stays while saves go on.
LEMMA PageRests ==
    ASSUME KeptInv, Saved \subseteq Saved',
           UNCHANGED <<tab, doc, seen, made, dropped, shelved, offered>>,
           draft' = draft \/ (draft' = NoEntry /\ InDraft \subseteq Saved')
    PROVE  EditsInv'
<1>1. Gone' = Gone /\ EditsInv
  BY DEF Gone, KeptInv
<1>2. InDraft' \subseteq InDraft /\ InDraft \subseteq Saved' \cup InDraft'
  BY DEF InDraft
<1>. HIDE DEF InDraft, Saved, Gone
<1>. QED  BY <1>1, <1>2 DEF EditsInv

\* One controller moves its entries on.
LEMMA EntriesRest ==
    ASSUME IInv, KeptInv, Saved \subseteq Saved', Gone \subseteq Gone',
           NEW i \in DOMAIN ctl, NEW t \in Controllers, Replaced(i, t), wire' \subseteq wire,
           draft' \in {draft, NoEntry},
           \A x \in Slots(t) : \E y \in Slots(ctl[i]) : SameEdits(x, y),
           \A p \in Answers(t) : p \in Answers(ctl[i]) \/ p.e.body \subseteq Saved',
           \A r \in results' : r.body \subseteq Saved'
    PROVE  EntriesInv' /\ AnswersInv'
<1>1. /\ DOMAIN ctl' = DOMAIN ctl
      /\ \A j \in DOMAIN ctl : ctl'[j] = IF j = i THEN t ELSE ctl[j]
  BY ReplacedIs DEF IInv
<1>2. ctl[i] \in Controllers /\ EntriesInv /\ AnswersInv
  BY DEF IInv, CtlsInv, CtlInv, KeptInv
<1>3. ASSUME NEW x \in Pending' PROVE \E y \in Pending : SameEdits(x, y)
  <2>1. x \in Entries /\ ((\E j \in DOMAIN ctl' : x \in Slots(ctl'[j])) \/ \E p \in wire' : x = p.e)
    BY DEF Pending
  <2>2. CASE x \in Slots(t)
    <3>1. PICK y \in Slots(ctl[i]) : SameEdits(x, y)
      BY <2>2
    <3>2. y \in Pending
      BY <1>2, SlotsAre DEF Pending
    <3>. QED  BY <3>1, <3>2
  <2>3. CASE (\E j \in DOMAIN ctl : x \in Slots(ctl[j])) \/ \E p \in wire : x = p.e
    <3>1. x \in Pending
      BY <2>1, <2>3 DEF Pending
    <3>. QED  BY <3>1 DEF SameEdits
  <2>. QED  BY <1>1, <2>1, <2>2, <2>3
<1>4. EntriesInv'
  <2>1. ASSUME NEW x \in Pending'
        PROVE  /\ x.seen \subseteq x.body \cup Gone'
               /\ draft' # NoEntry /\ draft'.n <= x.n => draft'.body \subseteq x.body \cup Saved'
    <3>1. PICK y \in Pending : SameEdits(x, y)
      BY <1>3
    <3>2. /\ y.seen \subseteq y.body \cup Gone
          /\ draft # NoEntry /\ draft.n <= y.n => draft.body \subseteq y.body \cup Saved
      BY <1>2 DEF EntriesInv
    <3>. HIDE DEF Saved, Gone
    <3>. QED  BY <3>1, <3>2 DEF SameEdits
  <2>. QED  BY <2>1 DEF EntriesInv
<1>5. AnswersInv'
  <2>1. ASSUME NEW j \in DOMAIN ctl, NEW p \in Answers(IF j = i THEN t ELSE ctl[j])
        PROVE  p.e.body \subseteq Saved'
    BY <1>2 DEF AnswersInv
  <2>. QED  BY <1>1, <2>1 DEF AnswersInv
<1>. QED  BY <1>4, <1>5

\* What an operator leaves of a controller that neither gains edits nor answers.
Pursues(s, t) ==
    /\ t \in Controllers /\ Answers(t) \subseteq Answers(s)
    /\ \A x \in Slots(t) : \E y \in Slots(s) : SameEdits(x, y)

\* Steps of a controller that keep the contents of its entries compose.
LEMMA PursuesOn ==
    ASSUME NEW s, NEW t, NEW u, Pursues(s, t), Pursues(t, u) PROVE Pursues(s, u)
BY DEF Pursues, SameEdits

\* A controller whose requests stay, or are sent anew.
LEMMA Pursued ==
    ASSUME NEW s, NEW t, Carries(s, t),
           t.inflight \in {s.inflight, NoEntry} \/ t.inflight.at = "out",
           t.flushing \in {s.flushing, NoEntry} \/ t.flushing.at = "out"
    PROVE  Pursues(s, t)
BY DEF Pursues, Carries, Answers, SameEdits

\* Notifying, starting the queue and flushing move entries as they are.
LEMMA OperatorsPursue ==
    ASSUME NEW s \in Controllers
    PROVE  Pursues(s, s) /\ Pursues(s, Notified(s)) /\ Pursues(s, Process(s)) /\ Pursues(s, Flushed(s))
<1>1. Pursues(s, s)
  BY DEF Pursues, SameEdits
<1>2. Pursues(s, Notified(s))
  <2>1. Notified(s).inflight = s.inflight /\ Notified(s).flushing = s.flushing
    BY NotifiedIs DEF Tame
  <2>. QED  BY <2>1, NotifiedCarries, Pursued
<1>3. Pursues(s, Process(s))
  <2>. DEFINE t == Process(s)
  <2>1. CASE Blocked(s)
    BY <1>1, <2>1 DEF Process
  <2>2. CASE ~Blocked(s) /\ s.failed = NoEntry /\ s.queue = NoEntry
    BY <1>2, <2>2 DEF Process
  <2>3. ASSUME NEW e \in Entries, t = [s EXCEPT !.inflight = PutOf(e), !.failed = NoEntry]
                                  \/ t = [s EXCEPT !.inflight = PutOf(e), !.queue = NoEntry]
        PROVE  Pursues(s, t)
    <3>1. PICK q \in Puts : q = PutOf(e) /\ q.at = "out"
      BY PutOfIs
    <3>2. t = [s EXCEPT !.inflight = q, !.failed = NoEntry] \/ t = [s EXCEPT !.inflight = q, !.queue = NoEntry]
      BY <2>3, <3>1
    <3>3. t.inflight = q /\ t.flushing = s.flushing
      BY <3>2 DEF Controllers
    <3>4. Carries(s, t)
      BY ProcessCarries
    <3>. HIDE DEF t
    <3>. QED  BY <3>1, <3>3, <3>4, Pursued
  <2>4. CASE ~Blocked(s) /\ s.failed # NoEntry
    <3>1. s.failed \in Entries
      BY <2>4 DEF Controllers
    <3>2. t = [s EXCEPT !.inflight = PutOf(s.failed), !.failed = NoEntry]
      BY <2>4 DEF Process
    <3>. QED  BY <2>3, <3>1, <3>2
  <2>5. CASE ~Blocked(s) /\ s.failed = NoEntry /\ s.queue # NoEntry
    <3>1. s.queue \in Entries
      BY <2>5 DEF Controllers
    <3>2. t = [s EXCEPT !.inflight = PutOf(s.queue), !.queue = NoEntry]
      BY <2>5 DEF Process
    <3>. QED  BY <2>3, <3>1, <3>2
  <2>. QED  BY <2>1, <2>2, <2>4, <2>5
<1>4. Pursues(s, Flushed(s))
  <2>. DEFINE t == Flushed(s)
              e == FlushEntry(s)
  <2>1. CASE Blocked(s)
    BY <1>1, <2>1 DEF Flushed
  <2>2. CASE ~Blocked(s) /\ (~CanFlush(s) \/ Oversize(e))
    <3>1. t = [s EXCEPT !.timer = FALSE]
      BY <2>2 DEF Flushed
    <3>2. t.inflight = s.inflight /\ t.flushing = s.flushing
      BY <3>1 DEF Controllers
    <3>. HIDE DEF t
    <3>3. Carries(s, t)
      BY FlushedCarries DEF t
    <3>. QED  BY <3>2, <3>3, Pursued DEF t
  <2>3. CASE ~Blocked(s) /\ CanFlush(s) /\ ~Oversize(e)
    <3>. DEFINE left == IF s.queue = NoEntry THEN NoEntry ELSE s.failed
    <3>1. e \in Entries
      BY <2>3, NoEntryOK DEF CanFlush, FlushEntry, Controllers
    <3>2. PICK q \in Puts : q = PutOf(e) /\ q.at = "out"
      BY <3>1, PutOfIs
    <3>3. t = [s EXCEPT !.timer = FALSE, !.flushing = q, !.queue = NoEntry, !.failed = left]
      BY <2>3, <3>2 DEF Flushed
    <3>. HIDE DEF left
    <3>4. t.inflight = s.inflight /\ t.flushing = q
      BY <3>3 DEF Controllers
    <3>5. Carries(s, t)
      BY FlushedCarries
    <3>. HIDE DEF t
    <3>. QED  BY <3>2, <3>4, <3>5, Pursued DEF t
  <2>. QED  BY <2>1, <2>2, <2>3
<1>. QED  BY <1>1, <1>2, <1>3, <1>4

\* processQueue() takes the next entry as it is.
LEMMA ContinuePursues ==
    ASSUME NEW s \in Controllers, NEW go, NEW dialog PROVE Pursues(s, Continue(s, go, dialog))
<1>. DEFINE going == go /\ s.queue # NoEntry /\ s.queue.epoch = s.epoch /\ ~dialog
            u == IF going THEN Process(s) ELSE s
<1>1. Pursues(s, u) /\ Continue(s, go, dialog) = Notified(u)
  BY OperatorsPursue DEF Continue
<1>. HIDE DEF u
<1>2. Pursues(u, Notified(u))
  BY <1>1, OperatorsPursue DEF Pursues
<1>. QED  BY <1>1, <1>2, PursuesOn

\* A controller with the same entries and requests, or some of them.
LEMMA FewerPursues ==
    ASSUME NEW s \in Controllers, NEW t \in Controllers,
           t.queue \in {s.queue, NoEntry}, t.failed \in {s.failed, NoEntry},
           t.inflight \in {s.inflight, NoEntry}, t.flushing \in {s.flushing, NoEntry}
    PROVE  Pursues(s, t)
BY DEF Pursues, Slots, Others, Answers, SameEdits

\* A step of one controller that the user and the server do not see.
LEMMA HereRetains ==
    ASSUME IInv, KeptInv, NEW i \in DOMAIN ctl, NEW u, NEW t,
           Pursues(ctl[i], u), Pursues(u, t), Replaced(i, t),
           UNCHANGED <<results, wire, tab, doc, seen, made, dropped, shelved, offered>>,
           head'.body = head.body, draft' = draft \/ (draft' = NoEntry /\ InDraft \subseteq Saved)
    PROVE  KeptInv'
<1>1. Pursues(ctl[i], t)
  BY PursuesOn
<1>2. Gone' = Gone /\ Saved' = Saved
  BY DEF Gone, Saved
<1>3. EditsInv'
  BY <1>2, PageRests
<1>4. EntriesInv' /\ AnswersInv'
  <2>1. \A r \in results' : r.body \subseteq Saved'
    BY <1>2 DEF KeptInv, AnswersInv
  <2>. QED  BY <1>1, <1>2, <2>1, EntriesRest DEF Pursues
<1>. QED  BY <1>3, <1>4 DEF KeptInv

\* A put is answered with success only after its body was committed.
LEMMA AnsweredOk ==
    ASSUME NEW p \in Puts, NEW q \in Outcomes(p), Delivered(p, q), q.at = "ok"
    PROVE  Serve(p.e) /\ Verdict(p.e) = "ok"
<1>1. [p EXCEPT !.at = "lost"].at = "lost" /\ Answered(p).at = Verdict(p.e)
  BY DEF Puts, Answered
<1>2. q = Answered(p)
  BY <1>1 DEF Outcomes
<1>. QED  BY <1>1, <1>2 DEF Delivered

\* A request that was answered with success clears the draft.
LEMMA OkClears ==
    ASSUME IInv, KeptInv, NEW i \in DOMAIN ctl, NEW p \in {ctl[i].inflight, ctl[i].flushing},
           p # NoEntry, NEW d, d = IF p.at = "ok" THEN Cleared(p.e) ELSE draft
    PROVE  d = draft \/ (d = NoEntry /\ InDraft \subseteq Saved)
<1>1. p.e \in Pending
  BY PutPends
<1>2. p.at = "ok" => p.e.body \subseteq Saved
  BY DEF KeptInv, AnswersInv, Answers
<1>3. draft # NoEntry /\ draft.n <= p.e.n => draft.body \subseteq p.e.body \cup Saved
  BY <1>1 DEF KeptInv, EntriesInv
<1>. QED  BY <1>2, <1>3 DEF Cleared, InDraft

-----------------------------------------------------------------------------
(* The server, the answers and the timers *)

\* A save that arrives puts into the deck what it holds and drops only what is gone.
LEMMA DeliverSaveRetains == ASSUME IInv, KeptInv, NEW i \in DOMAIN ctl, DeliverSave(i) PROVE KeptInv'
<1>. DEFINE s == ctl[i]
            p == s.inflight
<1>1. s \in Controllers /\ p # NoEntry /\ World(head, results) /\ silent = {} /\ Safe(head, p.e)
  BY DEF IInv, CtlsInv, CtlInv, PutsInv, DeliverSave
<1>2. p \in Puts /\ p.e \in Pending
  BY <1>1, PutPends
<1>3. PICK q \in Outcomes(p) : Delivered(p, q) /\ Replaced(i, [s EXCEPT !.inflight = q])
  BY DEF DeliverSave
<1>. DEFINE t == [s EXCEPT !.inflight = q]
<1>4. (Serve(p.e) \/ UNCHANGED server) /\ q \in Puts /\ q.e = p.e
  BY <1>1, <1>2, <1>3, DeliveredIs
<1>5. UNCHANGED <<tab, doc, seen, made, dropped, shelved, offered, draft, wire>>
  BY DEF DeliverSave, page, history
<1>6. /\ Saved \subseteq Saved' /\ \A r \in results' : r.body \subseteq Saved'
      /\ Serve(p.e) /\ Verdict(p.e) = "ok" => p.e.body \subseteq Saved'
  BY <1>2, <1>4, <1>5, ServeRetains
<1>7. q.at = "ok" => p.e.body \subseteq Saved'
  BY <1>2, <1>3, <1>6, AnsweredOk
<1>8. /\ t \in Controllers /\ t.queue = s.queue /\ t.failed = s.failed /\ t.inflight = q
      /\ t.flushing = s.flushing
  BY <1>1, <1>4 DEF Controllers
<1>9. Replaced(i, t)
  BY <1>3
<1>. HIDE DEF t
<1>10. \A x \in Slots(t) : \E y \in Slots(s) : SameEdits(x, y)
  BY <1>1, <1>4, <1>8 DEF Slots, Others, SameEdits
<1>11. \A a \in Answers(t) : a \in Answers(s) \/ a.e.body \subseteq Saved'
  BY <1>4, <1>7, <1>8 DEF Answers
<1>12. Gone \subseteq Gone' /\ draft' \in {draft, NoEntry} /\ wire' \subseteq wire
  BY <1>5 DEF Gone
<1>13. EntriesInv' /\ AnswersInv'
  BY <1>6, <1>8, <1>9, <1>10, <1>11, <1>12, EntriesRest
<1>14. EditsInv'
  BY <1>5, <1>6, PageRests
<1>. QED  BY <1>13, <1>14 DEF KeptInv

\* So does a keepalive request of a page that is being left.
LEMMA DeliverFlushRetains == ASSUME IInv, KeptInv, NEW i \in DOMAIN ctl, DeliverFlush(i) PROVE KeptInv'
<1>. DEFINE s == ctl[i]
            p == s.flushing
<1>1. s \in Controllers /\ p # NoEntry /\ World(head, results) /\ silent = {} /\ Safe(head, p.e)
  BY DEF IInv, CtlsInv, CtlInv, PutsInv, DeliverFlush
<1>2. p \in Puts /\ p.e \in Pending
  BY <1>1, PutPends
<1>3. PICK q \in Outcomes(p) : Delivered(p, q) /\ Replaced(i, [s EXCEPT !.flushing = q])
  BY DEF DeliverFlush
<1>. DEFINE t == [s EXCEPT !.flushing = q]
<1>4. (Serve(p.e) \/ UNCHANGED server) /\ q \in Puts /\ q.e = p.e
  BY <1>1, <1>2, <1>3, DeliveredIs
<1>5. UNCHANGED <<tab, doc, seen, made, dropped, shelved, offered, draft, wire>>
  BY DEF DeliverFlush, page, history
<1>6. /\ Saved \subseteq Saved' /\ \A r \in results' : r.body \subseteq Saved'
      /\ Serve(p.e) /\ Verdict(p.e) = "ok" => p.e.body \subseteq Saved'
  BY <1>2, <1>4, <1>5, ServeRetains
<1>7. q.at = "ok" => p.e.body \subseteq Saved'
  BY <1>2, <1>3, <1>6, AnsweredOk
<1>8. /\ t \in Controllers /\ t.queue = s.queue /\ t.failed = s.failed /\ t.inflight = s.inflight
      /\ t.flushing = q
  BY <1>1, <1>4 DEF Controllers
<1>9. Replaced(i, t)
  BY <1>3
<1>. HIDE DEF t
<1>10. \A x \in Slots(t) : \E y \in Slots(s) : SameEdits(x, y)
  BY <1>1, <1>4, <1>8 DEF Slots, Others, SameEdits
<1>11. \A a \in Answers(t) : a \in Answers(s) \/ a.e.body \subseteq Saved'
  BY <1>4, <1>7, <1>8 DEF Answers
<1>12. Gone \subseteq Gone' /\ draft' \in {draft, NoEntry} /\ wire' \subseteq wire
  BY <1>5 DEF Gone
<1>13. EntriesInv' /\ AnswersInv'
  BY <1>6, <1>8, <1>9, <1>10, <1>11, <1>12, EntriesRest
<1>14. EditsInv'
  BY <1>5, <1>6, PageRests
<1>. QED  BY <1>13, <1>14 DEF KeptInv

\* The controllers stay; the server or the page changes.
LEMMA ControllersRest ==
    ASSUME IInv, KeptInv, Saved \subseteq Saved', Gone \subseteq Gone', UNCHANGED ctl,
           wire' \subseteq wire, draft' \in {draft, NoEntry},
           \A r \in results' : r.body \subseteq Saved'
    PROVE  EntriesInv' /\ AnswersInv'
<1>1. Mounted \in DOMAIN ctl /\ c = ctl[Mounted] /\ c \in Controllers
  BY MountedIs
<1>2. Replaced(Mounted, c)
  <2>1. ctl' = [ctl EXCEPT ![Mounted] = c]
    BY <1>1 DEF IInv, SaveType
  <2>. QED  BY <2>1 DEF Replaced
<1>3. \A x \in Slots(c) : \E y \in Slots(c) : SameEdits(x, y)
  BY DEF SameEdits
<1>. QED  BY <1>1, <1>2, <1>3, EntriesRest

\* So does a request that arrives after its page has given up on it.
LEMMA LateRetains == ASSUME IInv, KeptInv, NEW p \in wire, DeliverLate(p) PROVE KeptInv'
<1>1. p.e \in Pending
  BY DEF IInv, SaveType, Puts, Pending
<1>2. UNCHANGED <<tab, doc, seen, made, dropped, shelved, offered, draft, ctl>> /\ wire' \subseteq wire
  BY DEF DeliverLate, page, history
<1>3. Saved \subseteq Saved' /\ \A r \in results' : r.body \subseteq Saved'
  BY <1>1, <1>2, ServeRetains DEF DeliverLate
<1>4. Gone \subseteq Gone' /\ draft' \in {draft, NoEntry}
  BY <1>2 DEF Gone
<1>. QED  BY <1>2, <1>3, <1>4, ControllersRest, PageRests DEF KeptInv

\* Another client edits the deck it was shown and drops nothing of it.
LEMMA RemoteRetains ==
    ASSUME IInv, KeptInv, NEW r \in RemoteEdit, RemoteSave(r) PROVE KeptInv'
<1>1. /\ UNCHANGED <<tab, doc, seen, made, dropped, shelved, offered, draft, ctl, results>>
      /\ wire' \subseteq wire /\ head'.body = head.body \cup {r}
  BY DEF RemoteSave, page, history
<1>2. Gone' = Gone
  BY <1>1 DEF Gone
<1>3. Saved \subseteq Saved'
  BY <1>1, <1>2 DEF Saved
<1>4. \A q \in results' : q.body \subseteq Saved'
  BY <1>1, <1>3 DEF KeptInv, AnswersInv
<1>5. Gone \subseteq Gone' /\ draft' \in {draft, NoEntry}
  BY <1>1, <1>2
<1>. QED  BY <1>1, <1>3, <1>4, <1>5, ControllersRest, PageRests DEF KeptInv

\* The answer to a keepalive request clears the draft only if it was a success.
LEMMA FlushAnsweredRetains ==
    ASSUME IInv, KeptInv, NEW i \in DOMAIN ctl, FlushAnswered(i) PROVE KeptInv'
<1>. DEFINE s == ctl[i]
            p == s.flushing
            u == [s EXCEPT !.flushing = NoEntry]
            go == TRUE
            t == Continue(u, go, conflict)
<1>1. s \in Controllers /\ p # NoEntry /\ p.e \in Pending
  BY PutPends DEF IInv, CtlsInv, CtlInv, FlushAnswered
<1>2. /\ Replaced(i, t) /\ draft' = (IF p.at = "ok" THEN Cleared(p.e) ELSE draft)
      /\ UNCHANGED <<results, wire, tab, doc, seen, made, dropped, shelved, offered>> /\ head' = head
  BY DEF FlushAnswered, page, history, server
<1>3. /\ u \in Controllers /\ u.queue = s.queue /\ u.failed = s.failed /\ u.inflight = s.inflight
      /\ u.flushing = NoEntry
  BY <1>1 DEF Controllers
<1>4. draft' = draft \/ (draft' = NoEntry /\ InDraft \subseteq Saved)
  BY <1>1, <1>2, OkClears
<1>. HIDE DEF u, go
<1>5. Pursues(s, u) /\ Pursues(u, t)
  BY <1>1, <1>3, FewerPursues, ContinuePursues
<1>. QED  BY <1>2, <1>4, <1>5, HereRetains

\* The debounce of a save starts what is queued.
LEMMA TimerRetains == ASSUME IInv, KeptInv, NEW i \in DOMAIN ctl, TimerFires(i) PROVE KeptInv'
<1>. DEFINE s == ctl[i]
            u == [s EXCEPT !.timer = FALSE]
            t == Process(u)
<1>1. s \in Controllers
  BY DEF IInv, CtlsInv, CtlInv
<1>2. /\ Replaced(i, t) /\ head' = head
      /\ UNCHANGED <<results, wire, tab, doc, seen, made, dropped, shelved, offered, draft>>
  BY DEF TimerFires, page, history, server
<1>3. /\ u \in Controllers /\ u.queue = s.queue /\ u.failed = s.failed /\ u.inflight = s.inflight
      /\ u.flushing = s.flushing
  BY <1>1 DEF Controllers
<1>. HIDE DEF u
<1>4. Pursues(s, u) /\ Pursues(u, t)
  BY <1>1, <1>3, FewerPursues, OperatorsPursue
<1>. QED  BY <1>2, <1>4, HereRetains

\* A retry sends the failed entry again.
LEMMA RetryRetains == ASSUME IInv, KeptInv, RetrySave PROVE KeptInv'
<1>. DEFINE u == [c EXCEPT !.status = "saving"]
            t == Process(u)
<1>1. Mounted \in DOMAIN ctl /\ c = ctl[Mounted] /\ c \in Controllers
  BY MountedIs
<1>2. /\ Replaced(Mounted, t) /\ head' = head
      /\ UNCHANGED <<results, wire, tab, doc, seen, made, dropped, shelved, offered, draft>>
  BY DEF RetrySave, page, history, server
<1>3. /\ u \in Controllers /\ u.queue = c.queue /\ u.failed = c.failed /\ u.inflight = c.inflight
      /\ u.flushing = c.flushing
  BY <1>1 DEF Controllers
<1>. HIDE DEF u
<1>4. Pursues(c, u) /\ Pursues(u, t)
  BY <1>1, <1>3, FewerPursues, OperatorsPursue
<1>. QED  BY <1>1, <1>2, <1>4, HereRetains

\* An export that begins waits for the queue.
LEMMA StartExportRetains == ASSUME IInv, KeptInv, StartExport PROVE KeptInv'
<1>. DEFINE u == [c EXCEPT !.timer = FALSE, !.export = "wait"]
            t == IF Idle(u) THEN Notified(u) ELSE Process(u)
<1>1. Mounted \in DOMAIN ctl /\ c = ctl[Mounted] /\ c \in Controllers
  BY MountedIs
<1>2. /\ Replaced(Mounted, t) /\ head' = head
      /\ UNCHANGED <<results, wire, tab, doc, seen, made, dropped, shelved, offered, draft>>
  BY DEF StartExport, page, history, server
<1>3. /\ u \in Controllers /\ u.queue = c.queue /\ u.failed = c.failed /\ u.inflight = c.inflight
      /\ u.flushing = c.flushing
  BY <1>1 DEF Controllers
<1>. HIDE DEF u
<1>4. Pursues(c, u) /\ Pursues(u, t)
  <2>1. Pursues(u, Notified(u)) /\ Pursues(u, Process(u))
    BY <1>3, OperatorsPursue
  <2>. QED  BY <1>1, <1>3, <2>1, FewerPursues
<1>. QED  BY <1>1, <1>2, <1>4, HereRetains

\* The export takes the generation of the server, not its content.
LEMMA ReadFidelityRetains == ASSUME IInv, KeptInv, ReadFidelity PROVE KeptInv'
<1>. DEFINE t == [c EXCEPT !.export = "sent", !.exportGen = head.gen]
<1>1. Mounted \in DOMAIN ctl /\ c = ctl[Mounted] /\ c \in Controllers /\ head.gen \in Nat
  BY MountedIs DEF IInv, World, HeadsOfDeck
<1>2. /\ Replaced(Mounted, t) /\ head' = head
      /\ UNCHANGED <<results, wire, tab, doc, seen, made, dropped, shelved, offered, draft>>
  BY DEF ReadFidelity, page, history, server
<1>3. /\ t \in Controllers /\ t.queue = c.queue /\ t.failed = c.failed /\ t.inflight = c.inflight
      /\ t.flushing = c.flushing
  BY <1>1 DEF Controllers
<1>. HIDE DEF t
<1>4. Pursues(c, c) /\ Pursues(c, t)
  BY <1>1, <1>3, FewerPursues, OperatorsPursue
<1>. QED  BY <1>1, <1>2, <1>4, HereRetains

\* adoptGeneration() of a queued save leaves its edits.
LEMMA RebasedIs ==
    ASSUME NEW e \in Entries, NEW g \in Nat
    PROVE  Rebased(e, g) \in Entries /\ SameEdits(Rebased(e, g), e)
<1>. DEFINE gen == Most(e.gen, g)
<1>1. gen \in Nat
  BY DEF Most, Entries
<1>2. Rebased(e, g) = [e EXCEPT !.gen = gen]
  BY DEF Rebased, Entries
<1>. HIDE DEF gen
<1>. QED  BY <1>1, <1>2 DEF Entries, SameEdits

\* An answered save leaves the transport: its entry may be kept, the queue may be rebased.
LEMMA SettledPursues ==
    ASSUME NEW s \in Controllers, NEW t \in Controllers, s.inflight # NoEntry,
           \/ t.queue = NoEntry
           \/ s.queue # NoEntry /\ SameEdits(t.queue, s.queue),
           t.failed \in {s.failed, s.inflight.e, NoEntry},
           t.inflight = NoEntry, t.flushing = s.flushing
    PROVE  Pursues(s, t)
<1>1. Answers(t) \subseteq Answers(s)
  BY DEF Answers
<1>2. ASSUME NEW x \in Slots(t) PROVE \E y \in Slots(s) : SameEdits(x, y)
  <2>1. CASE x = t.queue /\ x # NoEntry
    BY <2>1 DEF Slots
  <2>2. CASE x # t.queue \/ x = NoEntry
    <3>1. x \in Slots(s)
      BY <1>2, <2>2 DEF Slots, Others
    <3>. QED  BY <3>1 DEF SameEdits
  <2>. QED  BY <2>1, <2>2
<1>. QED  BY <1>1, <1>2 DEF Pursues

\* A save that failed on its own route becomes the failed entry as it is.
LEMMA FailedPursues ==
    ASSUME NEW s \in Controllers, s.inflight # NoEntry, NEW mounted
    PROVE  Pursues(s, [KeepFailed(s, s.inflight, mounted) EXCEPT !.inflight = NoEntry])
<1>. DEFINE p == s.inflight
            kept == IF p.e.epoch = s.epoch THEN p.e ELSE s.failed
            now == IF mounted /\ Heeded(s, p.e) THEN "error" ELSE s.status
            t == [KeepFailed(s, p, mounted) EXCEPT !.inflight = NoEntry]
<1>1. p \in Puts /\ p.e \in Entries
  BY DEF Controllers, Puts
<1>2. t = [s EXCEPT !.status = now, !.failed = kept, !.inflight = NoEntry]
  BY DEF KeepFailed, Controllers
<1>3. kept \in Entries \cup {NoEntry} /\ now \in {"", "saving", "saved", "error"}
  BY <1>1 DEF Controllers
<1>4. kept \in {s.failed, p.e}
  OBVIOUS
<1>. HIDE DEF kept, now
<1>5. /\ t \in Controllers /\ t.queue = s.queue /\ t.failed = kept /\ t.inflight = NoEntry
      /\ t.flushing = s.flushing
  BY <1>2, <1>3 DEF Controllers
<1>. HIDE DEF t
<1>6. t.queue = NoEntry \/ (s.queue # NoEntry /\ SameEdits(t.queue, s.queue))
  BY <1>5 DEF SameEdits
<1>7. Pursues(s, t)
  BY <1>4, <1>5, <1>6, SettledPursues
<1>. QED  BY <1>7 DEF t

\* A save that succeeded raises the generation of its successor and changes no content.
LEMMA AdoptPursues ==
    ASSUME NEW s \in Controllers, s.inflight # NoEntry
    PROVE  Pursues(s, [AdoptSaved(s, s.inflight) EXCEPT !.inflight = NoEntry])
<1>. DEFINE p == s.inflight
            gen == Most(s.accepted, p.gen)
            q == IF Successor(s, p.e) THEN Rebased(s.queue, gen) ELSE s.queue
            done == IF p.e.n = s.attempt THEN "saved" ELSE s.status
            t == [AdoptSaved(s, p) EXCEPT !.inflight = NoEntry]
<1>1. s.accepted \in Nat /\ p.gen \in Nat /\ s.queue \in Entries \cup {NoEntry}
  BY DEF Controllers, Puts
<1>2. gen \in Nat
  BY <1>1 DEF Most
<1>3. /\ q \in Entries \cup {NoEntry} /\ done \in {"", "saving", "saved", "error"}
      /\ q = NoEntry \/ (s.queue # NoEntry /\ SameEdits(q, s.queue))
  <2>1. CASE Successor(s, p.e)
    <3>1. s.queue \in Entries /\ s.queue # NoEntry
      BY <1>1, <2>1 DEF Successor
    <3>2. q = Rebased(s.queue, gen)
      BY <2>1
    <3>3. done \in {"", "saving", "saved", "error"}
      BY DEF Controllers
    <3>. HIDE DEF q, gen, done
    <3>. QED  BY <1>2, <3>1, <3>2, <3>3, RebasedIs
  <2>2. CASE ~Successor(s, p.e)
    BY <1>1, <2>2 DEF Controllers, SameEdits
  <2>. QED  BY <2>1, <2>2
<1>4. CASE ~Heeded(s, p.e)
  <2>1. t = [s EXCEPT !.inflight = NoEntry]
    BY <1>4 DEF AdoptSaved
  <2>2. /\ t \in Controllers /\ t.queue = s.queue /\ t.failed = s.failed /\ t.inflight = NoEntry
        /\ t.flushing = s.flushing
    BY <2>1 DEF Controllers
  <2>. HIDE DEF t
  <2>3. Pursues(s, t)
    BY <2>2, FewerPursues
  <2>. QED  BY <2>3 DEF t
<1>5. CASE Heeded(s, p.e)
  <2>1. AdoptSaved(s, p) = [s EXCEPT !.accepted = gen, !.queue = q, !.status = done]
    BY <1>5 DEF AdoptSaved
  <2>. HIDE DEF q, gen, done
  <2>2. t = [s EXCEPT !.accepted = gen, !.queue = q, !.status = done, !.inflight = NoEntry]
    BY <2>1 DEF Controllers
  <2>3. /\ t \in Controllers /\ t.queue = q /\ t.failed = s.failed /\ t.inflight = NoEntry
        /\ t.flushing = s.flushing
    BY <1>2, <1>3, <2>2 DEF Controllers
  <2>. HIDE DEF t
  <2>4. Pursues(s, t)
    BY <1>3, <2>3, SettledPursues
  <2>. QED  BY <2>4 DEF t
<1>. QED  BY <1>4, <1>5

\* The answer to a save: success, loss and conflict; the draft goes only with a success that holds it.
LEMMA SaveAnsweredRetains ==
    ASSUME IInv, KeptInv, NEW i \in DOMAIN ctl, SaveAnswered(i) PROVE KeptInv'
<1>. DEFINE s == ctl[i]
            p == s.inflight
            ok == p.at = "ok"
            u == [IF ok THEN AdoptSaved(s, p) ELSE KeepFailed(s, p, i = Mounted)
                  EXCEPT !.inflight = NoEntry]
            go == ok \/ p.e.epoch # s.epoch
            t == Continue(u, go, conflict')
<1>1. s \in Controllers
  BY DEF IInv, CtlsInv, CtlInv
<1>2. /\ p # NoEntry /\ Replaced(i, t) /\ draft' = (IF p.at = "ok" THEN Cleared(p.e) ELSE draft)
      /\ UNCHANGED <<results, wire, tab, doc, seen, made, dropped, shelved, offered>> /\ head' = head
  BY DEF SaveAnswered, history, server
<1>3. Pursues(s, u)
  <2>1. CASE ok
    <3>1. u = [AdoptSaved(s, p) EXCEPT !.inflight = NoEntry]
      BY <2>1
    <3>. HIDE DEF u
    <3>. QED  BY <1>1, <1>2, <3>1, AdoptPursues
  <2>2. CASE ~ok
    <3>. DEFINE mounted == i = Mounted
    <3>1. u = [KeepFailed(s, p, mounted) EXCEPT !.inflight = NoEntry]
      BY <2>2
    <3>. HIDE DEF mounted, u
    <3>. QED  BY <1>1, <1>2, <3>1, FailedPursues
  <2>. QED  BY <2>1, <2>2
<1>4. draft' = draft \/ (draft' = NoEntry /\ InDraft \subseteq Saved)
  BY <1>2, OkClears
<1>. HIDE DEF u, go
<1>5. Pursues(u, t)
  BY <1>3, ContinuePursues DEF Pursues
<1>. QED  BY <1>2, <1>3, <1>4, <1>5, HereRetains

\* An export has ended: the queue, the newest save, is rebased, and the draft with it.
LEMMA ResumeRetains ==
    ASSUME IInv, OrderInv, KeptInv, "export" \in events, Exporting(c),
           results' = results, head'.body = head.body,
           NEW u \in Controllers, u.queue = c.queue, u.failed = c.failed, u.inflight = c.inflight,
           u.flushing = c.flushing, u.epoch = c.epoch,
           NEW v, v = EndExport(u), Replaced(Mounted, Resumed(v)),
           draft' = IF v.queue # c.queue THEN v.queue ELSE draft,
           UNCHANGED <<wire, tab, doc, seen, made, dropped, shelved, offered>>
    PROVE  KeptInv'
<1>. DEFINE w == [u EXCEPT !.export = "none", !.exportGen = 0]
            q == Rebased(w.queue, w.accepted)
            t == Resumed(v)
<1>1. /\ Mounted \in DOMAIN ctl /\ c = ctl[Mounted] /\ c \in Controllers /\ CtlInv(head, results, c)
      /\ tab = "open" /\ offered = NoEntry /\ wire = {} /\ DOMAIN ctl = {Mounted}
  <2>1. Len(ctl) = 1 /\ wire = {} /\ tab = "open" /\ offered = NoEntry
    BY DEF IInv, ExportInv
  <2>2. DOMAIN ctl = {Mounted}
    BY <2>1 DEF IInv, SaveType, Mounted
  <2>. QED  BY <2>1, <2>2, MountedIs
<1>2. c.failed = NoEntry /\ c.inflight = NoEntry /\ c.flushing = NoEntry
  BY <1>1 DEF OrderInv, Tidy, IInv, ExportInv
<1>3. c.queue # NoEntry => c.queue \in Entries /\ Knows(c.queue) = doc \cup seen
  BY <1>1 DEF Controllers, IInv, MountedInv, PageInv
<1>4. /\ w \in Controllers /\ w.queue = c.queue /\ w.failed = NoEntry /\ w.inflight = NoEntry
      /\ w.flushing = NoEntry /\ w.accepted \in Nat
  BY <1>2 DEF Controllers
<1>5. v = w \/ (w.queue # NoEntry /\ v = [w EXCEPT !.queue = q])
  BY DEF EndExport
<1>. HIDE DEF w
<1>6. c.queue # NoEntry => q \in Entries /\ SameEdits(q, c.queue)
  BY <1>3, <1>4, RebasedIs
<1>. HIDE DEF q
<1>7. /\ v \in Controllers /\ v.failed = NoEntry /\ v.inflight = NoEntry /\ v.flushing = NoEntry
      /\ v.queue = c.queue \/ (c.queue # NoEntry /\ v.queue = q)
  BY <1>4, <1>5, <1>6 DEF Controllers
<1>8. Pursues(c, v)
  <2>1. Answers(v) = {}
    BY <1>7 DEF Answers
  <2>2. ASSUME NEW x \in Slots(v) PROVE x = v.queue /\ x # NoEntry
    BY <1>7, <2>2 DEF Slots, Others
  <2>3. c.queue # NoEntry => c.queue \in Slots(c) /\ SameEdits(c.queue, c.queue)
    BY DEF Slots, SameEdits
  <2>4. ASSUME NEW x \in Slots(v) PROVE \E y \in Slots(c) : SameEdits(x, y)
    BY <1>6, <1>7, <2>2, <2>3
  <2>. QED  BY <1>7, <2>1, <2>4 DEF Pursues
<1>9. Pursues(v, t)
  <2>1. Pursues(v, v) /\ Pursues(v, Process(v))
    BY <1>7, OperatorsPursue
  <2>. QED  BY <2>1 DEF Resumed
<1>. HIDE DEF t
<1>10. Replaced(Mounted, t)
  BY DEF t
<1>11. CASE draft' = draft
  BY <1>1, <1>8, <1>9, <1>10, <1>11, HereRetains
<1>12. CASE c.queue # NoEntry /\ draft' = q
  <2>1. /\ Gone' = Gone /\ Saved' = Saved /\ q # NoEntry
        /\ q.body = c.queue.body /\ q.n = c.queue.n /\ InDraft' = c.queue.body
    BY <1>6, <1>12, NoEntryOK DEF Gone, Saved, InDraft, SameEdits
  <2>2. Slots(c) \subseteq {c.queue} /\ c.queue \in Pending
    <3>1. Slots(c) = {c.queue}
      BY <1>2, <1>12 DEF Slots, Others
    <3>. QED  BY <1>1, <1>3, <1>12, <3>1 DEF Pending
  <2>3. c.queue.seen \subseteq c.queue.body \cup Gone
    BY <2>2 DEF KeptInv, EntriesInv
  <2>4. Pursues(c, t)
    BY <1>8, <1>9, PursuesOn
  <2>5. DOMAIN ctl' = {Mounted} /\ ctl'[Mounted] = t
    BY <1>1, <1>10, <2>4, ReplacedIs DEF IInv, Pursues
  <2>6. EntriesInv'
    <3>1. ASSUME NEW x \in Pending' PROVE SameEdits(x, c.queue)
      <4>1. x \in Slots(t)
        BY <1>1, <2>5 DEF Pending
      <4>. QED  BY <2>2, <2>4, <4>1 DEF Pursues
    <3>. QED  BY <1>12, <2>1, <2>3, <3>1 DEF EntriesInv, SameEdits
  <2>7. AnswersInv'
    BY <1>1, <2>1, <2>4, <2>5 DEF AnswersInv, KeptInv, Pursues
  <2>8. EditsInv'
    <3>1. /\ seen \subseteq Saved /\ made \subseteq Saved \cup InDraft /\ seen \subseteq doc \cup Gone
          /\ InDraft \subseteq doc \cup Saved
      BY <1>1 DEF KeptInv, EditsInv
    <3>2. Gone \subseteq Saved
      BY DEF Saved
    <3>3. doc \subseteq Saved \cup c.queue.body /\ c.queue.body \subseteq doc \cup Saved
      BY <1>3, <1>12, <2>3, <3>1, <3>2 DEF Knows
    <3>4. made \subseteq Saved \cup c.queue.body
      BY <3>1, <3>3
    <3>. HIDE DEF Saved, Gone, InDraft
    <3>. QED  BY <1>1, <2>1, <3>1, <3>3, <3>4 DEF EditsInv
  <2>. QED  BY <2>6, <2>7, <2>8 DEF KeptInv
<1>. QED  BY <1>7, <1>11, <1>12

\* The answer to an export adopts its generation, and the entries keep their edits.
LEMMA ExportAnsweredRetains == ASSUME IInv, OrderInv, KeptInv, ExportAnswered PROVE KeptInv'
<1>1. /\ c \in Controllers /\ c.accepted \in Nat /\ head \in HeadsOfDeck /\ head.gen \in Nat
  BY MountedIs DEF IInv, World, HeadsOfDeck, Controllers
<1>2. /\ results' = results /\ Exporting(c)
      /\ UNCHANGED <<wire, tab, doc, seen, made, dropped, shelved, offered>>
  BY DEF ExportAnswered, page, history, Exporting
<1>3. "export" \in events
  BY DEF ExportAnswered, IInv, ExportInv
<1>4. CASE head' = [head EXCEPT !.gen = @ + 1]
  <2>. DEFINE u == [c EXCEPT !.accepted = Most(@, head'.gen)]
              v == EndExport(u)
              gen == Most(c.accepted, head'.gen)
  <2>1. head'.gen = head.gen + 1 /\ head'.gen \in Nat /\ head' # head /\ head'.body = head.body
    BY <1>1, <1>4 DEF HeadsOfDeck
  <2>2. gen \in Nat
    BY <1>1, <2>1 DEF Most
  <2>3. u = [c EXCEPT !.accepted = gen]
    OBVIOUS
  <2>. HIDE DEF gen
  <2>4. /\ u \in Controllers /\ u.queue = c.queue /\ u.failed = c.failed
        /\ u.inflight = c.inflight /\ u.flushing = c.flushing /\ u.epoch = c.epoch
    BY <1>1, <2>2, <2>3 DEF Controllers
  <2>. HIDE DEF u
  <2>5. v = [v EXCEPT !.export = "none"]
    <3>. DEFINE w == [u EXCEPT !.export = "none", !.exportGen = 0]
                q == Rebased(w.queue, w.accepted)
    <3>1. w \in Controllers /\ w.export = "none"
      BY <2>4 DEF Controllers
    <3>2. v = w \/ v = [w EXCEPT !.queue = q]
      BY DEF EndExport
    <3>. HIDE DEF w, q, v
    <3>. QED  BY <3>1, <3>2 DEF Controllers
  <2>6. \/ Replaced(Mounted, Resumed(v)) /\ draft' = (IF v.queue # c.queue THEN v.queue ELSE draft)
        \/ head' = head
    BY <2>5 DEF ExportAnswered, u
  <2>. QED  BY <1>2, <1>3, <2>1, <2>4, <2>6, ResumeRetains
<1>5. CASE head' = head
  <2>. DEFINE v == EndExport(c)
  <2>1. head # [head EXCEPT !.gen = @ + 1]
    BY <1>1 DEF HeadsOfDeck
  <2>2. Replaced(Mounted, Resumed(v)) /\ draft' = (IF v.queue # c.queue THEN v.queue ELSE draft)
    BY <1>5, <2>1 DEF ExportAnswered
  <2>. QED  BY <1>1, <1>2, <1>3, <1>5, <2>2, ResumeRetains
<1>. QED  BY <1>4, <1>5 DEF ExportAnswered

-----------------------------------------------------------------------------
(* The page *)

\* A save is scheduled for the document; the entry is also the draft.
LEMMA SaveRetains ==
    ASSUME IInv, OrderInv, KeptInv, UNCHANGED <<results, wire>>, Saved \subseteq Saved', Gone \subseteq Gone',
           NEW s \in Controllers, s.queue = c.queue, s.failed \in {c.failed, NoEntry},
           s.inflight = c.inflight, s.flushing = c.flushing, s.attempt = c.attempt,
           NEW key \in Nat, NEW body \in Bodies, NEW view \in Bodies,
           NEW u, u = Schedule(s, body, key, view),
           NEW t, t = Now(u) \/ t = Later(u), Replaced(Mounted, t), draft' = u.queue,
           tab' = "open", offered' = NoEntry, doc' = body, view = seen',
           seen' \subseteq Saved', seen' \subseteq body \cup Gone', made' \subseteq Saved' \cup body
    PROVE  KeptInv'
<1>. DEFINE e == [n |-> s.attempt + 1, key |-> key, gen |-> s.accepted, body |-> body,
                  epoch |-> s.epoch, seen |-> view]
<1>1. /\ Mounted \in DOMAIN ctl /\ c = ctl[Mounted] /\ c \in Controllers /\ c.attempt \in Nat
      /\ s.accepted \in Nat /\ s.epoch \in Nat
  BY MountedIs DEF Controllers
<1>2. e \in Entries /\ e.n = c.attempt + 1 /\ e.body = body /\ e.seen = view /\ e # NoEntry
  <2>1. e \in Entries /\ e.n = c.attempt + 1 /\ e.body = body /\ e.seen = view
    BY <1>1 DEF Entries
  <2>. HIDE DEF e
  <2>. QED  BY <2>1, NoEntryOK
<1>3. u = [s EXCEPT !.queue = e, !.attempt = @ + 1, !.timer = FALSE, !.status = "saving"]
  BY DEF Schedule
<1>. HIDE DEF e
<1>4. /\ u \in Controllers /\ u.queue = e /\ u.failed = s.failed
      /\ u.inflight = c.inflight /\ u.flushing = c.flushing
  <2>1. "saving" \in {"", "saving", "saved", "error"} /\ s.attempt + 1 \in Nat
        /\ e \in Entries \cup {NoEntry}
    BY <1>1, <1>2
  <2>2. u = [s EXCEPT !.queue = e, !.attempt = s.attempt + 1, !.timer = FALSE, !.status = "saving"]
    BY <1>1, <1>3 DEF Controllers
  <2>3. /\ u \in Controllers /\ u.queue = e /\ u.failed = s.failed
        /\ u.inflight = s.inflight /\ u.flushing = s.flushing
    BY <2>1, <2>2 DEF Controllers
  <2>. QED  BY <2>3
<1>5. Pursues(u, t)
  <2>1. Pursues(u, u) /\ Pursues(u, Process(u))
    BY <1>4, OperatorsPursue
  <2>2. Pursues(u, Later(u))
    <3>. DEFINE b == ~Exporting(u)
                w == [u EXCEPT !.timer = b]
    <3>1. Later(u) = w /\ b \in BOOLEAN
      BY DEF Later
    <3>. HIDE DEF b
    <3>2. /\ w \in Controllers /\ w.queue = u.queue /\ w.failed = u.failed
          /\ w.inflight = u.inflight /\ w.flushing = u.flushing
      BY <1>4, <3>1 DEF Controllers
    <3>. HIDE DEF w
    <3>. QED  BY <1>4, <3>1, <3>2, FewerPursues
  <2>. QED  BY <2>1, <2>2 DEF Now
<1>6. t \in Controllers /\ Answers(t) \subseteq Answers(c)
  BY <1>4, <1>5 DEF Pursues, Answers
<1>7. /\ DOMAIN ctl' = DOMAIN ctl
      /\ \A j \in DOMAIN ctl : ctl'[j] = IF j = Mounted THEN t ELSE ctl[j]
  BY <1>1, <1>6, ReplacedIs DEF IInv
<1>8. \A y \in Pending : y.n < e.n
  <2>1. \A y \in Pending : y.n \in Nat /\ y.n <= c.attempt
    BY KnownType DEF OrderInv, Known, Entries
  <2>. QED  BY <1>1, <1>2, <2>1
<1>9. ASSUME NEW x \in Pending' PROVE SameEdits(x, e) \/ \E y \in Pending : SameEdits(x, y)
  <2>1. x \in Entries /\ ((\E j \in DOMAIN ctl' : x \in Slots(ctl'[j])) \/ \E p \in wire : x = p.e)
    BY DEF Pending
  <2>2. CASE x \in Slots(t)
    <3>1. PICK y \in Slots(u) : SameEdits(x, y)
      BY <1>5, <2>2 DEF Pursues
    <3>2. y = e \/ y \in Slots(c)
      BY <1>4, <3>1 DEF Slots, Others
    <3>3. y \in Slots(c) => y \in Pending
      BY <1>1, SlotsAre DEF Pending
    <3>. QED  BY <3>1, <3>2, <3>3
  <2>3. CASE (\E j \in DOMAIN ctl : x \in Slots(ctl[j])) \/ \E p \in wire : x = p.e
    <3>1. x \in Pending
      BY <2>1, <2>3 DEF Pending
    <3>. QED  BY <3>1 DEF SameEdits
  <2>. QED  BY <1>7, <2>1, <2>2, <2>3
<1>10. draft' = e /\ InDraft' = body
  BY <1>2, <1>4 DEF InDraft
<1>11. EntriesInv'
  <2>1. ASSUME NEW x \in Pending'
        PROVE  /\ x.seen \subseteq x.body \cup Gone'
               /\ draft' # NoEntry /\ draft'.n <= x.n => draft'.body \subseteq x.body \cup Saved'
    <3>1. CASE SameEdits(x, e)
      BY <1>2, <1>10, <3>1 DEF SameEdits
    <3>2. ASSUME NEW y \in Pending, SameEdits(x, y)
          PROVE  /\ x.seen \subseteq x.body \cup Gone' /\ ~(e.n <= x.n)
      <4>1. y.seen \subseteq y.body \cup Gone /\ y.n < e.n /\ y.n \in Nat /\ e.n \in Nat
        BY <1>1, <1>2, <1>8, KnownType DEF KeptInv, EntriesInv, Entries
      <4>. HIDE DEF Gone
      <4>. QED  BY <3>2, <4>1 DEF SameEdits
    <3>. QED  BY <1>9, <1>10, <3>1, <3>2
  <2>. QED  BY <2>1 DEF EntriesInv
<1>12. AnswersInv'
  <2>1. \A r \in results : r.body \subseteq Saved'
    BY DEF KeptInv, AnswersInv
  <2>2. ASSUME NEW j \in DOMAIN ctl, NEW p \in Answers(IF j = Mounted THEN t ELSE ctl[j])
        PROVE  p.e.body \subseteq Saved'
    BY <1>1, <1>6 DEF KeptInv, AnswersInv
  <2>. QED  BY <1>7, <2>1, <2>2 DEF AnswersInv
<1>13. EditsInv'
  <2>. HIDE DEF Gone, Saved, InDraft
  <2>. QED  BY <1>10 DEF EditsInv
<1>. QED  BY <1>11, <1>12, <1>13 DEF KeptInv

\* What the page knows of its edits while no draft is offered.
LEMMA PageKnows ==
    ASSUME KeptInv, tab = "open", offered = NoEntry
    PROVE  /\ seen \subseteq Saved /\ seen \subseteq doc \cup Gone /\ Gone \subseteq Saved
           /\ made \subseteq Saved \cup doc /\ InDraft \subseteq doc \cup Saved
<1>1. /\ seen \subseteq Saved /\ made \subseteq Saved \cup InDraft /\ seen \subseteq doc \cup Gone
      /\ InDraft \subseteq doc \cup Saved
  BY DEF KeptInv, EditsInv
<1>2. Gone \subseteq Saved
  BY DEF Saved
<1>. HIDE DEF Saved, Gone, InDraft
<1>. QED  BY <1>1, <1>2

\* An edit is in the draft before it is in the queue.
LEMMA EditRetains == ASSUME IInv, OrderInv, KeptInv, NEW e \in Edit, EditDoc(e) PROVE KeptInv'
<1>. DEFINE u == Schedule(c, doc', NewKey(c), seen)
<1>1. /\ tab = "open" /\ offered = NoEntry /\ tab' = "open" /\ offered' = NoEntry
      /\ doc' = doc \cup {e} /\ made' = made \cup {e} /\ seen' = seen
      /\ Replaced(Mounted, Later(u)) /\ draft' = u.queue
      /\ UNCHANGED <<results, wire, dropped, shelved>> /\ head' = head
  BY DEF EditDoc, Usable, server
<1>2. doc' \in Bodies /\ seen' \in Bodies /\ c \in Controllers /\ NewKey(c) \in Nat
  BY <1>1, MountedKnows DEF Bodies
<1>3. Saved' = Saved /\ Gone' = Gone
  BY <1>1 DEF Saved, Gone
<1>4. seen' \subseteq Saved' /\ seen' \subseteq doc' \cup Gone' /\ made' \subseteq Saved' \cup doc'
  <2>. HIDE DEF Saved, Gone, InDraft
  <2>. QED  BY <1>1, <1>3, PageKnows
<1>5. u = Schedule(c, doc', NewKey(c), seen')
  BY <1>1
<1>. HIDE DEF u
<1>. QED  BY <1>1, <1>2, <1>3, <1>4, <1>5, SaveRetains

\* A save by hand queues the document that is open.
LEMMA ManualRetains == ASSUME IInv, OrderInv, KeptInv, ManualSave PROVE KeptInv'
<1>. DEFINE u == Schedule(c, doc', NewKey(c), seen')
<1>1. /\ tab = "open" /\ offered = NoEntry /\ tab' = "open" /\ offered' = NoEntry
      /\ doc' = doc /\ made' = made /\ seen' = seen
      /\ Replaced(Mounted, Now(u)) /\ draft' = u.queue
      /\ UNCHANGED <<results, wire, dropped, shelved>> /\ head' = head
  BY DEF ManualSave, Usable, server, page, history
<1>2. doc' \in Bodies /\ seen' \in Bodies /\ c \in Controllers /\ NewKey(c) \in Nat
  BY <1>1, MountedKnows
<1>3. Saved' = Saved /\ Gone' = Gone
  BY <1>1 DEF Saved, Gone
<1>4. seen' \subseteq Saved' /\ seen' \subseteq doc' \cup Gone' /\ made' \subseteq Saved' \cup doc'
  <2>. HIDE DEF Saved, Gone, InDraft
  <2>. QED  BY <1>1, <1>3, PageKnows
<1>. HIDE DEF u
<1>. QED  BY <1>1, <1>2, <1>3, <1>4, SaveRetains DEF u

\* The conflict dialog is never below the recovery dialog.
LEMMA NothingOffered == ASSUME IInv, OrderInv, conflict PROVE offered = NoEntry
<1>1. Stuck(head, results, c) /\ c.epoch \in Nat
  BY MountedIs DEF IInv, ConflictInv, Controllers
<1>. QED  BY <1>1 DEF OrderInv, DraftsInv, Alone, Stuck

\* Keeping the local version: the user saw what the server has and gives up the rest of it.
LEMMA KeepLocalRetains == ASSUME IInv, OrderInv, KeptInv, KeepLocal PROVE KeptInv'
<1>. DEFINE s == [c EXCEPT !.accepted = Most(@, head.gen), !.failed = NoEntry]
            u == Schedule(s, doc', NewKey(s), seen')
<1>1. /\ tab = "open" /\ conflict /\ tab' = "open" /\ offered' = offered
      /\ doc' = doc /\ made' = made /\ seen' = seen \cup head.body
      /\ dropped' = dropped \cup (head.body \ doc) /\ shelved' = shelved
      /\ Replaced(Mounted, Now(u)) /\ draft' = u.queue
      /\ UNCHANGED <<results, wire>> /\ head' = head
  BY DEF KeepLocal, server
<1>2. /\ c \in Controllers /\ c.accepted \in Nat /\ head.gen \in Nat /\ c.attempt \in Nat
      /\ doc \in Bodies /\ seen \in Bodies /\ head.body \in Bodies
  BY <1>1, MountedKnows DEF Controllers
<1>3. Most(c.accepted, head.gen) \in Nat
  BY <1>2 DEF Most
<1>4. /\ s \in Controllers /\ s.failed = NoEntry /\ s.inflight = c.inflight /\ s.queue = c.queue
      /\ s.attempt = c.attempt /\ s.flushing = c.flushing
  BY <1>2, <1>3 DEF Controllers
<1>. HIDE DEF s
<1>5. offered = NoEntry
  BY <1>1, NothingOffered
<1>6. NewKey(s) \in Nat /\ seen' \in Bodies
  BY <1>1, <1>2, <1>4 DEF NewKey, Bodies
<1>7. Saved \subseteq Saved' /\ Gone \subseteq Gone' /\ head.body \subseteq Saved'
      /\ head.body \subseteq doc \cup Gone'
  BY <1>1 DEF Saved, Gone
<1>8. seen' \subseteq Saved' /\ seen' \subseteq doc' \cup Gone' /\ made' \subseteq Saved' \cup doc'
  <2>. HIDE DEF Saved, Gone, InDraft
  <2>. QED  BY <1>1, <1>5, <1>7, PageKnows
<1>. HIDE DEF u
<1>. QED  BY <1>1, <1>2, <1>4, <1>5, <1>6, <1>7, <1>8, SaveRetains DEF u

\* Recovering the draft opens the document it holds.
LEMMA RecoverRetains == ASSUME IInv, OrderInv, KeptInv, RecoverLocal PROVE KeptInv'
<1>. DEFINE s == [c EXCEPT !.accepted = Most(@, offered.gen)]
            u == Schedule(s, offered.body, offered.key, seen)
<1>1. /\ tab = "open" /\ offered # NoEntry /\ tab' = "open" /\ offered' = NoEntry
      /\ doc' = offered.body /\ made' = made /\ seen' = seen
      /\ dropped' = dropped \cup (doc \ offered.body) /\ shelved' = shelved
      /\ Replaced(Mounted, Now(u)) /\ draft' = u.queue
      /\ UNCHANGED <<results, wire>> /\ head' = head
  BY DEF RecoverLocal, server
<1>2. /\ offered \in Entries /\ offered.gen \in Nat /\ offered.key \in Nat /\ offered.body \in Bodies
  BY <1>1 DEF IInv, SaveType, Entries
<1>3. /\ c \in Controllers /\ c.accepted \in Nat /\ seen \in Bodies
  BY <1>1, MountedKnows DEF Controllers
<1>4. Most(c.accepted, offered.gen) \in Nat
  BY <1>2, <1>3 DEF Most
<1>5. /\ s \in Controllers /\ s.failed = c.failed /\ s.inflight = c.inflight /\ s.queue = c.queue
      /\ s.attempt = c.attempt /\ s.flushing = c.flushing
  BY <1>3, <1>4 DEF Controllers
<1>. HIDE DEF s
<1>6. /\ Saved \subseteq Saved' /\ Gone \subseteq Gone' /\ doc \subseteq offered.body \cup Gone'
  BY <1>1 DEF Saved, Gone
<1>7. seen' \subseteq Saved' /\ seen' \subseteq doc' \cup Gone' /\ made' \subseteq Saved' \cup doc'
  <2>1. InDraft \subseteq offered.body
    BY <1>1 DEF KeptInv, EditsInv, InDraft
  <2>2. seen \subseteq Saved /\ seen \subseteq doc \cup Gone /\ made \subseteq Saved \cup InDraft
    BY <1>1 DEF KeptInv, EditsInv
  <2>. HIDE DEF Saved, Gone, InDraft
  <2>. QED  BY <1>1, <1>6, <2>1, <2>2
<1>. HIDE DEF u
<1>. QED  BY <1>1, <1>2, <1>3, <1>5, <1>6, <1>7, SaveRetains DEF u

\* Taking the version of the server gives up the local edits by the choice of the user.
LEMMA UseRemoteRetains == ASSUME IInv, OrderInv, KeptInv, UseRemote PROVE KeptInv'
<1>. DEFINE off == IF c.export = "wait" THEN "none" ELSE c.export
            t == [c EXCEPT !.accepted = Most(@, head.gen), !.queue = NoEntry,
                           !.failed = NoEntry, !.timer = FALSE, !.attempt = @ + 1,
                           !.export = IF @ = "wait" THEN "none" ELSE @, !.status = ""]
            gen == Most(c.accepted, head.gen)
<1>1. /\ tab = "open" /\ conflict /\ Replaced(Mounted, t) /\ draft' \in {draft, NoEntry}
      /\ doc' = head.body /\ seen' = seen \cup head.body /\ made' = made
      /\ dropped' = dropped \cup (doc \ head.body) /\ shelved' = shelved
      /\ UNCHANGED <<results, wire, offered, tab>> /\ head' = head
  BY DEF UseRemote, server
<1>0. Mounted \in DOMAIN ctl /\ c = ctl[Mounted]
  BY MountedIs
<1>2. c \in Controllers /\ c.attempt + 1 \in Nat /\ gen \in Nat
  <2>1. c \in Controllers /\ c.accepted \in Nat /\ head.gen \in Nat /\ c.attempt \in Nat
    BY <1>1, MountedKnows DEF Controllers
  <2>. QED  BY <2>1 DEF Most
<1>3. off \in {"none", "wait", "begun", "sent"}
  BY <1>2 DEF Controllers
<1>4. t = [c EXCEPT !.accepted = gen, !.queue = NoEntry, !.failed = NoEntry, !.timer = FALSE,
                    !.attempt = c.attempt + 1, !.export = off, !.status = ""]
  BY <1>2 DEF Controllers
<1>. HIDE DEF off, gen
<1>5. /\ t \in Controllers /\ t.queue = NoEntry /\ t.failed = NoEntry
      /\ t.inflight = c.inflight /\ t.flushing = c.flushing
  BY <1>2, <1>3, <1>4 DEF Controllers
<1>. HIDE DEF t
<1>6. Pursues(c, t)
  BY <1>2, <1>5, FewerPursues
<1>7. /\ Saved \subseteq Saved' /\ Gone \subseteq Gone' /\ head.body \subseteq Saved'
      /\ Saved \subseteq head.body \cup Gone' /\ doc \subseteq Saved'
  BY <1>1 DEF Saved, Gone
<1>8. EntriesInv' /\ AnswersInv'
  <2>1. wire' \subseteq wire /\ \A r \in results' : r.body \subseteq Saved'
    BY <1>1, <1>7 DEF KeptInv, AnswersInv
  <2>. QED  BY <1>0, <1>1, <1>6, <1>7, <2>1, EntriesRest DEF Pursues
<1>9. offered = NoEntry
  BY <1>1, NothingOffered
<1>10. EditsInv'
  <2>1. InDraft' \subseteq InDraft
    BY <1>1 DEF InDraft
  <2>2. InDraft \subseteq Saved' /\ seen' \subseteq Saved' /\ made \subseteq Saved'
        /\ seen' \subseteq head.body \cup Gone'
    <3>. HIDE DEF Saved, Gone, InDraft
    <3>. QED  BY <1>1, <1>7, <1>9, PageKnows
  <2>. HIDE DEF Saved, Gone, InDraft
  <2>. QED  BY <1>1, <1>7, <1>9, <2>1, <2>2 DEF EditsInv
<1>. QED  BY <1>8, <1>10 DEF KeptInv

\* The deck arrives: what the user saw before is in it, or was given up.
LEMMA LoadRetains == ASSUME IInv, KeptInv, LoadArrives PROVE KeptInv'
<1>. DEFINE gen == Most(c.accepted, head.gen)
            t == [c EXCEPT !.accepted = gen]
<1>1. /\ Replaced(Mounted, t) /\ tab = "loading" /\ tab' = "reading"
      /\ doc' = head.body /\ seen' = seen \cup head.body
      /\ UNCHANGED <<results, wire, draft, offered, made, dropped, shelved>> /\ head' = head
  BY DEF LoadArrives, server
<1>2. /\ c \in Controllers /\ c.accepted \in Nat /\ head.gen \in Nat
      /\ Mounted \in DOMAIN ctl /\ c = ctl[Mounted] /\ offered = NoEntry
  BY <1>1, MountedIs DEF Controllers, IInv, World, HeadsOfDeck, DraftInv
<1>3. gen \in Nat
  BY <1>2 DEF Most
<1>. HIDE DEF gen
<1>4. /\ t \in Controllers /\ t.queue = c.queue /\ t.failed = c.failed
      /\ t.inflight = c.inflight /\ t.flushing = c.flushing
  BY <1>2, <1>3 DEF Controllers
<1>. HIDE DEF t
<1>5. Pursues(c, t)
  BY <1>2, <1>4, FewerPursues
<1>6. Saved' = Saved /\ Gone' = Gone /\ InDraft' = InDraft /\ Saved = head.body \cup Gone
  BY <1>1 DEF Saved, Gone, InDraft
<1>7. EntriesInv' /\ AnswersInv'
  <2>1. wire' \subseteq wire /\ \A r \in results' : r.body \subseteq Saved'
    BY <1>1, <1>6 DEF KeptInv, AnswersInv
  <2>. QED  BY <1>1, <1>2, <1>5, <1>6, <2>1, EntriesRest DEF Pursues
<1>8. EditsInv'
  <2>. HIDE DEF Saved, Gone, InDraft
  <2>. QED  BY <1>1, <1>2, <1>6 DEF EditsInv, KeptInv
<1>. QED  BY <1>7, <1>8 DEF KeptInv

\* The draft that is found when a deck opens is offered.
LEMMA DraftReadRetains == ASSUME IInv, KeptInv, DraftRead PROVE KeptInv'
<1>1. /\ tab = "reading" /\ tab' = "open" /\ offered' = draft
      /\ UNCHANGED <<results, wire, ctl, draft, doc, seen, made, dropped, shelved>> /\ head' = head
  BY DEF DraftRead, server, history
<1>2. Saved' = Saved /\ Gone' = Gone /\ InDraft' = InDraft /\ doc \subseteq seen
  BY <1>1 DEF Saved, Gone, InDraft, IInv, MountedInv
<1>3. EntriesInv' /\ AnswersInv'
  <2>1. wire' \subseteq wire /\ \A r \in results' : r.body \subseteq Saved'
    BY <1>1, <1>2 DEF KeptInv, AnswersInv
  <2>. QED  BY <1>1, <1>2, <2>1, ControllersRest
<1>4. EditsInv'
  <2>1. (draft = NoEntry => InDraft = {}) /\ (draft # NoEntry => InDraft = draft.body)
    BY DEF InDraft
  <2>. HIDE DEF Saved, Gone, InDraft
  <2>. QED  BY <1>1, <1>2, <2>1 DEF EditsInv, KeptInv
<1>. QED  BY <1>3, <1>4 DEF KeptInv

\* The dialogs: a draft that is dismissed is dropped, one that is kept is shelved.
LEMMA DialogRetains ==
    ASSUME IInv, KeptInv, CloseConflict \/ DismissDraft \/ DeferDraft \/ Open PROVE KeptInv'
<1>1. /\ UNCHANGED <<results, wire, ctl, doc, seen, made>> /\ head' = head
      /\ draft' \in {draft, NoEntry} /\ wire' \subseteq wire
  BY ClearedIs DEF CloseConflict, DismissDraft, DeferDraft, Open, server, history
<1>2. Saved \subseteq Saved' /\ Gone \subseteq Gone'
  BY <1>1 DEF CloseConflict, DismissDraft, DeferDraft, Open, history, Saved, Gone
<1>3. EntriesInv' /\ AnswersInv'
  <2>1. \A r \in results' : r.body \subseteq Saved'
    BY <1>1, <1>2 DEF KeptInv, AnswersInv
  <2>. QED  BY <1>1, <1>2, <2>1, ControllersRest
<1>4. EditsInv'
  <2>1. CASE CloseConflict
    <3>1. UNCHANGED <<tab, doc, seen, made, dropped, shelved, offered, draft>>
      BY <2>1 DEF CloseConflict, history
    <3>. QED  BY <1>2, <3>1, PageRests
  <2>2. CASE Open
    <3>1. /\ tab' = "loading" /\ UNCHANGED <<offered, draft, dropped, shelved>> /\ offered = NoEntry
      BY <2>2 DEF Open, history, IInv, DraftInv
    <3>2. Saved' = Saved /\ InDraft' = InDraft
      BY <1>1, <3>1 DEF Saved, Gone, InDraft
    <3>. HIDE DEF Saved, Gone, InDraft
    <3>. QED  BY <1>1, <3>1, <3>2 DEF EditsInv, KeptInv
  <2>3. CASE DismissDraft
    <3>1. /\ tab = "open" /\ tab' = "open" /\ offered # NoEntry /\ offered' = NoEntry
          /\ draft' = Cleared(offered) /\ dropped' = dropped \cup (offered.body \ doc)
          /\ shelved' = shelved
      BY <2>3 DEF DismissDraft
    <3>2. offered.body \subseteq doc \cup Gone' /\ Gone' \subseteq Saved'
      BY <3>1 DEF Gone, Saved
    <3>3. doc \subseteq seen /\ offered.n \in Nat
      BY <3>1 DEF IInv, MountedInv, SaveType, Entries
    <3>4. draft \in {offered, NoEntry}
      BY <3>1 DEF EditsInv, KeptInv
    <3>5. draft' = NoEntry /\ InDraft' = {} /\ InDraft \subseteq offered.body
      BY <3>1, <3>3, <3>4 DEF Cleared, InDraft
    <3>6. seen \subseteq Saved /\ made \subseteq Saved \cup InDraft /\ seen \subseteq doc \cup Gone
      BY <3>1 DEF EditsInv, KeptInv
    <3>. HIDE DEF Saved, Gone, InDraft
    <3>. QED  BY <1>1, <1>2, <3>1, <3>2, <3>3, <3>5, <3>6 DEF EditsInv
  <2>4. CASE DeferDraft
    <3>1. /\ tab = "open" /\ tab' = "open" /\ offered # NoEntry /\ offered' = NoEntry
          /\ draft' = draft /\ dropped' = dropped /\ shelved' = shelved \cup offered.body
      BY <2>4 DEF DeferDraft
    <3>2. offered.body \subseteq Gone' /\ Gone' \subseteq Saved' /\ InDraft' = InDraft
      BY <3>1 DEF Gone, Saved, InDraft
    <3>3. InDraft \subseteq offered.body
      BY <3>1 DEF EditsInv, KeptInv, InDraft
    <3>4. /\ seen \subseteq Saved /\ made \subseteq Saved \cup InDraft /\ seen \subseteq doc \cup Gone
          /\ doc \subseteq Saved \cup InDraft
      BY <3>1 DEF EditsInv, KeptInv
    <3>. HIDE DEF Saved, Gone, InDraft
    <3>. QED  BY <1>1, <1>2, <3>1, <3>2, <3>3, <3>4 DEF EditsInv
  <2>. QED  BY <2>1, <2>2, <2>3, <2>4
<1>. QED  BY <1>3, <1>4 DEF KeptInv

-----------------------------------------------------------------------------
(* Leaving the deck *)

\* The page is closed; its draft stays, or was confirmed in the last moment.
LEMMA PageLeaves ==
    ASSUME KeptInv, Saved \subseteq Saved', Leave("switch") \/ Leave("unmount") \/ Leave("close"),
           draft' = draft \/ (draft' = NoEntry /\ InDraft \subseteq Saved')
    PROVE  EditsInv'
<1>1. tab' = "closed" /\ offered' = NoEntry /\ UNCHANGED <<seen, made>>
  BY DEF Leave, history
<1>2. InDraft \subseteq Saved' \cup InDraft'
  BY DEF InDraft
<1>3. seen \subseteq Saved /\ made \subseteq Saved \cup InDraft
  BY DEF KeptInv, EditsInv
<1>. HIDE DEF Saved, InDraft
<1>. QED  BY <1>1, <1>2, <1>3 DEF EditsInv

\* Leaving the deck flushes what is queued; the draft stays until the answer.
LEMMA SwitchRetains == ASSUME IInv, KeptInv, SwitchRoute PROVE KeptInv'
<1>. DEFINE f == Flushed(c)
            t == ResetForRoute(c)
<1>1. /\ Replaced(Mounted, t) /\ Leave("switch") /\ UNCHANGED <<draft, wire, results, dropped, shelved>>
      /\ head' = head
  BY DEF SwitchRoute, Leave, server, history
<1>2. /\ Mounted \in DOMAIN ctl /\ c = ctl[Mounted] /\ c \in Controllers /\ f \in Controllers
      /\ Pursues(c, f)
  BY MountedIs, OperatorsPursue DEF Pursues
<1>3. t = [f EXCEPT !.queue = NoEntry, !.failed = NoEntry, !.export = "none",
                    !.attempt = @ + 1, !.epoch = @ + 1, !.accepted = 0, !.status = ""]
  BY DEF ResetForRoute
<1>. HIDE DEF f
<1>4. /\ t \in Controllers /\ t.queue = NoEntry /\ t.failed = NoEntry
      /\ t.inflight = f.inflight /\ t.flushing = f.flushing
  <2>1. f.attempt \in Nat /\ f.epoch \in Nat
    BY <1>2 DEF Controllers
  <2>2. t = [f EXCEPT !.queue = NoEntry, !.failed = NoEntry, !.export = "none",
                      !.attempt = f.attempt + 1, !.epoch = f.epoch + 1, !.accepted = 0, !.status = ""]
    BY <1>2, <1>3 DEF Controllers
  <2>3. f.attempt + 1 \in Nat /\ f.epoch + 1 \in Nat /\ 0 \in Nat
    BY <2>1
  <2>. QED  BY <1>2, <2>2, <2>3 DEF Controllers
<1>. HIDE DEF t
<1>5. Pursues(c, t)
  BY <1>2, <1>4, FewerPursues, PursuesOn
<1>6. Saved' = Saved /\ Gone' = Gone
  BY <1>1 DEF Saved, Gone
<1>7. EntriesInv' /\ AnswersInv'
  <2>1. wire' \subseteq wire /\ \A r \in results' : r.body \subseteq Saved'
    BY <1>1, <1>6 DEF KeptInv, AnswersInv
  <2>. QED  BY <1>1, <1>2, <1>5, <1>6, <2>1, EntriesRest DEF Pursues
<1>8. EditsInv'
  BY <1>1, <1>6, PageLeaves
<1>. QED  BY <1>7, <1>8 DEF KeptInv

\* The controllers of the page that is left, and its requests, go on.
LEMMA LeftRetains ==
    ASSUME KeptInv, Saved \subseteq Saved', Gone' = Gone, draft' \in {draft, NoEntry},
           Pending' \subseteq Pending, \A r \in results' : r.body \subseteq Saved',
           \A i \in DOMAIN ctl' : \A p \in Answers(ctl'[i]) : \E j \in DOMAIN ctl : p \in Answers(ctl[j])
    PROVE  EntriesInv' /\ AnswersInv'
<1>1. EntriesInv'
  <2>1. ASSUME NEW x \in Pending'
        PROVE  /\ x.seen \subseteq x.body \cup Gone'
               /\ draft' # NoEntry /\ draft'.n <= x.n => draft'.body \subseteq x.body \cup Saved'
    <3>1. /\ x.seen \subseteq x.body \cup Gone
          /\ draft # NoEntry /\ draft.n <= x.n => draft.body \subseteq x.body \cup Saved
      BY DEF KeptInv, EntriesInv
    <3>. HIDE DEF Saved, Gone
    <3>. QED  BY <3>1
  <2>. QED  BY <2>1 DEF EntriesInv
<1>2. AnswersInv'
  BY DEF KeptInv, AnswersInv
<1>. QED  BY <1>1, <1>2

\* A new controller has no answer.
LEMMA FreshAnswers == ASSUME NEW n PROVE Answers(Fresh(n)) = {}
<1>1. Fresh(n).inflight = NoEntry /\ Fresh(n).flushing = NoEntry
  BY DEF Fresh
<1>. QED  BY <1>1 DEF Answers

\* Leaving the editor flushes what is queued; the draft stays until the answer.
LEMMA UnmountRetains == ASSUME IInv, ExportsAlone, KeptInv, Unmount PROVE KeptInv'
<1>. DEFINE f == Flushed(c)
            t == [f EXCEPT !.export = "none"]
            left == [ctl EXCEPT ![Mounted] = t]
            new == Fresh(c.attempt)
<1>1. /\ ctl' = Append(left, new) /\ Leave("unmount") /\ wire' = wire /\ draft' = draft
      /\ head' = head /\ results' = results /\ UNCHANGED <<dropped, shelved>>
  BY DEF Unmount, Leave, server, history
<1>2. c.export = "none"
  BY <1>1, LeaveIs
<1>3. /\ Mounted \in DOMAIN ctl /\ c = ctl[Mounted] /\ c \in Controllers /\ c.attempt \in Nat
      /\ ctl \in Seq(Controllers) /\ CtlInv(head, results, c)
  BY MountedIs DEF IInv, SaveType, Controllers
<1>4. f \in Controllers /\ f.export = "none" /\ Slots(f) \subseteq Slots(c) /\ Answers(f) \subseteq Answers(c)
  <2>1. f.export = c.export
    BY <1>3, FlushedKeeps
  <2>2. Carries(c, f) /\ Pursues(c, f)
    BY <1>3, FlushedCarries, OperatorsPursue
  <2>. QED  BY <1>2, <2>1, <2>2 DEF Carries, Pursues
<1>. HIDE DEF f
<1>5. t = f
  BY <1>4 DEF Controllers
<1>. HIDE DEF t
<1>6. /\ left \in Seq(Controllers) /\ Len(left) = Len(ctl)
      /\ \A i \in DOMAIN left : i \in DOMAIN ctl /\ left[i] = IF i = Mounted THEN f ELSE ctl[i]
  BY <1>3, <1>4, <1>5
<1>. HIDE DEF left
<1>7. Slots(new) = {} /\ new \in Controllers /\ Answers(new) = {}
  BY <1>3, FreshOrders, FreshAnswers
<1>. HIDE DEF new
<1>8. \A i \in DOMAIN ctl' : (i \in DOMAIN left /\ ctl'[i] = left[i]) \/ ctl'[i] = new
  BY <1>1, <1>6, <1>7
<1>9. ASSUME NEW i \in DOMAIN ctl'
      PROVE  /\ \A x \in Slots(ctl'[i]) : \E j \in DOMAIN ctl : x \in Slots(ctl[j])
             /\ \A p \in Answers(ctl'[i]) : \E j \in DOMAIN ctl : p \in Answers(ctl[j])
  <2>1. CASE ctl'[i] = new
    BY <1>7, <2>1
  <2>2. CASE i \in DOMAIN left /\ ctl'[i] = left[i]
    BY <1>3, <1>4, <1>6, <2>2
  <2>. QED  BY <1>8, <2>1, <2>2
<1>10. Pending' \subseteq Pending
  BY <1>1, <1>9 DEF Pending
<1>11. Saved' = Saved /\ Gone' = Gone
  BY <1>1 DEF Saved, Gone
<1>12. \A r \in results' : r.body \subseteq Saved'
  BY <1>1, <1>11 DEF KeptInv, AnswersInv
<1>. QED  BY <1>1, <1>9, <1>10, <1>11, <1>12, LeftRetains, PageLeaves DEF KeptInv

\* Closing the page ends every controller; the draft stays.
LEMMA CloseRetains == ASSUME IInv, KeptInv, ClosePage PROVE KeptInv'
<1>. DEFINE at(i) == IF i = Mounted THEN Flushed(c) ELSE ctl[i]
            puts(i) == PutsOf(at(i))
            e == FlushEntry(c)
            new == Fresh(c.attempt)
<1>1. /\ ctl' = <<new>> /\ wire' = wire \cup UNION {puts(i) : i \in DOMAIN ctl}
      /\ Leave("close") /\ UNCHANGED <<dropped, shelved>>
      /\ \/ UNCHANGED server /\ draft' = draft
         \/ /\ CanFlush(c) /\ Serve(e)
            /\ draft' = IF Verdict(e) = "ok" THEN Cleared(e) ELSE draft
  BY DEF ClosePage, Leave, history
<1>2. /\ Mounted \in DOMAIN ctl /\ c = ctl[Mounted] /\ c \in Controllers /\ c.attempt \in Nat
      /\ wire \subseteq Puts
  BY MountedIs DEF IInv, SaveType, Controllers
<1>3. Gone' = Gone
  BY <1>1 DEF Gone
<1>4. /\ Saved \subseteq Saved' /\ \A r \in results' : r.body \subseteq Saved'
      /\ draft' = draft \/ (draft' = NoEntry /\ InDraft \subseteq Saved')
  <2>1. CASE UNCHANGED server /\ draft' = draft
    <3>1. Saved' = Saved /\ results' = results
      BY <1>3, <2>1 DEF server, Saved
    <3>. QED  BY <2>1, <3>1 DEF KeptInv, AnswersInv
  <2>2. CASE /\ CanFlush(c) /\ Serve(e)
             /\ draft' = IF Verdict(e) = "ok" THEN Cleared(e) ELSE draft
    <3>1. e \in Slots(c)
      BY <2>2 DEF CanFlush, FlushEntry, Slots, Others
    <3>2. e \in Pending
      BY <1>2, <3>1, SlotsAre DEF Pending
    <3>. HIDE DEF e
    <3>3. /\ Saved \subseteq Saved' /\ \A r \in results' : r.body \subseteq Saved'
          /\ Verdict(e) = "ok" => e.body \subseteq Saved'
      BY <1>1, <2>2, <3>2, ServeRetains
    <3>. QED  BY <2>2, <3>2, <3>3, ClearedRetains
  <2>. QED  BY <1>1, <2>1, <2>2
<1>5. ASSUME NEW i \in DOMAIN ctl, NEW p \in puts(i) PROVE p.e \in Slots(ctl[i])
  <2>. DEFINE s == at(i)
  <2>1. Slots(s) \subseteq Slots(ctl[i])
    BY <1>2, FlushedCarries DEF Carries
  <2>. HIDE DEF s
  <2>2. p \in {s.inflight, s.flushing} /\ p # NoEntry
    BY DEF PutsOf, s
  <2>3. p.e \in Slots(s)
    BY <2>2 DEF Slots, Others
  <2>. QED  BY <2>1, <2>3
<1>. HIDE DEF puts
<1>6. ASSUME NEW p \in wire'
      PROVE  p \in wire \/ \E i \in DOMAIN ctl : p.e \in Slots(ctl[i])
  BY <1>1, <1>5
<1>7. Slots(new) = {} /\ Answers(new) = {}
  BY <1>2, FreshOrders, FreshAnswers
<1>. HIDE DEF new
<1>8. \A i \in DOMAIN ctl' : ctl'[i] = new
  BY <1>1
<1>9. Pending' \subseteq Pending
  BY <1>6, <1>7, <1>8 DEF Pending
<1>10. EntriesInv' /\ AnswersInv'
  <2>1. draft' \in {draft, NoEntry}
    BY <1>4
  <2>2. \A i \in DOMAIN ctl' : \A p \in Answers(ctl'[i]) : \E j \in DOMAIN ctl : p \in Answers(ctl[j])
    BY <1>7, <1>8
  <2>. QED  BY <1>3, <1>4, <1>9, <2>1, <2>2, LeftRetains
<1>11. EditsInv'
  BY <1>1, <1>4, PageLeaves
<1>. QED  BY <1>10, <1>11 DEF KeptInv

-----------------------------------------------------------------------------
(* Every step keeps the edits. *)

\* The invariant holds of the first page.
LEMMA KeptInitially == ASSUME Init PROVE KeptInv
<1>. DEFINE zero == 0
            s == Fresh(zero)
            t == [s EXCEPT !.accepted = 1]
<1>1. zero \in Nat /\ ctl = <<t>>
  BY DEF Init
<1>. HIDE DEF zero
<1>2. s \in Controllers /\ Slots(s) = {} /\ Answers(s) = {}
  BY <1>1, FreshOrders, FreshAnswers
<1>. HIDE DEF s
<1>3. /\ t.queue = s.queue /\ t.failed = s.failed /\ t.inflight = s.inflight
      /\ t.flushing = s.flushing
  BY <1>2 DEF Controllers
<1>. HIDE DEF t
<1>4. Slots(t) = {} /\ Answers(t) = {} /\ \A i \in DOMAIN ctl : ctl[i] = t
  BY <1>1, <1>2, <1>3 DEF Slots, Others, Answers
<1>5. Pending = {} /\ results = {} /\ draft = NoEntry /\ offered = NoEntry
      /\ seen = {} /\ made = {} /\ doc = {}
  BY <1>4 DEF Init, Pending
<1>6. EditsInv
  BY <1>5 DEF EditsInv, InDraft
<1>. QED  BY <1>4, <1>5, <1>6 DEF KeptInv, EntriesInv, AnswersInv

\* No step of the user, the controllers, the network or the server breaks it.
LEMMA KeptInductive == ASSUME IInv, OrderInv, KeptInv, ExportsAlone, [Next]_vars PROVE KeptInv'
<1>1. ASSUME User PROVE KeptInv'
  BY <1>1, EditRetains, ManualRetains, RetryRetains, DialogRetains, KeepLocalRetains, UseRemoteRetains,
     SwitchRetains, UnmountRetains, CloseRetains, RecoverRetains, StartExportRetains DEF User
<1>2. ASSUME NEW i \in DOMAIN ctl, Background(i) PROVE KeptInv'
  BY <1>2, DeliverSaveRetains, DeliverFlushRetains, SaveAnsweredRetains, FlushAnsweredRetains,
     TimerRetains DEF Background
<1>3. ASSUME UNCHANGED vars PROVE KeptInv'
  <2>1. /\ UNCHANGED <<results, ctl, wire, draft, tab, doc, seen, made, dropped, shelved, offered>>
        /\ head' = head
    BY <1>3 DEF vars, server, page, history
  <2>2. Saved' = Saved /\ Gone' = Gone
    BY <2>1 DEF Saved, Gone
  <2>3. draft' \in {draft, NoEntry} /\ wire' \subseteq wire /\ \A r \in results' : r.body \subseteq Saved'
    BY <2>1, <2>2 DEF KeptInv, AnswersInv
  <2>. QED  BY <2>1, <2>2, <2>3, ControllersRest, PageRests DEF KeptInv
<1>. QED
  BY <1>1, <1>2, <1>3, LoadRetains, DraftReadRetains, ReadFidelityRetains, ExportAnsweredRetains,
     LateRetains, RemoteRetains DEF Next, Exports

-----------------------------------------------------------------------------
\* No edit is lost: until the user drops it, or keeps its draft for later, an edit is in the
\* deck or in the local draft, in whatever order saves, flushes, answers, losses, other clients,
\* conflicts and reloads come (scheduleSave(), clearEditorDraft(), flush(), recoverLocalDraft());
\* for any number of edits, saves, losses, pages and other clients, under the same hypothesis.
THEOREM EditsNeverVanish ==
    ASSUME ExportsAlone PROVE Spec => []NoEditVanishes
<1>1. Spec => []IInv
  BY Invariant
<1>2. Init => OrderInv /\ KeptInv
  BY OrderInitially, KeptInitially
<1>3. IInv /\ OrderInv /\ KeptInv /\ [Next]_vars => OrderInv' /\ KeptInv'
  BY OrderInductive, KeptInductive
<1>4. KeptInv => NoEditVanishes
  <2>1. KeptInv => made \subseteq Saved \cup InDraft
    BY DEF KeptInv, EditsInv
  <2>. QED  BY <2>1 DEF NoEditVanishes, Kept, Saved, Gone, InDraft
<1>. QED  BY <1>1, <1>2, <1>3, <1>4, PTL DEF Spec
=============================================================================

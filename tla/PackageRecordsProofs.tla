-------------------------- MODULE PackageRecordsProofs --------------------------
(***************************************************************************)
(* What every user of the compatibility outbox relies on: the filter that  *)
(* acknowledges writes keeps the others in their order, and the row of a   *)
(* deck shows what the last of its writes says once all are applied.       *)
(***************************************************************************)
EXTENDS PackageRecords, SequenceTheorems, WellFoundedInduction, TLAPS

-----------------------------------------------------------------------------
(* Induction, and the filter of a list *)

Below == {p \in Nat \X Nat : p[1] < p[2]}

\* A set of natural numbers that has zero and the successor of each of its members
\* has all: the library's induction takes an operator, this one a set.
LEMMA Climb ==
    ASSUME NEW T, 0 \in T, \A n \in Nat : n \in T => n + 1 \in T
    PROVE  \A n \in Nat : n \in T
<1>. DEFINE U == Nat \ T
<1>. SUFFICES ASSUME U # {} PROVE FALSE
  OBVIOUS
<1>1. IsWellFoundedOn(Below, Nat)
  <2>1. IsWellFoundedOn(OpToRel(<, Nat), Nat)
    BY NatLessThanWellFounded
  <2>. QED  BY <2>1 DEF OpToRel, Below
<1>2. PICK n \in U : \A m \in U : <<m, n>> \notin Below
  <2>1. U \subseteq Nat
    OBVIOUS
  <2>. HIDE DEF U
  <2>. QED  BY <1>1, <2>1, WFMin
<1>3. n \in Nat /\ n # 0 /\ n - 1 \in Nat /\ n - 1 < n /\ (n - 1) + 1 = n
  BY <1>2
<1>4. n - 1 \in T
  BY <1>2, <1>3 DEF Below
<1>. QED  BY <1>2, <1>3, <1>4

\* What the filter computes for the first m of the writes, each m up to n.
Filters(f, q, gone, n) ==
    \A m \in 0 .. n :
        f[m] = IF m = 0 THEN <<>>
               ELSE IF q[m] \in gone THEN f[m - 1] ELSE Append(f[m - 1], q[m])

\* The filter has a value.
LEMMA FilterExists ==
    ASSUME NEW q, NEW gone
    PROVE  \A n \in Nat : \E f : Filters(f, q, gone, n)
<1>. DEFINE T == {n \in Nat : \E f : Filters(f, q, gone, n)}
<1>1. 0 \in T
  <2>. DEFINE f == [m \in {0} |-> <<>>]
  <2>1. Filters(f, q, gone, 0)
    BY DEF Filters
  <2>. QED  BY <2>1
<1>2. ASSUME NEW n \in Nat, n \in T PROVE n + 1 \in T
  <2>1. PICK f : Filters(f, q, gone, n)
    BY <1>2
  <2>. DEFINE last == IF q[n + 1] \in gone THEN f[n] ELSE Append(f[n], q[n + 1])
              g == [m \in 0 .. n + 1 |-> IF m = n + 1 THEN last ELSE f[m]]
  <2>2. g[n + 1] = last /\ \A m \in 0 .. n : g[m] = f[m]
    OBVIOUS
  <2>. HIDE DEF g
  <2>3. Filters(g, q, gone, n + 1)
    <3>1. \A m \in 0 .. n + 1 : m \in 0 .. n \/ m = n + 1
      OBVIOUS
    <3>2. (n + 1) - 1 = n /\ n + 1 # 0 /\ \A m \in 0 .. n : m # 0 => m - 1 \in 0 .. n
      OBVIOUS
    <3>. QED  BY <2>1, <2>2, <3>1, <3>2 DEF Filters
  <2>. QED  BY <2>3
<1>. HIDE DEF T
<1>3. \A n \in Nat : n \in T
  BY <1>1, <1>2, Climb
<1>. QED  BY <1>3 DEF T

\* What remains is the last value of the filter.
LEMMA RemainingIs ==
    ASSUME NEW S, NEW q \in Seq(S), NEW gone
    PROVE  \E f : Filters(f, q, gone, Len(q)) /\ Remaining(q, gone) = f[Len(q)]
<1>. DEFINE Eq(f) == f = [n \in 0 .. Len(q) |->
                            IF n = 0 THEN <<>>
                            ELSE IF q[n] \in gone THEN f[n - 1] ELSE Append(f[n - 1], q[n])]
            h == CHOOSE f : Eq(f)
<1>1. Remaining(q, gone) = h[Len(q)]
  BY DEF Remaining
<1>2. Len(q) \in Nat
  OBVIOUS
<1>3. PICK f : Filters(f, q, gone, Len(q))
  BY <1>2, FilterExists
<1>. DEFINE k == [n \in 0 .. Len(q) |-> f[n]]
<1>4. Eq(k)
  <2>1. \A n \in 0 .. Len(q) : n # 0 => n - 1 \in 0 .. Len(q)
    BY <1>2
  <2>2. \A n \in 0 .. Len(q) : k[n] = IF n = 0 THEN <<>>
              ELSE IF q[n] \in gone THEN k[n - 1] ELSE Append(k[n - 1], q[n])
    BY <1>3, <2>1 DEF Filters
  <2>. QED  BY <2>2
<1>5. Eq(h)
  BY <1>4
<1>6. Filters(h, q, gone, Len(q))
  <2>. HIDE DEF h
  <2>. QED  BY <1>5 DEF Filters
<1>. QED  BY <1>1, <1>6

\* The list r is what is left of the first n writes; e says where each was.
Left(e, r, q, gone, n) ==
    /\ e \in [1 .. Len(r) -> 1 .. n]
    /\ \A k, l \in 1 .. Len(r) : k < l => e[k] < e[l]
    /\ \A k \in 1 .. Len(r) : r[k] = q[e[k]] /\ q[e[k]] \notin gone
    /\ \A i \in 1 .. n : q[i] \notin gone => \E k \in 1 .. Len(r) : e[k] = i

\* The filter keeps the writes that are not gone, each once and in their order.
LEMMA FilterLeaves ==
    ASSUME NEW S, NEW q \in Seq(S), NEW gone, NEW f, Filters(f, q, gone, Len(q))
    PROVE  \A n \in 0 .. Len(q) : f[n] \in Seq(S) /\ \E e : Left(e, f[n], q, gone, n)
<1>. DEFINE T == {n \in Nat : n <= Len(q) => f[n] \in Seq(S) /\ \E e : Left(e, f[n], q, gone, n)}
<1>0. Len(q) \in Nat /\ DOMAIN q = 1 .. Len(q) /\ \A i \in 1 .. Len(q) : q[i] \in S
  OBVIOUS
<1>1. 0 \in T
  <2>1. f[0] = <<>>
    BY <1>0 DEF Filters
  <2>. DEFINE e == [k \in {} |-> 0]
  <2>2. Left(e, <<>>, q, gone, 0)
    BY DEF Left
  <2>3. f[0] \in Seq(S)
    BY <2>1
  <2>. HIDE DEF e
  <2>. QED  BY <2>1, <2>2, <2>3
<1>2. ASSUME NEW n \in Nat, n \in T, n + 1 <= Len(q)
      PROVE  f[n + 1] \in Seq(S) /\ \E e : Left(e, f[n + 1], q, gone, n + 1)
  <2>1. f[n] \in Seq(S) /\ \E e : Left(e, f[n], q, gone, n)
    BY <1>0, <1>2
  <2>2. PICK e : Left(e, f[n], q, gone, n)
    BY <2>1
  <2>3. f[n + 1] = IF q[n + 1] \in gone THEN f[n] ELSE Append(f[n], q[n + 1])
    BY <1>0, <1>2 DEF Filters
  <2>4. q[n + 1] \in S
    BY <1>0, <1>2
  <2>. DEFINE r == f[n]
  <2>5. r \in Seq(S) /\ Len(r) \in Nat
    BY <2>1
  <2>6. e \in [1 .. Len(r) -> 1 .. n]
    BY <2>2 DEF Left
  <2>. HIDE DEF r
  <2>7. CASE q[n + 1] \in gone
    <3>1. Left(e, r, q, gone, n + 1)
      BY <2>2, <2>5, <2>6, <2>7 DEF Left, r
    <3>. QED  BY <2>3, <2>5, <2>7, <3>1 DEF r
  <2>8. CASE q[n + 1] \notin gone
    <3>. DEFINE s == Append(r, q[n + 1])
                g == [k \in 1 .. Len(r) + 1 |-> IF k = Len(r) + 1 THEN n + 1 ELSE e[k]]
    <3>1. /\ s \in Seq(S) /\ Len(s) = Len(r) + 1 /\ s[Len(r) + 1] = q[n + 1]
          /\ \A k \in 1 .. Len(r) : s[k] = r[k]
      BY <2>4, <2>5
    <3>2. /\ g \in [1 .. Len(r) + 1 -> 1 .. n + 1] /\ g[Len(r) + 1] = n + 1
          /\ \A k \in 1 .. Len(r) : g[k] = e[k] /\ e[k] \in 1 .. n
      BY <2>5, <2>6
    <3>. HIDE DEF s, g
    <3>3. \A k \in 1 .. Len(r) + 1 : k \in 1 .. Len(r) \/ k = Len(r) + 1
      BY <2>5
    <3>4. \A k, l \in 1 .. Len(s) : k < l => g[k] < g[l]
      BY <2>2, <2>5, <3>1, <3>2, <3>3 DEF Left, r
    <3>5. \A k \in 1 .. Len(s) : s[k] = q[g[k]] /\ q[g[k]] \notin gone
      BY <2>2, <2>5, <2>8, <3>1, <3>2, <3>3 DEF Left, r
    <3>6. ASSUME NEW i \in 1 .. n + 1, q[i] \notin gone PROVE \E k \in 1 .. Len(s) : g[k] = i
      <4>1. CASE i = n + 1
        BY <2>5, <3>1, <3>2, <4>1
      <4>2. CASE i # n + 1
        <5>1. PICK k \in 1 .. Len(r) : e[k] = i
          BY <2>2, <3>6, <4>2 DEF Left, r
        <5>. QED  BY <2>5, <3>1, <3>2, <5>1
      <4>. QED  BY <4>1, <4>2
    <3>7. Left(g, s, q, gone, n + 1)
      BY <3>1, <3>2, <3>4, <3>5, <3>6 DEF Left
    <3>. QED  BY <2>3, <2>8, <3>1, <3>7 DEF r, s
  <2>. QED  BY <2>7, <2>8
<1>3. ASSUME NEW n \in Nat, n \in T PROVE n + 1 \in T
  <2>1. n + 1 \in Nat
    OBVIOUS
  <2>2. n + 1 <= Len(q) => f[n + 1] \in Seq(S) /\ \E e : Left(e, f[n + 1], q, gone, n + 1)
    BY <1>2, <1>3
  <2>. QED  BY <2>1, <2>2
<1>4. \A n \in Nat : n \in T
  <2>. HIDE DEF T
  <2>. QED  BY <1>1, <1>3, Climb
<1>. QED  BY <1>0, <1>4

\* What remains of a queue: the writes that are not gone, in their order.
LEMMA WhatRemains ==
    ASSUME NEW S, NEW q \in Seq(S), NEW gone
    PROVE  /\ Remaining(q, gone) \in Seq(S)
           /\ \E e : Left(e, Remaining(q, gone), q, gone, Len(q))
<1>1. PICK f : Filters(f, q, gone, Len(q)) /\ Remaining(q, gone) = f[Len(q)]
  BY RemainingIs
<1>2. Len(q) \in 0 .. Len(q)
  OBVIOUS
<1>. QED  BY <1>1, <1>2, FilterLeaves

\* Seen as sets: nothing that is gone remains, and nothing else is taken.
LEMMA RemainingSet ==
    ASSUME NEW S, NEW q \in Seq(S), NEW gone
    PROVE  LET r == Remaining(q, gone)
           IN  /\ r \in Seq(S)
               /\ \A k \in DOMAIN r : r[k] \notin gone /\ \E i \in DOMAIN q : q[i] = r[k]
               /\ \A i \in DOMAIN q : q[i] \in gone \/ \E k \in DOMAIN r : r[k] = q[i]
<1>. DEFINE r == Remaining(q, gone)
<1>1. r \in Seq(S) /\ \E e : Left(e, r, q, gone, Len(q))
  BY WhatRemains
<1>2. PICK e : Left(e, r, q, gone, Len(q))
  BY <1>1
<1>3. DOMAIN r = 1 .. Len(r) /\ DOMAIN q = 1 .. Len(q)
  BY <1>1
<1>. HIDE DEF r
<1>4. \A k \in DOMAIN r : r[k] \notin gone /\ \E i \in DOMAIN q : q[i] = r[k]
  BY <1>2, <1>3 DEF Left
<1>5. \A i \in DOMAIN q : q[i] \in gone \/ \E k \in DOMAIN r : r[k] = q[i]
  BY <1>2, <1>3 DEF Left
<1>. QED  BY <1>1, <1>4, <1>5 DEF r

-----------------------------------------------------------------------------
(* The queue, the rows and the drain *)

Drains == [by : Caller \cup {Nobody}, todo : Seq(Writes), done : SUBSET Writes,
           bad : SUBSET Writes]

QueueType ==
    /\ outbox \in Seq(Writes) /\ clock \in Nat /\ lost \subseteq Deck
    /\ rows \in [Deck -> Nat] /\ drain \in Drains
    /\ faults \in [at : SUBSET FaultPoints, left : 0 .. MaxFaults]

\* What the row of a deck should show, and what a write makes it show.
Shown(d) == IF heads[d] = NoHead THEN NoRow ELSE heads[d].gen
Effect(w) == IF w.op = "remove" THEN NoRow ELSE w.gen

\* The generation g of a deck was published, or a later one.
Known(d, g) == \E x \in commits[d] : g <= x.gen
UpToDate(d, g) == \A x \in commits[d] : x.gen <= g
Numbered == \A d \in Deck : \A x \in commits[d] : x.gen \in Nat

\* No write is queued twice, and a new one is stamped later than the queued ones.
EachOnce == \A i, j \in DOMAIN outbox : outbox[i] = outbox[j] => i = j
Stamped == \A i \in DOMAIN outbox : outbox[i].at <= clock

\* The drain has seen the first p writes and has the following ones to do.
SeenUpTo(p) ==
    /\ \A i \in DOMAIN outbox : outbox[i] \in drain.done <=> i <= p
    /\ p + Len(drain.todo) <= Len(outbox)
    /\ \A k \in DOMAIN drain.todo : drain.todo[k] = outbox[p + k]

SeenFirst ==
    \A i, j \in DOMAIN outbox : i < j /\ outbox[j] \in drain.done => outbox[i] \in drain.done

InPlace == IF drain.todo = <<>> THEN SeenFirst ELSE \E p \in 0 .. Len(outbox) : SeenUpTo(p)

DrainInv ==
    /\ drain.by = Nobody => drain = NoDrain
    /\ \A w \in drain.done : \E i \in DOMAIN outbox : outbox[i] = w
    /\ drain.bad \subseteq drain.done /\ \A w \in drain.bad : w.deck \in lost

Bounded(d) ==
    /\ rows[d] # NoRow => Known(d, rows[d])
    /\ \A i \in DOMAIN outbox : outbox[i].deck = d => Known(d, outbox[i].gen)

\* The last write of a deck says what its row should show; and the row shows it
\* when the drain has seen every write of the deck.
LastShows(d) ==
    \A i \in DOMAIN outbox :
        outbox[i].deck = d /\ (\A j \in DOMAIN outbox : j > i => outbox[j].deck # d) =>
            Effect(outbox[i]) = Shown(d) /\ UpToDate(d, outbox[i].gen)

RowShows(d) ==
    (\A i \in DOMAIN outbox : outbox[i].deck = d => outbox[i] \in drain.done) =>
        rows[d] = Shown(d)

DeckShows(d) == Bounded(d) /\ (d \in lost \/ (LastShows(d) /\ RowShows(d)))

QueueInv == EachOnce /\ Stamped /\ InPlace /\ DrainInv /\ \A d \in Deck : DeckShows(d)

\* What the rows should show has not changed.
SameShown(d) == Shown(d)' = Shown(d) /\ commits'[d] = commits[d]

\* Nothing happens to the queue.
LEMMA QueueRests ==
    ASSUME QueueType, QueueInv, UNCHANGED <<outbox, clock, lost, rows, drain>>,
           \A d \in Deck : SameShown(d)
    PROVE  QueueInv'
<1>1. EachOnce' /\ Stamped' /\ InPlace' /\ DrainInv'
  BY DEF QueueInv, EachOnce, Stamped, InPlace, SeenFirst, SeenUpTo, DrainInv
<1>2. ASSUME NEW d \in Deck PROVE DeckShows(d)'
  <2>1. Shown(d)' = Shown(d) /\ commits'[d] = commits[d] /\ DeckShows(d)
    BY DEF SameShown, QueueInv
  <2>. HIDE DEF Shown
  <2>. QED  BY <2>1 DEF DeckShows, Bounded, LastShows, RowShows, Known, UpToDate
<1>. QED  BY <1>1, <1>2 DEF QueueInv

\* A write that is not queued yet is put at the end.
LEMMA Appended ==
    ASSUME QueueType, QueueInv, NEW d \in Deck, NEW w \in Writes, w.deck = d,
           outbox' = Append(outbox, w), \A i \in DOMAIN outbox : outbox[i] # w,
           clock' \in Nat, clock <= clock', w.at <= clock',
           UNCHANGED <<lost, rows, drain>>,
           \A e \in Deck \ {d} : SameShown(e), commits[d] \subseteq commits'[d],
           Effect(w) = Shown(d)', UpToDate(d, w.gen)', Known(d, w.gen)'
    PROVE  outbox' \in Seq(Writes) /\ QueueInv'
<1>. DEFINE n == Len(outbox)
<1>1. /\ n \in Nat /\ DOMAIN outbox = 1 .. n /\ Len(outbox') = n + 1
      /\ DOMAIN outbox' = 1 .. n + 1 /\ outbox' \in Seq(Writes)
      /\ outbox'[n + 1] = w /\ \A i \in 1 .. n : outbox'[i] = outbox[i]
  BY DEF QueueType
<1>. HIDE DEF n
<1>2. \A i \in 1 .. n + 1 : i \in 1 .. n \/ i = n + 1
  BY <1>1
<1>3. EachOnce'
  BY <1>1, <1>2 DEF QueueInv, EachOnce
<1>4. Stamped'
  <2>0. \A i \in 1 .. n : outbox[i] \in Writes
    BY <1>1 DEF QueueType
  <2>1. \A i \in 1 .. n : outbox[i].at \in Nat /\ outbox[i].at <= clock
    BY <1>1, <2>0 DEF QueueInv, Stamped, Writes
  <2>2. clock \in Nat /\ w.at \in Nat
    BY DEF QueueType, Writes
  <2>. QED  BY <1>1, <1>2, <2>1, <2>2 DEF Stamped
<1>5. w \notin drain.done
  BY DEF QueueInv, DrainInv
<1>6. InPlace'
  <2>1. CASE drain.todo = <<>>
    BY <1>1, <1>2, <1>5, <2>1 DEF QueueInv, InPlace, SeenFirst
  <2>2. CASE drain.todo # <<>>
    <3>1. PICK p \in 0 .. n : SeenUpTo(p)
      BY <2>2 DEF QueueInv, InPlace, n
    <3>2. drain.todo \in Seq(Writes) /\ DOMAIN drain.todo = 1 .. Len(drain.todo)
          /\ Len(drain.todo) \in Nat
      BY DEF QueueType, Drains
    <3>3. p \in 0 .. Len(outbox')
      BY <1>1
    <3>4. \A k \in DOMAIN drain.todo : p + k \in 1 .. n
      BY <1>1, <3>1, <3>2 DEF SeenUpTo, n
    <3>5. SeenUpTo(p)'
      <4>1. ~(n + 1 <= p)
        BY <1>1
      <4>2. \A i \in 1 .. n + 1 : outbox'[i] \in drain.done <=> i <= p
        BY <1>1, <1>2, <1>5, <3>1, <4>1 DEF SeenUpTo
      <4>3. p + Len(drain.todo) <= n
        BY <3>1 DEF SeenUpTo, n
      <4>4. p + Len(drain.todo) <= n + 1
        BY <1>1, <3>2, <4>3
      <4>5. \A k \in DOMAIN drain.todo : drain.todo[k] = outbox'[p + k]
        BY <1>1, <3>1, <3>4 DEF SeenUpTo
      <4>. QED  BY <1>1, <4>2, <4>4, <4>5 DEF SeenUpTo
    <3>. QED  BY <2>2, <3>3, <3>5 DEF InPlace
  <2>. QED  BY <2>1, <2>2
<1>7. DrainInv'
  <2>1. \A v \in drain.done : \E i \in 1 .. n : outbox[i] = v
    BY <1>1 DEF QueueInv, DrainInv
  <2>2. \A v \in drain.done : \E i \in 1 .. n + 1 : outbox'[i] = v
    BY <1>1, <2>1
  <2>. QED  BY <1>1, <2>2 DEF QueueInv, DrainInv
<1>8. DeckShows(d)'
  <2>1. Bounded(d)'
    <3>1. Bounded(d)
      BY DEF QueueInv, DeckShows
    <3>. QED  BY <1>1, <1>2, <3>1 DEF Bounded, Known
  <2>2. LastShows(d)'
    <3>1. ASSUME NEW i \in 1 .. n + 1, \A j \in 1 .. n + 1 : j > i => outbox'[j].deck # d
          PROVE  i = n + 1
      BY <1>1, <3>1
    <3>. QED  BY <1>1, <3>1 DEF LastShows
  <2>3. RowShows(d)'
    BY <1>1, <1>5 DEF RowShows
  <2>. QED  BY <2>1, <2>2, <2>3 DEF DeckShows
<1>9. ASSUME NEW e \in Deck \ {d} PROVE DeckShows(e)'
  <2>1. Shown(e)' = Shown(e) /\ commits'[e] = commits[e] /\ DeckShows(e)
    BY DEF SameShown, QueueInv
  <2>. HIDE DEF Shown
  <2>2. Bounded(e)'
    BY <1>1, <1>2, <2>1 DEF DeckShows, Bounded, Known
  <2>3. LastShows(e) => LastShows(e)'
    <3>1. ASSUME LastShows(e), NEW i \in 1 .. n + 1, outbox'[i].deck = e,
                 \A j \in 1 .. n + 1 : j > i => outbox'[j].deck # e
          PROVE  Effect(outbox'[i]) = Shown(e)' /\ UpToDate(e, outbox[i].gen)'
      <4>1. i \in 1 .. n /\ outbox'[i] = outbox[i]
        BY <1>1, <1>2, <3>1
      <4>2. \A j \in 1 .. n : j > i => outbox[j].deck # e
        BY <1>1, <3>1
      <4>3. Effect(outbox[i]) = Shown(e) /\ UpToDate(e, outbox[i].gen)
        BY <1>1, <3>1, <4>1, <4>2 DEF LastShows
      <4>. QED  BY <2>1, <4>1, <4>3 DEF UpToDate
    <3>. QED  BY <1>1, <3>1 DEF LastShows
  <2>4. RowShows(e) => RowShows(e)'
    BY <1>1, <2>1 DEF RowShows
  <2>. QED  BY <2>1, <2>2, <2>3, <2>4 DEF DeckShows
<1>. QED  BY <1>1, <1>3, <1>4, <1>6, <1>7, <1>8, <1>9 DEF QueueInv

\* A write of the deck is taken for a duplicate: the deck is exempt from now on.
LEMMA TakenForDuplicate ==
    ASSUME QueueType, QueueInv, NEW d \in Deck, AlreadyQueued(d), UNCHANGED <<rows, drain>>,
           \A e \in Deck \ {d} : SameShown(e), commits[d] \subseteq commits'[d]
    PROVE  outbox' \in Seq(Writes) /\ clock' \in Nat /\ lost' \subseteq Deck /\ QueueInv'
<1>1. UNCHANGED <<outbox, clock>> /\ lost' = lost \cup {d}
  BY DEF AlreadyQueued
<1>2. EachOnce' /\ Stamped' /\ InPlace'
  BY <1>1 DEF QueueInv, EachOnce, Stamped, InPlace, SeenFirst, SeenUpTo
<1>3. DrainInv'
  BY <1>1 DEF QueueInv, DrainInv
<1>4. DeckShows(d)'
  <2>1. Bounded(d)'
    <3>1. Bounded(d)
      BY DEF QueueInv, DeckShows
    <3>. QED  BY <1>1, <3>1 DEF Bounded, Known
  <2>. QED  BY <1>1, <2>1 DEF DeckShows
<1>5. ASSUME NEW e \in Deck \ {d} PROVE DeckShows(e)'
  <2>1. Shown(e)' = Shown(e) /\ commits'[e] = commits[e] /\ DeckShows(e)
    BY DEF SameShown, QueueInv
  <2>. HIDE DEF Shown
  <2>. QED  BY <1>1, <2>1 DEF DeckShows, Bounded, LastShows, RowShows, Known, UpToDate
<1>. QED  BY <1>1, <1>2, <1>3, <1>4, <1>5 DEF QueueInv, QueueType

\* queueCompatibilityUpsert() for a head that is the newest of its deck.
LEMMA UpsertQueued ==
    ASSUME QueueType, QueueInv, NEW d \in Deck, NEW g \in Nat \ {0}, QueueUpsert(d, g),
           UNCHANGED <<rows, drain>>,
           \A e \in Deck \ {d} : SameShown(e), commits[d] \subseteq commits'[d],
           Shown(d)' = g, UpToDate(d, g)', Known(d, g)'
    PROVE  outbox' \in Seq(Writes) /\ clock' \in Nat /\ lost' = lost /\ QueueInv'
<1>. DEFINE next == clock + 1
            new == [op |-> "upsert", deck |-> d, gen |-> g, at |-> next]
<1>1. next \in Nat /\ clock < next /\ clock \in Nat
  BY DEF QueueType
<1>2. outbox' = Append(outbox, new) /\ clock' = next /\ lost' = lost
  BY DEF QueueUpsert
<1>. HIDE DEF next
<1>3. PICK w \in Writes : w = new /\ w.deck = d /\ w.gen = g /\ w.at = next /\ w.op = "upsert"
  <2>1. /\ new \in Writes /\ new.deck = d /\ new.gen = g /\ new.at = next
        /\ new.op = "upsert"
    BY <1>1 DEF Writes
  <2>. HIDE DEF new
  <2>. QED  BY <2>1
<1>. HIDE DEF new
<1>4. \A i \in DOMAIN outbox : outbox[i] # w
  <2>1. \A i \in DOMAIN outbox : outbox[i] \in Writes
    BY DEF QueueType
  <2>. QED  BY <1>1, <1>3, <2>1 DEF QueueInv, Stamped, Writes
<1>5. Effect(w) = Shown(d)' /\ UpToDate(d, w.gen)' /\ Known(d, w.gen)'
  BY <1>3 DEF Effect, UpToDate, Known
<1>6. clock <= clock' /\ w.at <= clock' /\ clock' \in Nat
  BY <1>1, <1>2, <1>3
<1>7. outbox' \in Seq(Writes) /\ QueueInv'
  <2>. HIDE DEF QueueType, QueueInv, Shown, Effect, UpToDate, Known, SameShown
  <2>. QED  BY <1>2, <1>3, <1>4, <1>5, <1>6, Appended
<1>. QED  BY <1>2, <1>6, <1>7

\* queueCompatibilityRemoval() for a head that was the newest of its deck.
LEMMA RemovalQueued ==
    ASSUME QueueType, QueueInv, NEW d \in Deck, NEW g \in Nat \ {0}, QueueRemoval(d, g),
           UNCHANGED <<rows, drain>>,
           \A e \in Deck \ {d} : SameShown(e), commits[d] \subseteq commits'[d],
           Shown(d)' = NoRow, UpToDate(d, g)', Known(d, g)'
    PROVE  outbox' \in Seq(Writes) /\ clock' \in Nat /\ lost' \subseteq Deck /\ QueueInv'
<1>. DEFINE zero == 0
            w == [op |-> "remove", deck |-> d, gen |-> g, at |-> zero]
<1>1. zero \in Nat /\ clock \in Nat /\ zero <= clock
  BY DEF QueueType
<1>2. IF \E i \in DOMAIN outbox : outbox[i] = w THEN AlreadyQueued(d)
      ELSE outbox' = Append(outbox, w) /\ UNCHANGED <<clock, lost>>
  BY DEF QueueRemoval
<1>. HIDE DEF zero
<1>3. w \in Writes /\ w.deck = d /\ w.gen = g /\ w.at = zero /\ w.op = "remove"
  BY <1>1 DEF Writes
<1>. HIDE DEF w
<1>4. Effect(w) = Shown(d)' /\ UpToDate(d, w.gen)' /\ Known(d, w.gen)'
  <2>1. Effect(w) = NoRow
    BY <1>3 DEF Effect
  <2>2. UpToDate(d, w.gen)' /\ Known(d, w.gen)'
    BY <1>3 DEF UpToDate, Known
  <2>. HIDE DEF Shown, NoRow
  <2>. QED  BY <2>1, <2>2
<1>5. CASE \E i \in DOMAIN outbox : outbox[i] = w
  <2>. HIDE DEF QueueType, QueueInv, SameShown
  <2>. QED  BY <1>2, <1>5, TakenForDuplicate
<1>6. CASE \A i \in DOMAIN outbox : outbox[i] # w
  <2>1. clock' \in Nat /\ clock <= clock' /\ w.at <= clock' /\ outbox' = Append(outbox, w)
        /\ lost' = lost
    BY <1>1, <1>2, <1>3, <1>6
  <2>2. outbox' \in Seq(Writes) /\ QueueInv'
    <3>. HIDE DEF QueueType, QueueInv, Shown, Effect, UpToDate, Known, SameShown
    <3>. QED  BY <1>3, <1>4, <1>6, <2>1, Appended
  <2>. QED  BY <2>1, <2>2 DEF QueueType
<1>. QED  BY <1>5, <1>6

\* queueCompatibilityUpsert() of a compensation.
LEMMA CompensationQueued ==
    ASSUME QueueType, QueueInv, NEW d \in Deck, NEW g \in Nat \ {0}, QueueCompensation(d, g),
           UNCHANGED <<rows, drain>>,
           \A e \in Deck \ {d} : SameShown(e), commits[d] \subseteq commits'[d],
           Shown(d)' = g, UpToDate(d, g)', Known(d, g)'
    PROVE  outbox' \in Seq(Writes) /\ clock' \in Nat /\ lost' \subseteq Deck /\ QueueInv'
<1>. HIDE DEF QueueInv, SameShown, Shown, UpToDate, Known
<1>1. CASE QueueUpsert(d, g)
  BY <1>1, UpsertQueued DEF QueueType
<1>2. CASE AlreadyQueued(d)
  BY <1>2, TakenForDuplicate
<1>. QED  BY <1>1, <1>2 DEF QueueCompensation

\* A row goes whose deck has no head.
LEMMA RowRemoved ==
    ASSUME QueueType, QueueInv, NEW d \in Deck, rows' = [rows EXCEPT ![d] = NoRow],
           UNCHANGED <<outbox, clock, lost, drain>>, Shown(d) = NoRow,
           \A e \in Deck : SameShown(e)
    PROVE  rows' \in [Deck -> Nat] /\ QueueInv'
<1>1. EachOnce' /\ Stamped' /\ InPlace' /\ DrainInv'
  BY DEF QueueInv, EachOnce, Stamped, InPlace, SeenFirst, SeenUpTo, DrainInv
<1>2. rows'[d] = NoRow /\ (\A e \in Deck \ {d} : rows'[e] = rows[e]) /\ rows' \in [Deck -> Nat]
  BY DEF QueueType, NoRow
<1>3. ASSUME NEW e \in Deck PROVE DeckShows(e)'
  <2>1. Shown(e)' = Shown(e) /\ commits'[e] = commits[e] /\ DeckShows(e)
    BY DEF SameShown, QueueInv
  <2>2. e = d => Shown(e) = NoRow
    OBVIOUS
  <2>. HIDE DEF Shown, NoRow
  <2>. QED  BY <1>2, <2>1, <2>2 DEF DeckShows, Bounded, LastShows, RowShows, Known, UpToDate
<1>. QED  BY <1>1, <1>2, <1>3 DEF QueueInv

\* A failed call that is allowed uses up one of the failures.
LEMMA FaultType ==
    ASSUME QueueType, NEW p, Fault(p)
    PROVE  faults' \in [at : SUBSET FaultPoints, left : 0 .. MaxFaults]
<1>. DEFINE fewer == faults.left - 1
<1>1. fewer \in 0 .. MaxFaults
  BY RecordsConstants DEF QueueType, Fault
<1>2. faults' = [faults EXCEPT !.left = fewer]
  BY DEF Fault
<1>. HIDE DEF fewer
<1>. QED  BY <1>1, <1>2 DEF QueueType

\* Nobody drains.
LEMMA NobodyDrains ==
    NoDrain \in Drains /\ NoDrain.todo = <<>> /\ NoDrain.done = {} /\ NoDrain.bad = {}
    /\ NoDrain.by = Nobody
<1>. DEFINE none == {}
            nil == <<>>
<1>1. nil \in Seq(Writes) /\ none \in SUBSET Writes
  OBVIOUS
<1>2. NoDrain = [by |-> Nobody, todo |-> nil, done |-> none, bad |-> none]
  BY DEF NoDrain
<1>. HIDE DEF none, nil
<1>3. NoDrain \in Drains /\ NoDrain.todo = nil /\ NoDrain.done = none /\ NoDrain.bad = none
      /\ NoDrain.by = Nobody
  BY <1>1, <1>2 DEF Drains
<1>. QED  BY <1>3 DEF none, nil

\* A drain begins with a copy of the queue.
LEMMA DrainBegins ==
    ASSUME QueueType, QueueInv, NEW c \in Caller, DrainBegin(c)
    PROVE  QueueType' /\ QueueInv'
<1>1. drain.by = Nobody /\ UNCHANGED <<records, queue, rows, faults>>
  BY DEF DrainBegin
<1>2. drain = NoDrain /\ drain.done = {} /\ drain.todo = <<>>
  BY <1>1, NobodyDrains DEF QueueInv, DrainInv
<1>3. /\ drain' \in Drains /\ drain'.by = c /\ drain'.todo = outbox /\ drain'.done = {}
      /\ drain'.bad = {}
  BY NobodyDrains DEF DrainBegin, Drains, QueueType
<1>4. UNCHANGED <<heads, commits, outbox, clock, lost, rows, faults>>
  BY <1>1 DEF records, queue
<1>5. QueueType'
  BY <1>3, <1>4 DEF QueueType
<1>6. c # Nobody
  BY RecordsConstants
<1>7. EachOnce' /\ Stamped' /\ DrainInv'
  BY <1>3, <1>4, <1>6 DEF QueueInv, EachOnce, Stamped, DrainInv
<1>8. InPlace'
  <2>1. CASE outbox = <<>>
    BY <1>3, <1>4, <2>1 DEF InPlace, SeenFirst
  <2>2. CASE outbox # <<>>
    <3>1. Len(outbox) \in Nat /\ DOMAIN outbox = 1 .. Len(outbox)
      BY DEF QueueType
    <3>2. SeenUpTo(0)'
      BY <1>3, <1>4, <3>1 DEF SeenUpTo
    <3>3. 0 \in 0 .. Len(outbox')
      BY <1>4, <3>1
    <3>. QED  BY <1>3, <2>2, <1>4, <3>2, <3>3 DEF InPlace
  <2>. QED  BY <2>1, <2>2
<1>9. ASSUME NEW d \in Deck PROVE DeckShows(d)'
  <2>1. DeckShows(d) /\ Shown(d)' = Shown(d)
    BY <1>4 DEF QueueInv, Shown
  <2>. HIDE DEF Shown
  <2>2. RowShows(d) => RowShows(d)'
    BY <1>2, <1>3, <1>4, <2>1 DEF RowShows
  <2>. QED  BY <1>4, <2>1, <2>2 DEF DeckShows, Bounded, LastShows, Known, UpToDate
<1>. QED  BY <1>5, <1>7, <1>8, <1>9 DEF QueueInv

\* applyCompatibilityWrites(): the next write is applied, or moved aside.
LEMMA DrainApplies ==
    ASSUME QueueType, QueueInv, Numbered, DrainApply
    PROVE  QueueType' /\ QueueInv'
<1>. DEFINE w == Head(drain.todo)
            n == Len(outbox)
<1>1. drain.by # Nobody /\ drain.todo # <<>> /\ drain \in Drains
  BY DEF DrainApply, QueueType
<1>2. /\ drain.todo \in Seq(Writes) /\ Len(drain.todo) \in Nat /\ Len(drain.todo) # 0
      /\ w = drain.todo[1] /\ w \in Writes /\ 1 \in DOMAIN drain.todo
      /\ Tail(drain.todo) \in Seq(Writes) /\ Len(Tail(drain.todo)) = Len(drain.todo) - 1
      /\ \A k \in 1 .. Len(drain.todo) - 1 : Tail(drain.todo)[k] = drain.todo[k + 1]
      /\ DOMAIN Tail(drain.todo) = 1 .. Len(drain.todo) - 1
      /\ DOMAIN drain.todo = 1 .. Len(drain.todo)
  BY <1>1 DEF Drains
<1>3. n \in Nat /\ DOMAIN outbox = 1 .. n /\ \A i \in 1 .. n : outbox[i] \in Writes
  BY DEF QueueType
<1>4. PICK p \in 0 .. n : SeenUpTo(p)
  BY <1>1 DEF QueueInv, InPlace
<1>5. p + Len(drain.todo) <= n /\ p + 1 \in 1 .. n /\ w = outbox[p + 1]
  BY <1>2, <1>3, <1>4 DEF SeenUpTo
<1>6. UNCHANGED <<heads, commits, outbox, clock>>
  BY DEF DrainApply, records
<1>7. PICK v \in Writes : v = w
  BY <1>2
<1>. HIDE DEF w, n
<1>8. /\ drain'.by = drain.by /\ drain'.todo = Tail(drain.todo)
      /\ drain'.done = drain.done \cup {v} /\ drain' \in Drains
      /\ \/ rows' = Applied(rows, v) /\ UNCHANGED <<lost, faults>> /\ drain'.bad = drain.bad
         \/ /\ Fault("apply") /\ drain'.bad = drain.bad \cup {v}
            /\ lost' = lost \cup {v.deck} /\ UNCHANGED rows
  <2>. DEFINE rest == Tail(drain.todo)
              did == drain.done \cup {v}
              seen == [drain EXCEPT !.todo = rest, !.done = did]
              worse == drain.bad \cup {v}
  <2>1. \/ rows' = Applied(rows, v) /\ drain' = seen /\ UNCHANGED <<faults, lost>>
        \/ /\ Fault("apply") /\ drain' = [seen EXCEPT !.bad = worse]
           /\ lost' = lost \cup {v.deck} /\ UNCHANGED rows
    BY <1>7 DEF DrainApply, w
  <2>2. rest \in Seq(Writes) /\ did \in SUBSET Writes /\ worse \in SUBSET Writes
    BY <1>1, <1>2 DEF Drains
  <2>. HIDE DEF rest, did, worse
  <2>3. seen \in Drains /\ seen.by = drain.by /\ seen.todo = rest /\ seen.done = did
        /\ seen.bad = drain.bad
    BY <1>1, <2>2 DEF Drains
  <2>. HIDE DEF seen
  <2>4. CASE rows' = Applied(rows, v) /\ drain' = seen /\ UNCHANGED <<faults, lost>>
    BY <2>3, <2>4 DEF rest, did
  <2>5. CASE /\ Fault("apply") /\ drain' = [seen EXCEPT !.bad = worse]
             /\ lost' = lost \cup {v.deck} /\ UNCHANGED rows
    <3>1. drain' \in Drains /\ drain'.by = seen.by /\ drain'.todo = seen.todo
          /\ drain'.done = seen.done /\ drain'.bad = worse
      BY <2>2, <2>3, <2>5 DEF Drains
    <3>. QED  BY <2>3, <2>5, <3>1 DEF rest, did, worse
  <2>. QED  BY <2>1, <2>4, <2>5
<1>9. rows' \in [Deck -> Nat] /\ lost' \subseteq Deck
      /\ faults' \in [at : SUBSET FaultPoints, left : 0 .. MaxFaults]
  BY <1>8, FaultType DEF QueueType, Applied, Writes, NoRow
<1>10. QueueType'
  BY <1>6, <1>8, <1>9 DEF QueueType
<1>11. EachOnce' /\ Stamped'
  BY <1>6 DEF QueueInv, EachOnce, Stamped
<1>12. \A i \in 1 .. n : outbox[i] \in drain'.done <=> i <= p + 1
  <2>1. \A i \in 1 .. n : outbox[i] = v <=> i = p + 1
    BY <1>3, <1>5, <1>7 DEF QueueInv, EachOnce
  <2>2. \A i \in 1 .. n : outbox[i] \in drain.done <=> i <= p
    BY <1>3, <1>4 DEF SeenUpTo
  <2>. QED  BY <1>3, <1>8, <2>1, <2>2
<1>13. InPlace'
  <2>1. CASE Tail(drain.todo) = <<>>
    BY <1>3, <1>6, <1>8, <1>12, <2>1 DEF InPlace, SeenFirst
  <2>2. CASE Tail(drain.todo) # <<>>
    <3>1. ASSUME NEW k \in 1 .. Len(drain.todo) - 1
          PROVE  Tail(drain.todo)[k] = outbox[(p + 1) + k]
      <4>1. Tail(drain.todo)[k] = drain.todo[k + 1] /\ k + 1 \in DOMAIN drain.todo
        BY <1>2, <3>1
      <4>2. drain.todo[k + 1] = outbox[p + (k + 1)]
        BY <1>4, <4>1 DEF SeenUpTo
      <4>3. p + (k + 1) = (p + 1) + k
        BY <1>2, <1>3, <3>1
      <4>. QED  BY <4>1, <4>2, <4>3
    <3>2. (p + 1) + Len(Tail(drain.todo)) <= n
      <4>1. \A i, j, k, m \in Nat : i + j <= m /\ k = j - 1 => (i + 1) + k <= m
        OBVIOUS
      <4>2. Len(Tail(drain.todo)) = Len(drain.todo) - 1
        BY <1>2
      <4>3. p \in Nat /\ n \in Nat /\ Len(drain.todo) \in Nat \ {0}
        BY <1>2, <1>3
      <4>4. Len(Tail(drain.todo)) \in Nat
        BY <4>2, <4>3
      <4>5. p + Len(drain.todo) <= n
        BY <1>5
      <4>. QED  BY <4>1, <4>2, <4>3, <4>4, <4>5
    <3>3. SeenUpTo(p + 1)'
      BY <1>2, <1>3, <1>6, <1>8, <1>12, <3>1, <3>2 DEF SeenUpTo, n
    <3>4. p + 1 \in 0 .. Len(outbox')
      BY <1>3, <1>5, <1>6 DEF n
    <3>. QED  BY <1>8, <2>2, <3>3, <3>4 DEF InPlace
  <2>. QED  BY <2>1, <2>2
<1>14. DrainInv'
  <2>1. \E i \in DOMAIN outbox : outbox[i] = v
    BY <1>3, <1>5, <1>7
  <2>. QED  BY <1>1, <1>6, <1>8, <2>1 DEF QueueInv, DrainInv
<1>15. ASSUME NEW d \in Deck PROVE DeckShows(d)'
  <2>1. DeckShows(d) /\ Shown(d)' = Shown(d)
    BY <1>6 DEF QueueInv, Shown
  <2>. HIDE DEF Shown
  <2>2. d # v.deck => rows'[d] = rows[d]
    BY <1>8 DEF QueueType, Applied
  <2>3. rows'[d] \in {rows[d], NoRow} \/ (d = v.deck /\ rows'[d] = v.gen)
    BY <1>8 DEF QueueType, Applied
  <2>4. d = v.deck => Known(d, v.gen)
    BY <1>3, <1>5, <1>7, <2>1 DEF DeckShows, Bounded
  <2>5. Bounded(d)'
    BY <1>6, <2>1, <2>3, <2>4 DEF DeckShows, Bounded, Known
  <2>6. LastShows(d) => LastShows(d)'
    BY <1>6, <2>1 DEF LastShows, UpToDate
  <2>7. ASSUME d \notin lost', LastShows(d), RowShows(d),
               \A i \in 1 .. n : outbox[i].deck = d => outbox[i] \in drain'.done
        PROVE  rows'[d] = Shown(d)
    <3>1. CASE d # v.deck
      <4>1. \A i \in 1 .. n : outbox[i].deck = d => outbox[i] \in drain.done
        BY <1>8, <2>7, <3>1
      <4>. QED  BY <1>3, <2>2, <2>7, <3>1, <4>1 DEF RowShows
    <3>2. CASE d = v.deck
      <4>1. \A j \in 1 .. n : j > p + 1 => outbox[j].deck # d
        BY <1>3, <1>12, <2>7
      <4>2. Effect(v) = Shown(d) /\ UpToDate(d, v.gen)
        BY <1>3, <1>5, <1>7, <2>7, <3>2, <4>1 DEF LastShows
      <4>3. rows' = Applied(rows, v)
        BY <1>8, <2>7, <3>2
      <4>4. rows[d] # NoRow => ~(v.gen < rows[d])
        <5>1. rows[d] \in Nat /\ v.gen \in Nat
          BY DEF QueueType, Writes
        <5>2. ASSUME rows[d] # NoRow PROVE rows[d] <= v.gen
          <6>1. PICK x \in commits[d] : rows[d] <= x.gen
            BY <2>1, <5>2 DEF DeckShows, Bounded, Known
          <6>2. x.gen <= v.gen /\ x.gen \in Nat
            BY <4>2 DEF UpToDate, Numbered
          <6>. QED  BY <5>1, <6>1, <6>2
        <5>. QED  BY <5>1, <5>2
      <4>5. rows'[d] = Effect(v)
        BY <3>2, <4>3, <4>4 DEF Applied, Effect, QueueType
      <4>. QED  BY <4>2, <4>5
    <3>. QED  BY <3>1, <3>2
  <2>8. d \in lost => d \in lost'
    BY <1>8
  <2>9. d \notin lost' /\ LastShows(d) /\ RowShows(d) => RowShows(d)'
    BY <1>3, <1>6, <2>1, <2>7 DEF RowShows
  <2>. QED  BY <2>1, <2>5, <2>6, <2>8, <2>9 DEF DeckShows
<1>. QED  BY <1>10, <1>11, <1>13, <1>14, <1>15 DEF QueueInv

\* Writes that the drain has seen leave the queue, and what it has seen of the rest
\* could not be applied.
LEMMA Acknowledged ==
    ASSUME QueueType, QueueInv, drain.todo = <<>>, NEW gone, gone \subseteq drain.done,
           outbox' = Remaining(outbox, gone), UNCHANGED <<clock, lost, rows>>,
           \A d \in Deck : SameShown(d),
           drain' \in Drains, drain'.by = Nobody => drain' = NoDrain, drain'.todo = <<>>,
           drain'.done = drain.done \ gone, drain'.bad \subseteq drain'.done,
           \A w \in drain'.done : w.deck \in lost
    PROVE  outbox' \in Seq(Writes) /\ QueueInv'
<1>. DEFINE n == Len(outbox)
            m == Len(outbox')
<1>1. n \in Nat /\ DOMAIN outbox = 1 .. n /\ outbox \in Seq(Writes)
  BY DEF QueueType
<1>2. outbox' \in Seq(Writes) /\ \E e : Left(e, outbox', outbox, gone, n)
  BY <1>1, WhatRemains
<1>3. PICK e : Left(e, outbox', outbox, gone, n)
  BY <1>2
<1>4. m \in Nat /\ DOMAIN outbox' = 1 .. m
  BY <1>2
<1>. HIDE DEF n, m
<1>5. /\ e \in [1 .. m -> 1 .. n]
      /\ \A k, l \in 1 .. m : k < l => e[k] < e[l]
      /\ \A k \in 1 .. m : outbox'[k] = outbox[e[k]] /\ outbox[e[k]] \notin gone
      /\ \A i \in 1 .. n : outbox[i] \notin gone => \E k \in 1 .. m : e[k] = i
  BY <1>3 DEF Left, m
<1>6. \A k, l \in 1 .. m : e[k] = e[l] => k = l
  BY <1>1, <1>4, <1>5
<1>7. \A k, l \in 1 .. m : e[k] > e[l] => k > l
  BY <1>1, <1>4, <1>5
<1>8. \A i, j \in 1 .. n : i < j /\ outbox[j] \in drain.done => outbox[i] \in drain.done
  BY <1>1 DEF QueueInv, InPlace, SeenFirst
<1>9. EachOnce'
  BY <1>1, <1>4, <1>5, <1>6 DEF QueueInv, EachOnce
<1>10. Stamped'
  BY <1>1, <1>4, <1>5 DEF QueueInv, Stamped
<1>11. InPlace'
  BY <1>4, <1>5, <1>8 DEF InPlace, SeenFirst
<1>12. DrainInv'
  <2>1. ASSUME NEW w \in drain'.done PROVE \E k \in 1 .. m : outbox'[k] = w
    <3>1. PICK i \in 1 .. n : outbox[i] = w
      BY <1>1 DEF QueueInv, DrainInv
    <3>. QED  BY <1>5, <3>1
  <2>. QED  BY <1>4, <2>1 DEF DrainInv
<1>13. ASSUME NEW d \in Deck PROVE DeckShows(d)'
  <2>1. Shown(d)' = Shown(d) /\ commits'[d] = commits[d] /\ DeckShows(d)
    BY DEF SameShown, QueueInv
  <2>. HIDE DEF Shown
  <2>2. Bounded(d)'
    <3>1. Bounded(d)
      BY <2>1 DEF DeckShows
    <3>2. ASSUME NEW k \in 1 .. m, outbox'[k].deck = d
          PROVE  \E x \in commits'[d] : outbox'[k].gen <= x.gen
      <4>1. outbox'[k] = outbox[e[k]] /\ e[k] \in 1 .. n
        BY <1>5
      <4>. QED  BY <1>1, <2>1, <3>1, <3>2, <4>1 DEF Bounded, Known
    <3>. QED  BY <1>4, <2>1, <3>1, <3>2 DEF Bounded, Known
  <2>3. ASSUME d \notin lost, LastShows(d) PROVE LastShows(d)'
    <3>1. ASSUME NEW l \in 1 .. m, outbox'[l].deck = d,
                 \A k \in 1 .. m : k > l => outbox'[k].deck # d
          PROVE  Effect(outbox'[l]) = Shown(d)' /\ \A x \in commits'[d] : x.gen <= outbox'[l].gen
      <4>1. outbox'[l] = outbox[e[l]] /\ e[l] \in 1 .. n /\ outbox[e[l]] \notin gone
        BY <1>5
      <4>2. ASSUME NEW j \in 1 .. n, j > e[l], outbox[j].deck = d PROVE FALSE
        <5>1. CASE outbox[j] \in gone
          <6>1. outbox[e[l]] \in drain.done
            BY <1>8, <4>1, <4>2, <5>1
          <6>. QED  BY <2>3, <3>1, <4>1, <6>1
        <5>2. CASE outbox[j] \notin gone
          <6>1. PICK k \in 1 .. m : e[k] = j
            BY <1>5, <5>2
          <6>2. k > l
            BY <1>7, <4>2, <6>1
          <6>. QED  BY <1>5, <3>1, <4>2, <6>1, <6>2
        <5>. QED  BY <5>1, <5>2
      <4>3. Effect(outbox[e[l]]) = Shown(d) /\ UpToDate(d, outbox[e[l]].gen)
        BY <1>1, <2>3, <3>1, <4>1, <4>2 DEF LastShows
      <4>. QED  BY <2>1, <4>1, <4>3 DEF UpToDate
    <3>. QED  BY <1>4, <3>1 DEF LastShows, UpToDate
  <2>4. ASSUME d \notin lost, RowShows(d) PROVE RowShows(d)'
    <3>1. ASSUME \A k \in 1 .. m : outbox'[k].deck = d => outbox'[k] \in drain'.done
          PROVE  \A i \in 1 .. n : outbox[i].deck = d => outbox[i] \in drain.done
      <4>1. ASSUME NEW i \in 1 .. n, outbox[i].deck = d, outbox[i] \notin gone PROVE FALSE
        <5>1. PICK k \in 1 .. m : e[k] = i
          BY <1>5, <4>1
        <5>. QED  BY <1>5, <2>4, <3>1, <4>1, <5>1
      <4>. QED  BY <4>1
    <3>. QED  BY <1>1, <1>4, <2>1, <2>4, <3>1 DEF RowShows
  <2>. QED  BY <2>1, <2>2, <2>3, <2>4 DEF DeckShows
<1>. QED  BY <1>2, <1>9, <1>10, <1>11, <1>12, <1>13 DEF QueueInv

\* acknowledgeCompatibilityOutbox() of what was applied, before the dead letters.
LEMMA DrainAcknowledges ==
    ASSUME QueueType, QueueInv, DrainAcknowledge
    PROVE  QueueType' /\ QueueInv'
<1>. DEFINE bad == drain.bad
            gone == drain.done \ bad
<1>1. /\ drain.by # Nobody /\ drain.todo = <<>> /\ outbox' = Remaining(outbox, gone)
      /\ drain' = [drain EXCEPT !.done = bad]
      /\ UNCHANGED <<heads, commits, clock, lost, rows, faults>>
  BY DEF DrainAcknowledge, Acknowledge, records
<1>2. drain \in Drains /\ bad \subseteq drain.done /\ \A w \in bad : w.deck \in lost
  BY DEF QueueType, QueueInv, DrainInv
<1>. HIDE DEF bad
<1>3. bad \in SUBSET Writes
  BY <1>2 DEF Drains, bad
<1>4. /\ drain' \in Drains /\ drain'.by = drain.by /\ drain'.todo = drain.todo
      /\ drain'.done = bad /\ drain'.bad = drain.bad
  BY <1>1, <1>2, <1>3 DEF Drains
<1>5. bad = drain.done \ gone /\ gone \subseteq drain.done
  BY <1>2
<1>6. \A d \in Deck : SameShown(d)
  BY <1>1 DEF SameShown, Shown
<1>. HIDE DEF gone
<1>7. /\ drain'.by = Nobody => drain' = NoDrain
      /\ drain'.todo = <<>> /\ drain'.done = drain.done \ gone /\ drain'.bad \subseteq drain'.done
      /\ \A w \in drain'.done : w.deck \in lost
  BY <1>1, <1>2, <1>4, <1>5 DEF bad
<1>8. outbox' \in Seq(Writes) /\ QueueInv'
  <2>. HIDE DEF QueueType, QueueInv
  <2>. QED  BY <1>1, <1>4, <1>5, <1>6, <1>7, Acknowledged
<1>. QED  BY <1>1, <1>4, <1>8 DEF QueueType

\* The drain of an idle queue, and what a crash or a failed drain leaves.
LEMMA DrainStops ==
    ASSUME QueueType, QueueInv, drain' = NoDrain, UNCHANGED <<outbox, clock, lost, rows>>,
           faults' \in [at : SUBSET FaultPoints, left : 0 .. MaxFaults],
           \A d \in Deck : SameShown(d)
    PROVE  QueueType' /\ QueueInv'
<1>1. QueueType'
  BY NobodyDrains DEF QueueType
<1>2. EachOnce' /\ Stamped' /\ InPlace' /\ DrainInv'
  BY NobodyDrains DEF QueueInv, EachOnce, Stamped, InPlace, SeenFirst, DrainInv
<1>3. ASSUME NEW d \in Deck PROVE DeckShows(d)'
  <2>1. Shown(d)' = Shown(d) /\ commits'[d] = commits[d] /\ DeckShows(d)
    BY DEF SameShown, QueueInv
  <2>. HIDE DEF Shown
  <2>. QED  BY <2>1, NobodyDrains DEF DeckShows, Bounded, LastShows, RowShows, Known, UpToDate
<1>. QED  BY <1>1, <1>2, <1>3 DEF QueueInv

\* The drain ends: all it has seen leaves the queue, applied or moved aside.
LEMMA DrainEnds ==
    ASSUME QueueType, QueueInv, NEW c, DrainEnd(c)
    PROVE  QueueType' /\ QueueInv'
<1>. DEFINE gone == drain.done
<1>1. /\ drain.todo = <<>> /\ outbox' = Remaining(outbox, gone) /\ drain' = NoDrain
      /\ UNCHANGED <<heads, commits, clock, lost, rows, faults>>
  BY DEF DrainEnd, Acknowledge, records
<1>2. gone \subseteq drain.done /\ drain.done \ gone = {}
  OBVIOUS
<1>. HIDE DEF gone
<1>3. \A d \in Deck : SameShown(d)
  BY <1>1 DEF SameShown, Shown
<1>4. /\ drain' \in Drains /\ drain'.todo = <<>> /\ drain'.done = drain.done \ gone
      /\ drain'.bad \subseteq drain'.done /\ \A w \in drain'.done : w.deck \in lost
  BY <1>1, <1>2, NobodyDrains
<1>5. outbox' \in Seq(Writes) /\ QueueInv'
  <2>. HIDE DEF QueueType, QueueInv
  <2>. QED  BY <1>1, <1>2, <1>3, <1>4, Acknowledged
<1>. QED  BY <1>1, <1>4, <1>5 DEF QueueType

\* The drain fails: the writes stay queued.
LEMMA DrainFailed ==
    ASSUME QueueType, QueueInv, NEW c, DrainFails(c)
    PROVE  QueueType' /\ QueueInv'
<1>1. drain' = NoDrain /\ UNCHANGED <<outbox, clock, lost, rows>> /\ \A d \in Deck : SameShown(d)
  BY DEF DrainFails, records, queue, SameShown, Shown
<1>2. faults' \in [at : SUBSET FaultPoints, left : 0 .. MaxFaults]
  BY FaultType DEF DrainFails
<1>. HIDE DEF QueueType, QueueInv, SameShown
<1>. QED  BY <1>1, <1>2, DrainStops

=============================================================================

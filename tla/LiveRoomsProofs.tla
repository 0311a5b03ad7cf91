----------------------------- MODULE LiveRoomsProofs -----------------------------
(***************************************************************************)
(* For every set of presenters, members and decks, a room is reaped when   *)
(* nobody is in it, its countdown is armed as long as it has a presenter,  *)
(* and its members end up with the deck of the presenter.                  *)
(***************************************************************************)
EXTENDS LiveRooms, TLAPS

-----------------------------------------------------------------------------
(* The inductive invariant *)

Occupants == room.members \cup ({room.presenter} \ {Nobody})

\* The handler of the presenter has not been overtaken by another presenter.
PresenterIsCurrent ==
    \A s \in Presenter :
        up /\ room.presenter = s /\ handler[s].at # "idle"
        => /\ handler[s].gen = room.gen /\ handler[s].presenter = s
           /\ handler[s].at = "emit" => handler[s].deck = room.deck

\* Who does not show the deck yet is still to be told by the presenter's join or
\* by its own.
DeckIsOnTheWay ==
    up /\ room.presenter # Nobody /\ room.deck # NoDeck
    => \A r \in room.members \cup {room.presenter} :
          \/ shown[r] = room.deck
          \/ handler[room.presenter].at = "emit" /\ r \in handler[room.presenter].todo
          \/ handler[r].at = "deck" /\ CanEmit(handler[r])

IInv ==
    /\ TypeOK
    /\ ReaperFollowsOccupancy
    /\ RunningClockIsArmed
    /\ PresenterIsCurrent
    /\ DeckIsOnTheWay

HandlerType ==
    [at : {"idle", "load", "emit", "deck"}, gen : Nat, deck : Deck \cup {NoDeck},
     presenter : Presenter \cup {Nobody}, todo : SUBSET Socket]
ClockType == [at : {"none", "running", "paused", "over"}, slot : BOOLEAN, pending : 0 .. 1]
RoomType ==
    [presenter : Presenter \cup {Nobody}, members : SUBSET Member, gen : Nat,
     deck : Deck \cup {NoDeck}, cleanup : BOOLEAN, grace : BOOLEAN]

-----------------------------------------------------------------------------
(* What the operators on a countdown and a room return *)

LEMMA DisarmedClock ==
    ASSUME NEW k \in ClockType, k.pending = IF k.slot THEN 1 ELSE 0
    PROVE  /\ Disarmed(k) \in ClockType
           /\ Disarmed(k).slot = FALSE /\ Disarmed(k).pending = 0 /\ Disarmed(k).at = k.at
<1>. DEFINE p == IF k.slot THEN k.pending - 1 ELSE k.pending
            b == FALSE
            q == Disarmed(k)
<1>1. p = 0 /\ b \in BOOLEAN
  OBVIOUS
<1>2. q = [k EXCEPT !.slot = b, !.pending = p]
  BY DEF Disarmed
<1>3. p \in 0 .. 1 /\ b = FALSE
  BY <1>1
<1>. HIDE DEF p, b, q
<1>4. q \in ClockType /\ q.slot = b /\ q.pending = p /\ q.at = k.at
  BY <1>1, <1>2, <1>3 DEF ClockType
<1>. QED  BY <1>1, <1>3, <1>4 DEF q

LEMMA ArmedClock ==
    ASSUME NEW k \in ClockType, k.slot = FALSE, k.pending = 0
    PROVE  /\ Armed(k) \in ClockType
           /\ Armed(k).slot = TRUE /\ Armed(k).pending = 1 /\ Armed(k).at = k.at
<1>. DEFINE p == k.pending + 1
            b == TRUE
            q == Armed(k)
<1>1. p = 1 /\ b \in BOOLEAN
  OBVIOUS
<1>2. q = [k EXCEPT !.slot = b, !.pending = p]
  BY DEF Armed
<1>3. p \in 0 .. 1 /\ b = TRUE
  BY <1>1
<1>. HIDE DEF p, b, q
<1>4. q \in ClockType /\ q.slot = b /\ q.pending = p /\ q.at = k.at
  BY <1>1, <1>2, <1>3 DEF ClockType
<1>. QED  BY <1>1, <1>3, <1>4 DEF q

LEMMA RoomAfterLeaving ==
    ASSUME NEW r \in RoomType, NEW s \in Socket
    PROVE  /\ Left(r, s) \in RoomType
           /\ Left(r, s).gen = r.gen /\ Left(r, s).deck = r.deck
           /\ Left(r, s).members = r.members \ {s}
           /\ Left(r, s).presenter = IF r.presenter = s THEN Nobody ELSE r.presenter
           /\ Orphaned(Left(r, s)) => \/ Orphaned(r) /\ Left(r, s) = r
                                      \/ Left(r, s).cleanup
                                      \/ Left(r, s).grace
           /\ (r.cleanup => Orphaned(r)) => (Left(r, s).cleanup => Orphaned(Left(r, s)))
<1>. USE LiveConstants DEF RoomType, Socket, Member
<1>1. CASE r.presenter = s
  BY <1>1 DEF Left, Orphaned
<1>2. CASE r.presenter # s /\ s \in Presenter
  BY <1>2 DEF Left, Orphaned
<1>3. CASE r.presenter # s /\ s \notin Presenter
  <2>. DEFINE q == [r EXCEPT !.members = @ \ {s}]
  <2>1. /\ q \in RoomType /\ q.gen = r.gen /\ q.deck = r.deck /\ q.members = r.members \ {s}
        /\ q.presenter = r.presenter /\ q.cleanup = r.cleanup /\ q.grace = r.grace
    OBVIOUS
  <2>2. Left(r, s) = MaybeCleanup(q)
    BY <1>3 DEF Left
  <2>. HIDE DEF q
  <2>. QED  BY <1>3, <2>1, <2>2 DEF MaybeCleanup, Orphaned
<1>. QED  BY <1>1, <1>2, <1>3

\* Setting only the state of a countdown.
LEMMA ClockAt ==
    ASSUME NEW k \in ClockType, NEW at \in {"none", "running", "paused", "over"}
    PROVE  /\ [k EXCEPT !.at = at] \in ClockType
           /\ [k EXCEPT !.at = at].at = at
           /\ [k EXCEPT !.at = at].slot = k.slot /\ [k EXCEPT !.at = at].pending = k.pending
BY DEF ClockType

LEMMA TypeParts ==
    ASSUME TypeOK
    PROVE  /\ room \in RoomType /\ clock \in ClockType /\ handler \in [Socket -> HandlerType]
           /\ room.presenter \in Presenter \cup {Nobody} /\ room.members \subseteq Member
           /\ room.gen \in Nat /\ room.deck \in Deck \cup {NoDeck}
           /\ clock.slot \in BOOLEAN /\ clock.pending \in 0 .. 1
           /\ clock.at \in {"none", "running", "paused", "over"}
BY DEF TypeOK, RoomType, ClockType, HandlerType

-----------------------------------------------------------------------------
(* The countdown *)

\* A step of the countdown alone keeps the invariant when it keeps the countdown
\* well-formed.
LEMMA ClockStep ==
    ASSUME IInv, UNCHANGED <<workload, up, room, socket, joined, handler, shown>>,
           controls' \in 0 .. MaxControls, clock' \in ClockType, RunningClockIsArmed'
    PROVE  IInv'
<1>1. TypeOK'
  BY DEF IInv, TypeOK, ClockType
<1>2. ReaperFollowsOccupancy' /\ PresenterIsCurrent'
  BY DEF IInv, ReaperFollowsOccupancy, PresenterIsCurrent, Orphaned
<1>3. DeckIsOnTheWay'
  BY DEF IInv, DeckIsOnTheWay, CanEmit
<1>. QED  BY <1>1, <1>2, <1>3 DEF IInv

LEMMA ControlStep ==
    ASSUME IInv, NEW s \in Socket,
           StartClock(s) \/ PauseClock(s) \/ ResumeClock(s) \/ AdjustClock(s) \/ StopClock(s)
    PROVE  IInv'
<1>. USE TypeParts, LiveConstants DEF IInv
<1>1. Control(s)
  BY DEF StartClock, PauseClock, ResumeClock, AdjustClock, StopClock
<1>2. up /\ room.presenter # Nobody /\ controls' \in 0 .. MaxControls
  BY <1>1 DEF Control, CanControl, TypeOK
<1>3. UNCHANGED <<workload, up, room, socket, joined, handler, shown>>
  BY <1>1 DEF Control
<1>4. clock.pending = IF clock.slot THEN 1 ELSE 0
  BY DEF RunningClockIsArmed
<1>5. clock.slot => clock.at = "running"
  BY DEF RunningClockIsArmed
<1>6. SUFFICES clock' \in ClockType /\ RunningClockIsArmed'
  BY <1>2, <1>3, ClockStep
<1>7. ASSUME clock' \in ClockType, clock'.slot = TRUE, clock'.pending = 1, clock'.at = "running"
      PROVE  RunningClockIsArmed'
  BY <1>2, <1>3, <1>7 DEF RunningClockIsArmed
<1>8. ASSUME clock' \in ClockType, clock'.slot = FALSE, clock'.pending = 0, clock'.at # "running"
      PROVE  RunningClockIsArmed'
  BY <1>2, <1>3, <1>8 DEF RunningClockIsArmed
<1>9. CASE StartClock(s)
  <2>. DEFINE k == [clock EXCEPT !.at = "running"]
  <2>1. k \in ClockType /\ k.at = "running" /\ k.slot = clock.slot /\ k.pending = clock.pending
    BY ClockAt
  <2>2. clock' = Armed(Disarmed(k))
    BY <1>9 DEF StartClock
  <2>. HIDE DEF k
  <2>3. /\ Disarmed(k) \in ClockType /\ Disarmed(k).slot = FALSE
        /\ Disarmed(k).pending = 0 /\ Disarmed(k).at = "running"
    BY <1>4, <2>1, DisarmedClock
  <2>. QED  BY <1>7, <2>2, <2>3, ArmedClock
<1>10. CASE PauseClock(s)
  <2>1. PICK at \in {"paused", "over"} : clock' = Disarmed([clock EXCEPT !.at = at])
    BY <1>10 DEF PauseClock
  <2>. DEFINE k == [clock EXCEPT !.at = at]
  <2>2. k \in ClockType /\ k.at = at /\ k.slot = clock.slot /\ k.pending = clock.pending
    BY ClockAt
  <2>. HIDE DEF k
  <2>3. clock' = Disarmed(k)
    BY <2>1 DEF k
  <2>. QED  BY <1>4, <1>8, <2>2, <2>3, DisarmedClock
<1>11. CASE ResumeClock(s)
  <2>1. CASE clock.at = "paused" /\ clock' = Armed([clock EXCEPT !.at = "running"])
    <3>. DEFINE k == [clock EXCEPT !.at = "running"]
    <3>1. k \in ClockType /\ k.at = "running" /\ k.slot = clock.slot /\ k.pending = clock.pending
      BY ClockAt
    <3>2. clock' = Armed(k)
      BY <2>1
    <3>. HIDE DEF k
    <3>3. k.slot = FALSE /\ k.pending = 0
      BY <1>4, <1>5, <2>1, <3>1
    <3>. QED  BY <1>7, <3>1, <3>2, <3>3, ArmedClock
  <2>2. CASE clock.at = "over" /\ clock' = Ended(clock)
    <3>1. clock' \in ClockType /\ clock'.at = "over" /\ clock'.slot = clock.slot /\ clock'.pending = clock.pending
      BY <2>2, ClockAt DEF Ended
    <3>. QED  BY <1>4, <1>5, <1>8, <2>2, <3>1
  <2>. QED  BY <1>11, <2>1, <2>2 DEF ResumeClock
<1>12. CASE AdjustClock(s)
  <2>1. CASE clock.at = "running" /\ clock.slot /\ clock' = Armed(Disarmed(clock))
    <3>1. /\ Disarmed(clock) \in ClockType /\ Disarmed(clock).slot = FALSE
          /\ Disarmed(clock).pending = 0 /\ Disarmed(clock).at = "running"
      BY <1>4, <2>1, DisarmedClock
    <3>. QED  BY <1>7, <2>1, <3>1, ArmedClock
  <2>2. CASE clock' = clock
    BY <1>3, <2>2 DEF RunningClockIsArmed
  <2>3. ASSUME NEW at \in {"paused", "over"}, clock.at # "running", clock' = [clock EXCEPT !.at = at]
        PROVE  clock' \in ClockType /\ RunningClockIsArmed'
    <3>1. clock' \in ClockType /\ clock'.at = at /\ clock'.slot = clock.slot /\ clock'.pending = clock.pending
      BY <2>3, ClockAt
    <3>. QED  BY <1>4, <1>5, <1>8, <2>3, <3>1
  <2>. QED  BY <1>12, <2>1, <2>2, <2>3 DEF AdjustClock
<1>13. CASE StopClock(s)
  <2>. DEFINE k == [clock EXCEPT !.at = "none"]
  <2>1. k \in ClockType /\ k.at = "none" /\ k.slot = clock.slot /\ k.pending = clock.pending
    BY ClockAt
  <2>2. clock' = Disarmed(k)
    BY <1>13 DEF StopClock
  <2>. HIDE DEF k
  <2>. QED  BY <1>4, <1>8, <2>1, <2>2, DisarmedClock
<1>. QED  BY <1>9, <1>10, <1>11, <1>12, <1>13

LEMMA ClockFiresStep ==
    ASSUME IInv, ClockFires
    PROVE  IInv'
<1>. USE TypeParts DEF IInv
<1>. DEFINE p == clock.pending - 1
            b == FALSE
            at == IF clock.at = "running" THEN "over" ELSE clock.at
            k == [clock EXCEPT !.pending = p, !.slot = b, !.at = at]
<1>1. clock.slot = TRUE /\ clock.at = "running" /\ clock.pending = 1
  BY DEF ClockFires, RunningClockIsArmed
<1>2. p = 0 /\ p \in 0 .. 1 /\ b \in BOOLEAN /\ b = FALSE /\ at = "over"
  BY <1>1
<1>3. clock' = k
  BY DEF ClockFires
<1>. HIDE DEF p, b, at
<1>4. k \in ClockType /\ k.pending = p /\ k.slot = b /\ k.at = at
  BY <1>2 DEF ClockType
<1>. HIDE DEF k
<1>5. clock' \in ClockType /\ clock'.pending = 0 /\ clock'.slot = FALSE /\ clock'.at = "over"
  BY <1>2, <1>3, <1>4
<1>6. RunningClockIsArmed'
  BY <1>5 DEF RunningClockIsArmed
<1>7. controls' \in 0 .. MaxControls /\ UNCHANGED <<workload, up, room, socket, joined, handler, shown>>
  BY DEF ClockFires, TypeOK
<1>. QED  BY <1>5, <1>6, <1>7, ClockStep

-----------------------------------------------------------------------------
(* The end of a room and of a connection *)

LEMMA RemoveRoomStep ==
    ASSUME IInv, RemoveRoom
    PROVE  IInv'
<1>. USE TypeParts DEF IInv
<1>1. up' = FALSE /\ joined' = {} /\ UNCHANGED <<workload, socket, handler, shown, controls>>
  BY DEF RemoveRoom
<1>2. room' \in RoomType /\ room'.cleanup = FALSE
  BY DEF RemoveRoom, RoomType
<1>3. clock.pending = IF clock.slot THEN 1 ELSE 0
  BY DEF RunningClockIsArmed
<1>4. clock' \in ClockType /\ clock'.slot = FALSE /\ clock'.pending = 0
  BY <1>3, DisarmedClock DEF RemoveRoom
<1>5. TypeOK'
  BY <1>1, <1>2, <1>4 DEF TypeOK, RoomType, ClockType
<1>6. ReaperFollowsOccupancy'
  BY <1>1, <1>2 DEF ReaperFollowsOccupancy
<1>7. RunningClockIsArmed'
  BY <1>1, <1>4 DEF RunningClockIsArmed
<1>8. PresenterIsCurrent' /\ DeckIsOnTheWay'
  BY <1>1 DEF PresenterIsCurrent, DeckIsOnTheWay
<1>. QED  BY <1>5, <1>6, <1>7, <1>8

\* A socket that is not of the room is not told of it and holds no place in it.
LEMMA StrangerLeaves ==
    ASSUME IInv, NEW s \in Socket, Disconnect(s), s \notin joined
    PROVE  IInv'
<1>. USE TypeParts DEF IInv
<1>1. /\ UNCHANGED <<workload, up, room, clock, handler, controls>> /\ joined' = joined
      /\ socket' = [socket EXCEPT ![s] = "off"] /\ shown' = [shown EXCEPT ![s] = NoDeck]
  BY DEF Disconnect
<1>2. TypeOK'
  BY <1>1 DEF TypeOK
<1>3. ReaperFollowsOccupancy' /\ RunningClockIsArmed' /\ PresenterIsCurrent'
  BY <1>1 DEF ReaperFollowsOccupancy, RunningClockIsArmed, PresenterIsCurrent, Orphaned, TypeOK
<1>4. up => s \notin room.members \cup ({room.presenter} \ {Nobody})
  BY DEF ReaperFollowsOccupancy
<1>5. DeckIsOnTheWay'
  BY <1>1, <1>4 DEF DeckIsOnTheWay, CanEmit, TypeOK
<1>. QED  BY <1>2, <1>3, <1>5

LEMMA MemberLeaves ==
    ASSUME IInv, NEW s \in Socket, Disconnect(s), s \in joined
    PROVE  IInv'
<1>. USE TypeParts DEF IInv
<1>1. /\ UNCHANGED <<workload, up, handler, controls>> /\ joined' = joined \ {s} /\ room' = Left(room, s)
      /\ clock' = (IF room.presenter = s THEN Disarmed(clock) ELSE clock)
      /\ socket' = [socket EXCEPT ![s] = "off"] /\ shown' = [shown EXCEPT ![s] = NoDeck]
  BY DEF Disconnect
<1>2. up
  BY DEF ReaperFollowsOccupancy
<1>3. /\ room' \in RoomType /\ room'.gen = room.gen /\ room'.deck = room.deck
      /\ room'.members = room.members \ {s}
      /\ room'.presenter = (IF room.presenter = s THEN Nobody ELSE room.presenter)
  BY <1>1, RoomAfterLeaving
<1>4. clock.pending = IF clock.slot THEN 1 ELSE 0
  BY DEF RunningClockIsArmed
<1>5. clock' \in ClockType /\ (room.presenter = s => clock'.slot = FALSE /\ clock'.pending = 0)
  BY <1>1, <1>4, DisarmedClock
<1>6. TypeOK'
  BY <1>1, <1>3, <1>5 DEF TypeOK, RoomType, ClockType
<1>7. ReaperFollowsOccupancy'
  <2>1. up' /\ Orphaned(room)' => room'.cleanup \/ room'.grace
    BY <1>1, <1>2, RoomAfterLeaving DEF ReaperFollowsOccupancy, Orphaned
  <2>2. room'.cleanup => Orphaned(room)'
    BY <1>1, RoomAfterLeaving DEF ReaperFollowsOccupancy, Orphaned
  <2>3. up' => room'.members \cup ({room'.presenter} \ {Nobody}) \subseteq joined'
    BY <1>1, <1>2, <1>3 DEF ReaperFollowsOccupancy
  <2>4. \A x \in joined' : up' /\ socket'[x] = "on"
    BY <1>1, <1>2 DEF ReaperFollowsOccupancy, TypeOK
  <2>. QED  BY <2>1, <2>2, <2>3, <2>4 DEF ReaperFollowsOccupancy
<1>8. RunningClockIsArmed'
  BY <1>1, <1>2, <1>3, <1>5 DEF RunningClockIsArmed
<1>9. PresenterIsCurrent'
  BY <1>1, <1>2, <1>3, LiveConstants DEF PresenterIsCurrent, Socket
<1>10. DeckIsOnTheWay'
  BY <1>1, <1>2, <1>3, LiveConstants DEF DeckIsOnTheWay, CanEmit, TypeOK, Socket
<1>. QED  BY <1>6, <1>7, <1>8, <1>9, <1>10

-----------------------------------------------------------------------------
(* Joining *)

LEMMA JoinAsPresenterStep ==
    ASSUME IInv, NEW s \in Socket, NEW d \in Deck, JoinAsPresenter(s, d)
    PROVE  IInv'
<1>. USE TypeParts, LiveConstants DEF IInv
<1>. DEFINE h == [at |-> "load", gen |-> room.gen + 1, deck |-> d, presenter |-> s, todo |-> {}]
<1>1. /\ s \in Presenter /\ up /\ socket[s] = "new" /\ joined' = joined \cup {s}
      /\ UNCHANGED <<workload, up, clock, shown, controls>>
      /\ socket' = [socket EXCEPT ![s] = "on"] /\ handler' = [handler EXCEPT ![s] = h]
  BY DEF JoinAsPresenter, Connect
<1>2. /\ room' \in RoomType /\ room'.presenter = s /\ room'.gen = room.gen + 1
      /\ room'.deck = NoDeck /\ room'.members = room.members
      /\ room'.cleanup = FALSE /\ room'.grace = FALSE
  <2>. DEFINE g == room.gen + 1
              no == FALSE
  <2>1. g \in Nat /\ no \in BOOLEAN /\ no = FALSE
    OBVIOUS
  <2>2. room' = [room EXCEPT !.presenter = s, !.gen = g, !.deck = NoDeck, !.grace = no, !.cleanup = no]
    BY DEF JoinAsPresenter
  <2>. HIDE DEF g, no
  <2>3. /\ room' \in RoomType /\ room'.presenter = s /\ room'.gen = g /\ room'.deck = NoDeck
        /\ room'.members = room.members /\ room'.cleanup = no /\ room'.grace = no
    BY <1>1, <2>1, <2>2 DEF RoomType
  <2>. QED  BY <2>1, <2>3 DEF g
<1>3. h \in HandlerType /\ h.at = "load" /\ h.gen = room'.gen /\ h.presenter = s
  BY <1>1, <1>2 DEF HandlerType
<1>. HIDE DEF h
<1>4. TypeOK'
  BY <1>1, <1>2, <1>3 DEF TypeOK, RoomType, HandlerType
<1>5. handler'[s] = h /\ \A x \in Socket \ {s} : handler'[x] = handler[x]
  BY <1>1 DEF TypeOK
<1>6. ReaperFollowsOccupancy'
  <2>1. s # Nobody
    BY <1>1 DEF Socket
  <2>2. \A x \in joined' : socket'[x] = "on"
    BY <1>1 DEF ReaperFollowsOccupancy, TypeOK
  <2>3. room'.members \cup {room'.presenter} \subseteq joined'
    BY <1>1, <1>2 DEF ReaperFollowsOccupancy
  <2>. QED  BY <1>1, <1>2, <2>1, <2>2, <2>3 DEF ReaperFollowsOccupancy, Orphaned
<1>7. RunningClockIsArmed'
  BY <1>1, <1>2, <1>3, <1>5 DEF RunningClockIsArmed, Socket
<1>8. PresenterIsCurrent'
  BY <1>1, <1>2, <1>3, <1>5 DEF PresenterIsCurrent
<1>9. DeckIsOnTheWay'
  BY <1>2 DEF DeckIsOnTheWay
<1>. QED  BY <1>4, <1>6, <1>7, <1>8, <1>9

LEMMA JoinAsMemberStep ==
    ASSUME IInv, NEW s \in Socket, JoinAsMember(s)
    PROVE  IInv'
<1>. USE TypeParts, LiveConstants DEF IInv
<1>. DEFINE h == [at |-> "deck", gen |-> room.gen, deck |-> room.deck,
                  presenter |-> room.presenter, todo |-> {}]
<1>1. /\ s \in Member /\ up /\ socket[s] = "new" /\ joined' = joined \cup {s}
      /\ UNCHANGED <<workload, up, clock, shown, controls>>
      /\ socket' = [socket EXCEPT ![s] = "on"]
      /\ handler' = IF room.deck = NoDeck THEN handler ELSE [handler EXCEPT ![s] = h]
  BY DEF JoinAsMember, Connect
<1>2. /\ room' \in RoomType /\ room'.presenter = room.presenter /\ room'.gen = room.gen
      /\ room'.deck = room.deck /\ room'.members = room.members \cup {s}
      /\ room'.cleanup = FALSE /\ room'.grace = room.grace
  <2>. DEFINE no == FALSE
  <2>1. no \in BOOLEAN /\ no = FALSE
    OBVIOUS
  <2>2. room' = [room EXCEPT !.members = @ \cup {s}, !.cleanup = no]
    BY DEF JoinAsMember
  <2>. HIDE DEF no
  <2>3. /\ room' \in RoomType /\ room'.presenter = room.presenter /\ room'.gen = room.gen
        /\ room'.deck = room.deck /\ room'.members = room.members \cup {s}
        /\ room'.cleanup = no /\ room'.grace = room.grace
    BY <1>1, <2>1, <2>2 DEF RoomType
  <2>. QED  BY <2>1, <2>3
<1>3. /\ h \in HandlerType /\ h.at = "deck" /\ h.gen = room.gen /\ h.deck = room.deck
      /\ h.presenter = room.presenter
  BY DEF HandlerType
<1>. HIDE DEF h
<1>4. TypeOK'
  BY <1>1, <1>2, <1>3 DEF TypeOK, RoomType, HandlerType
<1>5. /\ room.deck # NoDeck => handler'[s] = h
      /\ \A x \in Socket \ {s} : handler'[x] = handler[x]
      /\ s \notin Presenter
  BY <1>1 DEF TypeOK
<1>6. ReaperFollowsOccupancy'
  <2>1. \A x \in joined' : socket'[x] = "on"
    BY <1>1 DEF ReaperFollowsOccupancy, TypeOK
  <2>2. room'.members \cup ({room'.presenter} \ {Nobody}) \subseteq joined'
    BY <1>1, <1>2 DEF ReaperFollowsOccupancy
  <2>. QED  BY <1>1, <1>2, <2>1, <2>2 DEF ReaperFollowsOccupancy, Orphaned
<1>7. RunningClockIsArmed'
  BY <1>1, <1>2, <1>5 DEF RunningClockIsArmed, Socket
<1>8. PresenterIsCurrent'
  BY <1>1, <1>2, <1>5 DEF PresenterIsCurrent, Socket
<1>9. DeckIsOnTheWay'
  <2>. SUFFICES ASSUME room.presenter # Nobody, room.deck # NoDeck,
                       NEW r \in room.members \cup {s} \cup {room.presenter}
                PROVE  \/ shown'[r] = room'.deck
                       \/ handler'[room'.presenter].at = "emit" /\ r \in handler'[room'.presenter].todo
                       \/ handler'[r].at = "deck" /\ CanEmit(handler[r])'
    BY <1>1, <1>2 DEF DeckIsOnTheWay
  <2>1. CASE r = s
    BY <1>1, <1>2, <1>3, <1>5, <2>1 DEF CanEmit
  <2>2. CASE r # s
    <3>1. \/ shown[r] = room.deck
          \/ handler[room.presenter].at = "emit" /\ r \in handler[room.presenter].todo
          \/ handler[r].at = "deck" /\ CanEmit(handler[r])
      BY <1>1, <2>2 DEF DeckIsOnTheWay
    <3>. QED  BY <1>1, <1>2, <1>5, <2>2, <3>1 DEF CanEmit, Socket, Member
  <2>. QED  BY <2>1, <2>2
<1>. QED  BY <1>4, <1>6, <1>7, <1>8, <1>9

LEMMA JoinRefusedStep ==
    ASSUME IInv, NEW s \in Socket, JoinRefused(s)
    PROVE  IInv'
<1>. USE DEF IInv
<1>1. /\ UNCHANGED <<workload, up, room, clock, joined, handler, shown, controls>>
      /\ socket' = [socket EXCEPT ![s] = "on"]
  BY DEF JoinRefused, Connect
<1>2. TypeOK'
  BY <1>1 DEF TypeOK
<1>3. ReaperFollowsOccupancy' /\ RunningClockIsArmed' /\ PresenterIsCurrent'
  BY <1>1 DEF ReaperFollowsOccupancy, RunningClockIsArmed, PresenterIsCurrent, Orphaned, TypeOK
<1>4. DeckIsOnTheWay'
  BY <1>1 DEF DeckIsOnTheWay, CanEmit
<1>. QED  BY <1>2, <1>3, <1>4

-----------------------------------------------------------------------------
(* Telling the deck *)

\* The end of a join leaves every other handler alone, and the countdown of a
\* presenter who is still there armed or ended.
LEMMA FinishedJoin ==
    ASSUME IInv, NEW s \in Socket, handler[s].at # "idle", FinishJoin(s),
           UNCHANGED <<up, room, socket, joined>>
    PROVE  /\ handler' \in [Socket -> HandlerType]
           /\ handler'[s].at = "idle"
           /\ \A x \in Socket \ {s} : handler'[x] = handler[x]
           /\ clock' \in ClockType
           /\ RunningClockIsArmed' /\ PresenterIsCurrent' /\ ReaperFollowsOccupancy'
<1>. USE TypeParts, LiveConstants DEF IInv
<1>1. NoHandler \in HandlerType /\ NoHandler.at = "idle"
  BY DEF NoHandler, HandlerType
<1>2. handler' = [handler EXCEPT ![s] = NoHandler]
  BY DEF FinishJoin
<1>3. /\ handler' \in [Socket -> HandlerType] /\ handler'[s].at = "idle"
      /\ \A x \in Socket \ {s} : handler'[x] = handler[x]
  BY <1>1, <1>2
<1>4. clock.pending = IF clock.slot THEN 1 ELSE 0
  BY DEF RunningClockIsArmed
<1>5. clock' \in ClockType /\ RunningClockIsArmed'
  <2>1. CASE Current(s) /\ s \in Presenter /\ clock.at = "running" /\ ~clock.slot
    <3>1. room.presenter = s /\ s # Nobody /\ up
      BY <2>1 DEF Current
    <3>2. clock' = Armed(clock) \/ clock' = Ended(clock)
      BY <2>1 DEF FinishJoin, Rearmed
    <3>3. CASE clock' = Armed(clock)
      <4>1. clock' \in ClockType /\ clock'.slot = TRUE /\ clock'.pending = 1 /\ clock'.at = "running"
        BY <1>4, <2>1, <3>3, ArmedClock
      <4>. QED  BY <3>1, <4>1 DEF RunningClockIsArmed
    <3>4. CASE clock' = Ended(clock)
      <4>1. clock' \in ClockType /\ clock'.slot = clock.slot /\ clock'.pending = clock.pending /\ clock'.at = "over"
        BY <3>4, ClockAt DEF Ended
      <4>. QED  BY <1>4, <2>1, <4>1 DEF RunningClockIsArmed
    <3>. QED  BY <3>2, <3>3, <3>4
  <2>2. CASE Current(s) /\ s \in Presenter /\ ~(clock.at = "running" /\ ~clock.slot)
    <3>1. clock' = clock
      BY <2>2 DEF FinishJoin, Rearmed
    <3>. QED  BY <2>2, <3>1 DEF RunningClockIsArmed
  <2>3. CASE ~(Current(s) /\ s \in Presenter)
    <3>1. clock' = clock
      BY <2>3 DEF FinishJoin
    <3>2. ~(up /\ room.presenter = s)
      BY <2>3 DEF Current, PresenterIsCurrent, ReaperFollowsOccupancy, Socket
    <3>. QED  BY <1>3, <3>1, <3>2 DEF RunningClockIsArmed, Socket
  <2>. QED  BY <2>1, <2>2, <2>3
<1>6. PresenterIsCurrent'
  BY <1>3 DEF PresenterIsCurrent, Socket
<1>7. ReaperFollowsOccupancy'
  BY DEF ReaperFollowsOccupancy, Orphaned
<1>. QED  BY <1>3, <1>5, <1>6, <1>7

\* A deck is only ever shown while it is the deck of the room.
LEMMA DisplayedDeck ==
    ASSUME IInv, NEW r \in Socket, NEW h \in HandlerType
    PROVE  /\ Displayed(r, h) \in [Socket -> Deck \cup {NoDeck}]
           /\ \A x \in Socket : shown[x] = room.deck => Displayed(r, h)[x] = room.deck
           /\ socket[r] = "on" /\ CanEmit(h) => Displayed(r, h)[r] = room.deck
<1>1. shown \in [Socket -> Deck \cup {NoDeck}]
  BY DEF IInv, TypeOK
<1>. QED  BY <1>1 DEF Displayed, CanEmit, HandlerType

LEMMA PresenterLoadsStep ==
    ASSUME IInv, NEW s \in Socket, PresenterLoads(s)
    PROVE  IInv'
<1>. USE TypeParts, LiveConstants DEF IInv
<1>1. handler[s].at = "load" /\ handler[s] \in HandlerType
      /\ UNCHANGED <<workload, up, socket, joined, shown, controls>>
  BY DEF PresenterLoads
<1>2. CASE /\ up /\ room.presenter = s /\ room.gen = handler[s].gen
           /\ room' = [room EXCEPT !.deck = handler[s].deck]
           /\ handler' = [handler EXCEPT ![s].at = "emit", ![s].todo = {s} \cup room.members]
           /\ UNCHANGED clock
  <2>. DEFINE all == {s} \cup room.members
              h == [handler[s] EXCEPT !.at = "emit", !.todo = all]
  <2>1. s \in Presenter /\ s # Nobody /\ all \in SUBSET Socket
    BY <1>2 DEF Socket, Member
  <2>2. handler' = [handler EXCEPT ![s] = h]
    BY <1>2
  <2>3. handler[s].presenter = s
    BY <1>1, <1>2, <2>1 DEF PresenterIsCurrent
  <2>. HIDE DEF all
  <2>4. /\ h \in HandlerType /\ h.at = "emit" /\ h.todo = all /\ h.gen = handler[s].gen
        /\ h.deck = handler[s].deck /\ h.presenter = s
    BY <1>1, <2>1, <2>3 DEF HandlerType
  <2>. HIDE DEF h
  <2>5. /\ handler' \in [Socket -> HandlerType] /\ handler'[s] = h
        /\ \A x \in Socket \ {s} : handler'[x] = handler[x]
    BY <2>2, <2>4
  <2>6. /\ room' \in RoomType /\ room'.deck = handler[s].deck /\ room'.gen = room.gen
        /\ room'.presenter = room.presenter /\ room'.members = room.members
        /\ room'.cleanup = room.cleanup /\ room'.grace = room.grace
    <3>1. handler[s].deck \in Deck \cup {NoDeck}
      BY <1>1 DEF HandlerType
    <3>. QED  BY <1>2, <3>1 DEF RoomType
  <2>7. TypeOK'
    BY <1>1, <1>2, <2>5, <2>6 DEF TypeOK, RoomType, HandlerType, ClockType
  <2>8. ReaperFollowsOccupancy'
    BY <1>1, <2>6 DEF ReaperFollowsOccupancy, Orphaned
  <2>9. RunningClockIsArmed'
    BY <1>1, <1>2, <2>4, <2>5, <2>6 DEF RunningClockIsArmed
  <2>10. PresenterIsCurrent'
    BY <1>1, <1>2, <2>4, <2>5, <2>6 DEF PresenterIsCurrent, Socket
  <2>11. DeckIsOnTheWay'
    BY <1>2, <2>4, <2>5, <2>6 DEF DeckIsOnTheWay, all
  <2>. QED  BY <2>7, <2>8, <2>9, <2>10, <2>11
<1>3. CASE FinishJoin(s) /\ UNCHANGED room
  <2>1. /\ handler' \in [Socket -> HandlerType] /\ handler'[s].at = "idle"
        /\ \A x \in Socket \ {s} : handler'[x] = handler[x]
        /\ clock' \in ClockType
        /\ RunningClockIsArmed' /\ PresenterIsCurrent' /\ ReaperFollowsOccupancy'
    BY <1>1, <1>3, FinishedJoin
  <2>2. TypeOK'
    BY <1>1, <1>3, <2>1 DEF TypeOK, HandlerType, ClockType
  <2>3. DeckIsOnTheWay'
    <3>. SUFFICES ASSUME up, room.presenter # Nobody, room.deck # NoDeck,
                         NEW x \in room.members \cup {room.presenter}
                  PROVE  \/ shown'[x] = room.deck
                         \/ handler'[room.presenter].at = "emit" /\ x \in handler'[room.presenter].todo
                         \/ handler'[x].at = "deck" /\ CanEmit(handler'[x])
      BY <1>1, <1>3 DEF DeckIsOnTheWay, CanEmit
    <3>1. /\ x \in Socket /\ room.presenter \in Socket
          /\ \/ shown[x] = room.deck
             \/ handler[room.presenter].at = "emit" /\ x \in handler[room.presenter].todo
             \/ handler[x].at = "deck" /\ CanEmit(handler[x])
      BY DEF DeckIsOnTheWay, Socket, Member
    <3>. QED  BY <1>1, <2>1, <3>1
  <2>. QED  BY <2>1, <2>2, <2>3
<1>. QED  BY <1>2, <1>3 DEF PresenterLoads

LEMMA EmitToStep ==
    ASSUME IInv, NEW s \in Socket, NEW r \in Socket, EmitTo(s, r)
    PROVE  IInv'
<1>. USE TypeParts, LiveConstants DEF IInv
<1>1. /\ handler[s].at = "emit" /\ handler[s] \in HandlerType /\ shown' = Displayed(r, handler[s])
      /\ UNCHANGED <<workload, up, room, socket, joined, controls>>
  BY DEF EmitTo
<1>2. /\ shown' \in [Socket -> Deck \cup {NoDeck}]
      /\ \A x \in Socket : shown[x] = room.deck => shown'[x] = room.deck
      /\ socket[r] = "on" /\ CanEmit(handler[s]) => shown'[r] = room.deck
  BY <1>1, DisplayedDeck
<1>3. up /\ room.presenter = s /\ s # Nobody /\ r \in room.members \cup {s} => shown'[r] = room.deck
  <2>. SUFFICES ASSUME up, room.presenter = s, s # Nobody, r \in room.members \cup {s}
                PROVE  shown'[r] = room.deck
    OBVIOUS
  <2>1. CanEmit(handler[s])
    BY <1>1 DEF PresenterIsCurrent, CanEmit
  <2>2. socket[r] = "on"
    BY DEF ReaperFollowsOccupancy
  <2>. QED  BY <1>2, <2>1, <2>2
<1>4. CASE handler[s].todo = {r} /\ FinishJoin(s)
  <2>1. /\ handler' \in [Socket -> HandlerType] /\ handler'[s].at = "idle"
        /\ \A x \in Socket \ {s} : handler'[x] = handler[x]
        /\ clock' \in ClockType
        /\ RunningClockIsArmed' /\ PresenterIsCurrent' /\ ReaperFollowsOccupancy'
    BY <1>1, <1>4, FinishedJoin
  <2>2. TypeOK'
    BY <1>1, <1>2, <2>1 DEF TypeOK, HandlerType, ClockType
  <2>3. DeckIsOnTheWay'
    <3>. SUFFICES ASSUME up, room.presenter # Nobody, room.deck # NoDeck,
                         NEW x \in room.members \cup {room.presenter}
                  PROVE  \/ shown'[x] = room.deck
                         \/ handler'[room.presenter].at = "emit" /\ x \in handler'[room.presenter].todo
                         \/ handler'[x].at = "deck" /\ CanEmit(handler'[x])
      BY <1>1 DEF DeckIsOnTheWay, CanEmit
    <3>1. /\ x \in Socket
          /\ \/ shown[x] = room.deck
             \/ handler[room.presenter].at = "emit" /\ x \in handler[room.presenter].todo
             \/ handler[x].at = "deck" /\ CanEmit(handler[x])
      BY DEF DeckIsOnTheWay, Socket, Member
    <3>. QED  BY <1>1, <1>2, <1>3, <1>4, <2>1, <3>1 DEF Socket
  <2>. QED  BY <2>1, <2>2, <2>3
<1>5. CASE handler' = [handler EXCEPT ![s].todo = @ \ {r}] /\ UNCHANGED clock
  <2>. DEFINE h == [handler[s] EXCEPT !.todo = @ \ {r}]
  <2>1. handler' = [handler EXCEPT ![s] = h]
    BY <1>5
  <2>2. /\ h \in HandlerType /\ h.at = "emit" /\ h.gen = handler[s].gen /\ h.deck = handler[s].deck
        /\ h.presenter = handler[s].presenter /\ h.todo = handler[s].todo \ {r}
    BY <1>1 DEF HandlerType
  <2>. HIDE DEF h
  <2>3. /\ handler' \in [Socket -> HandlerType] /\ handler'[s] = h
        /\ \A x \in Socket \ {s} : handler'[x] = handler[x]
    BY <2>1, <2>2
  <2>4. TypeOK'
    BY <1>1, <1>2, <1>5, <2>3 DEF TypeOK, HandlerType
  <2>5. ReaperFollowsOccupancy'
    BY <1>1 DEF ReaperFollowsOccupancy, Orphaned
  <2>6. RunningClockIsArmed'
    BY <1>1, <1>5, <2>2, <2>3 DEF RunningClockIsArmed, Socket
  <2>7. PresenterIsCurrent'
    BY <1>1, <2>2, <2>3 DEF PresenterIsCurrent, Socket
  <2>8. DeckIsOnTheWay'
    <3>. SUFFICES ASSUME up, room.presenter # Nobody, room.deck # NoDeck,
                         NEW x \in room.members \cup {room.presenter}
                  PROVE  \/ shown'[x] = room.deck
                         \/ handler'[room.presenter].at = "emit" /\ x \in handler'[room.presenter].todo
                         \/ handler'[x].at = "deck" /\ CanEmit(handler'[x])
      BY <1>1 DEF DeckIsOnTheWay, CanEmit
    <3>1. /\ x \in Socket
          /\ \/ shown[x] = room.deck
             \/ handler[room.presenter].at = "emit" /\ x \in handler[room.presenter].todo
             \/ handler[x].at = "deck" /\ CanEmit(handler[x])
      BY DEF DeckIsOnTheWay, Socket, Member
    <3>. QED  BY <1>1, <1>2, <1>3, <2>2, <2>3, <3>1 DEF Socket
  <2>. QED  BY <2>4, <2>5, <2>6, <2>7, <2>8
<1>. QED  BY <1>4, <1>5 DEF EmitTo

LEMMA MemberLoadsStep ==
    ASSUME IInv, NEW s \in Socket, MemberLoads(s)
    PROVE  IInv'
<1>. USE TypeParts, LiveConstants DEF IInv
<1>1. /\ handler[s].at = "deck" /\ handler[s] \in HandlerType /\ shown' = Displayed(s, handler[s])
      /\ UNCHANGED <<workload, up, room, socket, joined, controls>> /\ FinishJoin(s)
  BY DEF MemberLoads
<1>2. /\ shown' \in [Socket -> Deck \cup {NoDeck}]
      /\ \A x \in Socket : shown[x] = room.deck => shown'[x] = room.deck
      /\ socket[s] = "on" /\ CanEmit(handler[s]) => shown'[s] = room.deck
  BY <1>1, DisplayedDeck
<1>3. /\ handler' \in [Socket -> HandlerType] /\ handler'[s].at = "idle"
      /\ \A x \in Socket \ {s} : handler'[x] = handler[x]
      /\ clock' \in ClockType
      /\ RunningClockIsArmed' /\ PresenterIsCurrent' /\ ReaperFollowsOccupancy'
  BY <1>1, FinishedJoin
<1>4. TypeOK'
  BY <1>1, <1>2, <1>3 DEF TypeOK, HandlerType, ClockType
<1>5. DeckIsOnTheWay'
  <2>. SUFFICES ASSUME up, room.presenter # Nobody, room.deck # NoDeck,
                       NEW x \in room.members \cup {room.presenter}
                PROVE  \/ shown'[x] = room.deck
                       \/ handler'[room.presenter].at = "emit" /\ x \in handler'[room.presenter].todo
                       \/ handler'[x].at = "deck" /\ CanEmit(handler'[x])
    BY <1>1 DEF DeckIsOnTheWay, CanEmit
  <2>1. /\ x \in Socket /\ socket[x] = "on"
        /\ \/ shown[x] = room.deck
           \/ handler[room.presenter].at = "emit" /\ x \in handler[room.presenter].todo
           \/ handler[x].at = "deck" /\ CanEmit(handler[x])
    BY DEF DeckIsOnTheWay, ReaperFollowsOccupancy, Socket, Member
  <2>. QED  BY <1>1, <1>2, <1>3, <2>1 DEF Socket
<1>. QED  BY <1>3, <1>4, <1>5

-----------------------------------------------------------------------------
(* The theorems *)

LEMMA InitInv == Init => IInv
<1>. SUFFICES ASSUME Init PROVE IInv
  OBVIOUS
<1>. USE LiveConstants
<1>1. /\ room.presenter = Nobody /\ room.members = {} /\ room.cleanup = TRUE
      /\ clock.slot = FALSE /\ clock.pending = 0 /\ joined = {}
  BY DEF Init, NoClock
<1>2. TypeOK
  BY DEF Init, TypeOK, NoClock, NoHandler
<1>3. ReaperFollowsOccupancy /\ RunningClockIsArmed
  BY <1>1 DEF ReaperFollowsOccupancy, RunningClockIsArmed, Orphaned
<1>4. PresenterIsCurrent /\ DeckIsOnTheWay
  BY <1>1 DEF PresenterIsCurrent, DeckIsOnTheWay, Socket
<1>. QED  BY <1>2, <1>3, <1>4 DEF IInv

LEMMA NextInv == IInv /\ [Next]_vars => IInv'
<1>. SUFFICES ASSUME IInv, [Next]_vars PROVE IInv'
  OBVIOUS
<1>1. ASSUME NEW s \in Socket, NEW d \in Deck, JoinAsPresenter(s, d) PROVE IInv'
  BY <1>1, JoinAsPresenterStep
<1>2. ASSUME NEW s \in Socket, JoinAsMember(s) \/ JoinRefused(s) PROVE IInv'
  BY <1>2, JoinAsMemberStep, JoinRefusedStep
<1>3. ASSUME NEW s \in Socket, Disconnect(s) PROVE IInv'
  BY <1>3, StrangerLeaves, MemberLeaves
<1>4. ASSUME NEW s \in Socket, JoinStep(s) PROVE IInv'
  BY <1>4, PresenterLoadsStep, MemberLoadsStep, EmitToStep DEF JoinStep
<1>5. ASSUME NEW s \in Socket,
             StartClock(s) \/ PauseClock(s) \/ ResumeClock(s) \/ AdjustClock(s) \/ StopClock(s)
      PROVE  IInv'
  BY <1>5, ControlStep
<1>6. CASE ClockFires
  BY <1>6, ClockFiresStep
<1>7. CASE CleanupFires \/ GraceExpires \/ EndRoom
  BY <1>7, RemoveRoomStep DEF CleanupFires, GraceExpires, EndRoom
<1>8. CASE UNCHANGED vars
  BY <1>8 DEF vars, IInv, TypeOK, ReaperFollowsOccupancy, RunningClockIsArmed, PresenterIsCurrent,
              DeckIsOnTheWay, Orphaned, CanEmit
<1>. QED  BY <1>1, <1>2, <1>3, <1>4, <1>5, <1>6, <1>7, <1>8 DEF Next

\* The strengthened invariant of a room: what is asserted of it, and who is still
\* to be told of its deck.
THEOREM Invariance == Spec => []IInv
  BY InitInv, NextInv, PTL DEF Spec

\* Every variable of a room keeps its type (rooms, socketToRoom, the timers).
THEOREM RoomsAreWellTyped == Spec => []TypeOK
<1>1. IInv => TypeOK
  BY DEF IInv
<1>. QED  BY <1>1, Invariance, PTL

\* However many presenters and members come, go and reconnect, a timer waits for
\* a room exactly when nobody is in it (maybeScheduleRoomCleanup(), leaveRoom()).
THEOREM RoomsAreReaped == Spec => []ReaperFollowsOccupancy
<1>1. IInv => ReaperFollowsOccupancy
  BY DEF IInv
<1>. QED  BY <1>1, Invariance, PTL

\* A countdown that runs has one timeout through every change of the presenter,
\* and no timeout outlives it (leaveRoom(), the end of a presenter's join).
THEOREM CountdownsAreArmed == Spec => []RunningClockIsArmed
<1>1. IInv => RunningClockIsArmed
  BY DEF IInv
<1>. QED  BY <1>1, Invariance, PTL

\* Once every join is handled, whoever is in a presented room shows its deck,
\* whatever replaced whom while decks were loaded (emitRoomPresentation()).
THEOREM MembersSeeTheDeck == Spec => []MembersShowTheDeck
<1>1. IInv => MembersShowTheDeck
  <2>. SUFFICES ASSUME IInv, up, Settled, room.presenter # Nobody, room.deck # NoDeck,
                       NEW s \in room.members \cup {room.presenter}
                PROVE  shown[s] = room.deck
    BY DEF MembersShowTheDeck
  <2>1. s \in Socket /\ room.presenter \in Socket
    BY TypeParts DEF IInv, Socket, Member
  <2>2. handler[s].at = "idle" /\ handler[room.presenter].at = "idle"
    BY <2>1 DEF Settled
  <2>. QED  BY <2>2 DEF IInv, DeckIsOnTheWay
<1>. QED  BY <1>1, Invariance, PTL

=============================================================================

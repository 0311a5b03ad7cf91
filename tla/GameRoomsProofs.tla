----------------------------- MODULE GameRoomsProofs -----------------------------
(***************************************************************************)
(* For any number of presenters, players, observers, connections and rooms *)
(* under one id: a deserted or finished game has a timer that ends it,     *)
(* seats belong to the connections that hold them, the page that owns a    *)
(* room can always come back to it as its only host, and what a room       *)
(* counts adds up.                                                         *)
(***************************************************************************)
EXTENDS GameRooms, FiniteSetTheorems, WellFoundedInduction, TLAPS

-----------------------------------------------------------------------------
(* What a room is *)

Gamers == Host \cup Player
Maps(D, S) == UNION {[E -> S] : E \in SUBSET D}
Seats == [socket : Socket \cup {NoSocket}, session : Nat, score : Nat, answered : SUBSET Nat]
Rooms ==
    [number : Nat, owner : Host \cup {Nobody}, status : {"waiting", "active", "finished"},
     players : Maps(Gamers, Seats), host : Host \cup {Nobody},
     hostSocket : Socket \cup {NoSocket}, question : Nat, timer : {"none", "empty", "finished"},
     unclaimed : BOOLEAN, pending : BOOLEAN, votes : SUBSET Gamers,
     submissions : Maps(Gamers, Nat), words : Nat]
Conns ==
    [at : {"new", "dialled", "on", "off"}, joined : BOOLEAN, channel : Nat, token : Nat,
     capability : Nat, reply : Nat]

GameType ==
    /\ room \in Rooms /\ conn \in [Socket -> Conns] /\ cast \subseteq Person
    /\ stored \in [Person -> Nat] /\ issued \in [Person -> Nat]
    /\ capability \in [Host -> Nat] /\ boot \in [Host -> Nat]
    /\ latest \in [Person -> Socket \cup {NoSocket}]

SocketOf(r, x) == IF x \in DOMAIN r.players THEN r.players[x].socket ELSE NoSocket

\* Two rooms with the same seats, of the same page, with the same timers.
SameSeats(q, r) == \A x \in Gamers : SocketOf(q, x) = SocketOf(r, x)
SameClaim(q, r) == /\ q.number = r.number /\ q.owner = r.owner
                   /\ q.host = r.host /\ q.pending = r.pending
SameTimers(q, r) == q.timer = r.timer /\ q.status = r.status /\ q.unclaimed = r.unclaimed

-----------------------------------------------------------------------------
(* The inductive invariant *)

SeatInv ==
    /\ \A s \in Socket : conn[s].joined => up /\ conn[s].channel = room.number /\ conn[s].at = "on"
    /\ \A p \in Gamers : SocketOf(room, p) # NoSocket =>
          SocketOf(room, p)[1] = p /\ conn[SocketOf(room, p)].joined
    /\ \A p \in Gamers : latest[p] # NoSocket =>
          latest[p][1] = p /\ (conn[latest[p]].joined => SocketOf(room, p) = latest[p])

\* Only the page that owns the room, or has been told its capability, knows it, and
\* whoever joined with it still has it stored.
HostInv ==
    /\ room.number > 0
    /\ \A h \in Host : capability[h] <= room.number /\ boot[h] <= room.number
    /\ \A s \in Socket : conn[s].capability <= room.number
    /\ room.host # Nobody => room.host = room.owner
    /\ up => /\ room.owner \in Host
             /\ room.pending \/ capability[room.owner] = room.number
             /\ boot[room.owner] \in {0, room.number}
             /\ \A h \in Host : room.number \in {capability[h], boot[h]} => h = room.owner
             /\ \A s \in Socket : conn[s].capability = room.number =>
                   s[1] = room.owner /\ capability[room.owner] = room.number

IInv == GameType /\ SeatInv /\ HostInv /\ ReaperFollowsOccupancy

-----------------------------------------------------------------------------
(* Functions on part of a set *)

\* A function on part of a set is one with values where it is defined.
LEMMA MapsAre ==
    ASSUME NEW D, NEW S, NEW f
    PROVE  /\ f \in Maps(D, S) => /\ DOMAIN f \subseteq D /\ \A x \in DOMAIN f : f[x] \in S
                                  /\ f = [x \in DOMAIN f |-> f[x]]
           /\ \A E \in SUBSET D : f \in [E -> S] => f \in Maps(D, S)
BY DEF Maps

\* With() adds or replaces one value.
LEMMA WithIs ==
    ASSUME NEW D, NEW S, NEW f \in Maps(D, S), NEW x \in D, NEW y \in S
    PROVE  With(f, x, y) \in Maps(D, S)
<1>1. DOMAIN f \subseteq D /\ \A z \in DOMAIN f : f[z] \in S
  BY MapsAre
<1>2. With(f, x, y) \in [DOMAIN f \cup {x} -> S]
  BY <1>1 DEF With
<1>3. DOMAIN f \cup {x} \in SUBSET D
  BY <1>1
<1>. QED  BY <1>2, <1>3, MapsAre

\* The empty function.
LEMMA NothingMapped == ASSUME NEW D, NEW S PROVE <<>> \in Maps(D, S) /\ DOMAIN <<>> = {}
<1>1. <<>> \in [{} -> S]
  BY SMT
<1>2. DOMAIN <<>> = {}
  BY SMT
<1>. QED  BY <1>1, <1>2, MapsAre

\* A room is unoccupied when nobody's seat has a connection.
LEMMA UnoccupiedIs ==
    ASSUME NEW r \in Rooms
    PROVE  Unoccupied(r) <=> \A x \in Gamers : SocketOf(r, x) = NoSocket
<1>1. DOMAIN r.players \subseteq Gamers
  BY MapsAre DEF Rooms
<1>. QED  BY <1>1 DEF Unoccupied, Seated, SocketOf

-----------------------------------------------------------------------------
(* What the operators on a room return *)

\* A removed room and a new one have nobody in them.
LEMMA EmptiedRoom ==
    ASSUME NEW n \in Nat
    PROVE  /\ NoRoom(n) \in Rooms /\ NoRoom(n).number = n /\ NoRoom(n).host = Nobody
           /\ \A x \in Gamers : SocketOf(NoRoom(n), x) = NoSocket
           /\ \A h \in Host :
                 LET q == NewRoom(n, h)
                 IN  /\ q \in Rooms /\ q.number = n /\ q.owner = h /\ q.host = Nobody
                     /\ q.pending /\ q.unclaimed /\ q.timer = "none"
                     /\ q.status = "waiting" /\ \A x \in Gamers : SocketOf(q, x) = NoSocket
<1>. DEFINE yes == TRUE
            no == FALSE
            none == <<>>
            zero == 0
            r == [number |-> n, owner |-> Nobody, status |-> "waiting", players |-> none,
                  host |-> Nobody, hostSocket |-> NoSocket, question |-> zero, timer |-> "none",
                  unclaimed |-> no, pending |-> no, votes |-> {}, submissions |-> none,
                  words |-> zero]
<1>1. NoRoom(n) = r
  BY DEF NoRoom
<1>2. yes \in BOOLEAN /\ yes /\ no \in BOOLEAN /\ zero \in Nat
  OBVIOUS
<1>3. none \in Maps(Gamers, Seats) /\ none \in Maps(Gamers, Nat) /\ DOMAIN none = {}
  BY NothingMapped
<1>. HIDE DEF yes, no, none, zero
<1>4. r \in Rooms /\ \A x \in Gamers : SocketOf(r, x) = NoSocket
  BY <1>2, <1>3 DEF Rooms, SocketOf
<1>5. ASSUME NEW h \in Host
      PROVE  LET q == NewRoom(n, h)
             IN  /\ q \in Rooms /\ q.number = n /\ q.owner = h /\ q.host = Nobody
                 /\ q.pending /\ q.unclaimed /\ q.timer = "none"
                 /\ q.status = "waiting" /\ \A x \in Gamers : SocketOf(q, x) = NoSocket
  <2>1. NewRoom(n, h) = [r EXCEPT !.owner = h, !.pending = yes, !.unclaimed = yes]
    BY <1>1 DEF NewRoom, yes
  <2>. QED  BY <2>1, <1>2, <1>3 DEF Rooms, SocketOf
<1>6. /\ NoRoom(n) \in Rooms /\ NoRoom(n).number = n /\ NoRoom(n).host = Nobody
      /\ \A x \in Gamers : SocketOf(NoRoom(n), x) = NoSocket
  BY <1>1, <1>4
<1>. QED  BY <1>5, <1>6

\* Scheduling the clean-up changes at most the timer.
LEMMA EmptyCleanupIs ==
    ASSUME NEW r \in Rooms
    PROVE  LET q == EmptyCleanup(r)
           IN  /\ q \in Rooms /\ SameSeats(q, r) /\ SameClaim(q, r)
               /\ q.status = r.status /\ q.unclaimed = r.unclaimed
               /\ q.timer = IF r.status = "finished" \/ ~Unoccupied(r) THEN r.timer ELSE "empty"
BY DEF EmptyCleanup, Rooms, SameSeats, SameClaim, SocketOf

\* The connection s has taken the seat of its person, and a host the room.
TakesSeat(q, r, s) ==
    /\ q \in Rooms /\ q.number = r.number /\ q.owner = r.owner /\ q.status = r.status
    /\ \A x \in Gamers : SocketOf(q, x) = IF x = s[1] THEN s ELSE SocketOf(r, x)
    /\ q.timer = IF r.timer = "empty" THEN "none" ELSE r.timer
    /\ s[1] \notin Host =>
          q.unclaimed = r.unclaimed /\ q.pending = r.pending /\ q.host = r.host
    /\ s[1] \in Host => q.host = s[1]

\* Whoever joins takes a seat.
LEMMA TakenIs ==
    ASSUME NEW r \in Rooms, NEW s \in Socket, s[1] \in Gamers, NEW n \in Nat
    PROVE  TakesSeat(Taken(r, s[1], s, n), r, s)
<1>. DEFINE p == s[1]
            no == FALSE
            old == IF p \in DOMAIN r.players THEN r.players[p] ELSE NewSeat
            seat == [old EXCEPT !.socket = s, !.session = n]
            ps == With(r.players, p, seat)
            t == IF r.timer = "empty" THEN "none" ELSE r.timer
            q0 == [r EXCEPT !.timer = t, !.players = ps]
            q1 == [q0 EXCEPT !.unclaimed = no, !.pending = no, !.host = p, !.hostSocket = s]
<1>1. old \in Seats
  <2>. DEFINE zero == 0
              one == 1
              nil == {}
  <2>1. NewSeat = [socket |-> NoSocket, session |-> one, score |-> zero, answered |-> nil]
    BY DEF NewSeat
  <2>2. zero \in Nat /\ one \in Nat /\ nil \in SUBSET Nat
    OBVIOUS
  <2>. HIDE DEF zero, one, nil
  <2>3. NewSeat \in Seats
    BY <2>1, <2>2 DEF Seats
  <2>4. r.players \in Maps(Gamers, Seats)
    BY DEF Rooms
  <2>5. p \in DOMAIN r.players => r.players[p] \in Seats
    BY <2>4, MapsAre
  <2>. QED  BY <2>3, <2>5
<1>2. seat \in Seats /\ seat.socket = s
  BY <1>1 DEF Seats
<1>3. Taken(r, p, s, n) = IF p \notin Host THEN q0 ELSE q1
  BY DEF Taken
<1>4. r.players \in Maps(Gamers, Seats)
  BY DEF Rooms
<1>. HIDE DEF seat, old
<1>5. /\ ps \in Maps(Gamers, Seats) /\ DOMAIN ps = DOMAIN r.players \cup {p}
      /\ ps[p] = seat /\ \A z \in DOMAIN r.players \ {p} : ps[z] = r.players[z]
  <2>1. p \in Gamers
    OBVIOUS
  <2>2. seat \in Seats
    BY <1>2
  <2>. HIDE DEF p
  <2>3. With(r.players, p, seat) \in Maps(Gamers, Seats)
    BY <1>4, <2>1, <2>2, WithIs
  <2>4. /\ DOMAIN With(r.players, p, seat) = DOMAIN r.players \cup {p}
        /\ With(r.players, p, seat)[p] = seat
        /\ \A z \in DOMAIN r.players \ {p} : With(r.players, p, seat)[z] = r.players[z]
    BY DEF With
  <2>. QED  BY <2>3, <2>4
<1>6. t \in {"none", "empty", "finished"} /\ no \in BOOLEAN
  BY DEF Rooms
<1>. HIDE DEF no, ps, t
<1>7. q0 \in Rooms /\ \A x \in Gamers : SocketOf(q0, x) = IF x = p THEN s ELSE SocketOf(r, x)
  BY <1>2, <1>5, <1>6 DEF Rooms, SocketOf
<1>8. p \in Host => q1 \in Rooms
  BY <1>6, <1>7 DEF Rooms
<1>9. p \in Host => \A x \in Gamers : SocketOf(q1, x) = SocketOf(q0, x)
  BY <1>7 DEF Rooms, SocketOf
<1>10. TakesSeat(q0, r, s) \/ p \in Host
  BY <1>7 DEF Rooms, t, TakesSeat
<1>11. p \in Host => TakesSeat(q1, r, s)
  BY <1>7, <1>8, <1>9 DEF Rooms, t, TakesSeat
<1>. QED  BY <1>3, <1>10, <1>11

\* A disconnect frees the seat of its own connection only.
LEMMA FreedIs ==
    ASSUME NEW r \in Rooms, NEW s \in Socket
    PROVE  LET q == Freed(r, s)
           IN  /\ q \in Rooms /\ SameClaim(q, r) /\ SameTimers(q, r)
               /\ \A x \in Gamers : SocketOf(q, x) =
                     IF x = s[1] /\ SocketOf(r, x) = s THEN NoSocket ELSE SocketOf(r, x)
<1>. DEFINE p == s[1]
            ps == [r.players EXCEPT ![p].socket = NoSocket]
            hs == IF r.hostSocket = s THEN NoSocket ELSE r.hostSocket
            q0 == [r EXCEPT !.players = ps, !.hostSocket = hs]
<1>1. CASE p \notin DOMAIN r.players \/ r.players[p].socket # s
  BY <1>1, GameConstants DEF Freed, SameClaim, SameTimers, SocketOf
<1>2. CASE p \in DOMAIN r.players /\ r.players[p].socket = s
  <2>1. Freed(r, s) = q0
    BY <1>2 DEF Freed, Rooms
  <2>2. r.players \in Maps(Gamers, Seats) /\ hs \in Socket \cup {NoSocket}
    BY DEF Rooms
  <2>3. \A z \in DOMAIN r.players : r.players[z] \in Seats
    BY <2>2, MapsAre
  <2>4. [r.players[p] EXCEPT !.socket = NoSocket] \in Seats
    BY <1>2, <2>3 DEF Seats
  <2>5. ps \in [DOMAIN r.players -> Seats]
    BY <2>2, <2>3, <2>4, MapsAre
  <2>6. ps \in Maps(Gamers, Seats) /\ DOMAIN ps = DOMAIN r.players
    BY <2>2, <2>5, MapsAre
  <2>7. \A z \in DOMAIN r.players :
           ps[z].socket = IF z = p THEN NoSocket ELSE r.players[z].socket
    BY <2>3 DEF Seats
  <2>. HIDE DEF ps, hs
  <2>8. q0 \in Rooms /\ SameClaim(q0, r) /\ SameTimers(q0, r)
    BY <2>2, <2>6 DEF Rooms, SameClaim, SameTimers
  <2>9. \A x \in Gamers : SocketOf(q0, x) =
           IF x = p /\ SocketOf(r, x) = s THEN NoSocket ELSE SocketOf(r, x)
    BY <1>2, <2>6, <2>7 DEF Rooms, SocketOf
  <2>. QED  BY <2>1, <2>8, <2>9
<1>. QED  BY <1>1, <1>2

\* Leaving takes the seat away, and the host role with it.
LEMMA VacatedIs ==
    ASSUME NEW r \in Rooms, NEW s \in Socket
    PROVE  LET q == Vacated(r, s)
           IN  /\ q \in Rooms /\ SameTimers(q, r)
               /\ q.number = r.number /\ q.owner = r.owner /\ q.pending = r.pending
               /\ q.host \in {r.host, Nobody}
               /\ \A x \in Gamers :
                     SocketOf(q, x) = IF x = s[1] THEN NoSocket ELSE SocketOf(r, x)
<1>. DEFINE ps == [p \in DOMAIN r.players \ {s[1]} |-> r.players[p]]
            h == IF r.host = s[1] /\ r.hostSocket = s THEN Nobody ELSE r.host
            hs == Vacated(r, s).hostSocket
            vs == r.votes \ {s[1]}
<1>1. /\ Vacated(r, s).players = ps /\ Vacated(r, s).host = h /\ Vacated(r, s).votes = vs
      /\ hs \in Socket \cup {NoSocket}
  BY DEF Vacated, Rooms
<1>2. ps \in Maps(Gamers, Seats) /\ DOMAIN ps = DOMAIN r.players \ {s[1]}
  <2>1. r.players \in Maps(Gamers, Seats)
    BY DEF Rooms
  <2>2. DOMAIN r.players \subseteq Gamers /\ \A x \in DOMAIN r.players : r.players[x] \in Seats
    BY <2>1, MapsAre
  <2>3. ps \in [DOMAIN r.players \ {s[1]} -> Seats]
    BY <2>2
  <2>. QED  BY <2>2, <2>3, MapsAre
<1>3. h \in Host \cup {Nobody} /\ h \in {r.host, Nobody} /\ vs \in SUBSET Gamers
  BY DEF Rooms
<1>4. Vacated(r, s) = [r EXCEPT !.players = ps, !.host = h, !.hostSocket = hs, !.votes = vs]
  BY <1>1 DEF Vacated, Rooms
<1>5. \A x \in DOMAIN ps : ps[x] = r.players[x]
  OBVIOUS
<1>. HIDE DEF ps, h, hs, vs
<1>6. Vacated(r, s) \in Rooms
  BY <1>1, <1>2, <1>3, <1>4 DEF Rooms
<1>7. SameTimers(Vacated(r, s), r) /\ Vacated(r, s).number = r.number
      /\ Vacated(r, s).owner = r.owner /\ Vacated(r, s).pending = r.pending
  BY <1>4 DEF Rooms, SameTimers
<1>8. \A x \in Gamers : SocketOf(Vacated(r, s), x) = IF x = s[1] THEN NoSocket ELSE SocketOf(r, x)
  BY <1>1, <1>2, <1>5 DEF SocketOf
<1>. QED  BY <1>1, <1>3, <1>6, <1>7, <1>8

-----------------------------------------------------------------------------
(* Steps that play the game *)

\* What a move of the game may do to the room: who sits there and who owns it stay,
\* and a timer is only taken away from a room that is occupied.
Timed(q, r) ==
    \/ SameTimers(q, r)
    \/ q.timer = "finished"
    \/ q.status # "finished" /\ q.timer \in {"none", r.timer} /\ ~Unoccupied(r)

Moved(q, r) == q \in Rooms /\ SameSeats(q, r) /\ SameClaim(q, r) /\ Timed(q, r)

\* Who holds a seat keeps the room occupied.
LEMMA HolderIsSeated ==
    ASSUME GameType, NEW s \in Socket, Holds(s)
    PROVE  s[1] \in Gamers /\ SocketOf(room, s[1]) = s /\ ~Unoccupied(room)
<1>1. room.players \in Maps(Gamers, Seats)
  BY DEF GameType, Rooms
<1>2. DOMAIN room.players \subseteq Gamers
  BY <1>1, MapsAre
<1>3. s[1] \in Gamers /\ SocketOf(room, s[1]) = s
  BY <1>2 DEF Holds, SocketOf
<1>. QED  BY <1>3, GameConstants, UnoccupiedIs DEF GameType

\* The end of a game sets its timer.
LEMMA EndedMoves == ASSUME room \in Rooms PROVE Moved(Ended(room), room)
<1>. DEFINE no == FALSE
<1>1. no \in BOOLEAN
  OBVIOUS
<1>2. Ended(room) = [room EXCEPT !.status = "finished", !.unclaimed = no, !.timer = "finished"]
  BY DEF Ended
<1>. HIDE DEF no
<1>. QED  BY <1>1, <1>2 DEF Moved, Rooms, SameSeats, SameClaim, Timed, SocketOf

\* An answer changes the score of a seat and not its connection.
LEMMA AnswerMoves ==
    ASSUME GameType, NEW s \in Socket, Holds(s), NEW points \in 0 .. 1,
           room' = [room EXCEPT !.players[s[1]] = Scored(@, room.question, points)]
    PROVE  Moved(room', room)
<1>. DEFINE p == s[1]
            ps == room.players
            score == ps[p].score + points
            answered == ps[p].answered \cup {room.question}
            seat == Scored(ps[p], room.question, points)
            new == [ps EXCEPT ![p] = seat]
<1>1. room \in Rooms /\ ps \in Maps(Gamers, Seats) /\ p \in DOMAIN ps /\ room.question \in Nat
  BY DEF GameType, Rooms, Holds
<1>2. DOMAIN ps \subseteq Gamers /\ ps[p] \in Seats /\ ps = [x \in DOMAIN ps |-> ps[x]]
      /\ \A x \in DOMAIN ps : ps[x] \in Seats
  BY <1>1, MapsAre
<1>3. score \in Nat /\ answered \in SUBSET Nat
  BY <1>1, <1>2 DEF Seats
<1>4. room' = [room EXCEPT !.players = new]
  OBVIOUS
<1>. HIDE DEF score, answered
<1>5. seat \in Seats /\ seat.socket = ps[p].socket
  <2>1. seat = [ps[p] EXCEPT !.score = score, !.answered = answered]
    BY DEF Scored, score, answered
  <2>. QED  BY <1>2, <1>3, <2>1 DEF Seats
<1>. HIDE DEF seat
<1>6. new \in [DOMAIN ps -> Seats] /\ DOMAIN new = DOMAIN ps
      /\ \A x \in DOMAIN ps : new[x].socket = ps[x].socket
  BY <1>1, <1>2, <1>5
<1>7. new \in Maps(Gamers, Seats)
  BY <1>2, <1>6, MapsAre
<1>. HIDE DEF new
<1>8. room' \in Rooms
  BY <1>1, <1>4, <1>7 DEF Rooms
<1>9. SameSeats(room', room) /\ SameClaim(room', room) /\ SameTimers(room', room)
  BY <1>1, <1>4, <1>6 DEF Rooms, SameSeats, SameClaim, SameTimers, SocketOf
<1>. QED  BY <1>8, <1>9 DEF Moved, Timed

\* A word is counted for its player and in the cloud.
LEMMA WordMoves ==
    ASSUME GameType, NEW s \in Socket, Holds(s),
           room' = [room EXCEPT !.submissions = With(@, s[1], Submitted(room, s[1]) + 1),
                                !.words = @ + 1]
    PROVE  Moved(room', room)
<1>. DEFINE m == With(room.submissions, s[1], Submitted(room, s[1]) + 1)
            n == room.words + 1
<1>1. room \in Rooms /\ room.submissions \in Maps(Gamers, Nat) /\ s[1] \in Gamers
  BY HolderIsSeated DEF GameType, Rooms
<1>2. \A x \in DOMAIN room.submissions : room.submissions[x] \in Nat
  BY <1>1, MapsAre
<1>3. Submitted(room, s[1]) + 1 \in Nat
  BY <1>2 DEF Submitted
<1>4. m \in Maps(Gamers, Nat) /\ n \in Nat
  <2>1. m \in Maps(Gamers, Nat)
    BY <1>1, <1>3, WithIs
  <2>2. n \in Nat
    BY <1>1 DEF Rooms
  <2>. QED  BY <2>1, <2>2
<1>5. room' = [room EXCEPT !.submissions = m, !.words = n]
  OBVIOUS
<1>. HIDE DEF m, n
<1>. QED  BY <1>1, <1>4, <1>5 DEF Moved, Rooms, SameSeats, SameClaim, Timed, SameTimers, SocketOf

\* Every move of the game, by a player or by the host.
LEMMA PlayMoves ==
    ASSUME GameType, NEW s \in Socket,
           Start(s) \/ End(s) \/ NextQuestion(s) \/ Answer(s) \/ Vote(s) \/ SubmitWord(s)
             \/ ClearWords(s)
    PROVE  Moved(room', room) /\ UNCHANGED <<cast, up, conn, pages, issued, latest>>
<1>. DEFINE Others == UNCHANGED <<cast, up, conn, pages, issued, latest>>
<1>1. Others /\ Holds(s)
  BY DEF Start, End, NextQuestion, Answer, Vote, SubmitWord, ClearWords, Play, IsHost
<1>2. room \in Rooms /\ s[1] \in Gamers /\ ~Unoccupied(room)
  BY <1>1, HolderIsSeated DEF GameType
<1>. USE DEF Moved, Rooms, SameSeats, SameClaim, Timed, SameTimers, SocketOf
<1>3. CASE Start(s)
  <2>1. \E v \in SUBSET Gamers :
           room' = [room EXCEPT !.status = "active", !.timer = "none", !.votes = v]
    BY <1>2, <1>3 DEF Start, Play
  <2>. QED  BY <1>1, <1>2, <2>1
<1>4. CASE End(s)
  <2>1. room' = Ended(room)
    BY <1>4 DEF End, Play
  <2>. QED  BY <1>1, <1>2, <2>1, EndedMoves
<1>5. CASE NextQuestion(s)
  <2>1. CASE room' = Ended(room)
    BY <1>1, <1>2, <2>1, EndedMoves
  <2>2. CASE room' = [room EXCEPT !.question = @ + 1, !.status = "active"]
    <3>. DEFINE n == room.question + 1
    <3>1. n \in Nat /\ room' = [room EXCEPT !.question = n, !.status = "active"]
      BY <1>2, <2>2
    <3>. HIDE DEF n
    <3>. QED  BY <1>1, <1>2, <3>1
  <2>. QED  BY <1>5, <2>1, <2>2 DEF NextQuestion, Play
<1>6. CASE Answer(s)
  <2>1. PICK points \in 0 .. 1 :
           room' = [room EXCEPT !.players[s[1]] = Scored(@, room.question, points)]
    BY <1>6 DEF Answer, Play
  <2>. QED  BY <1>1, <2>1, AnswerMoves
<1>7. CASE Vote(s)
  <2>1. room' = [room EXCEPT !.votes = @ \cup {s[1]}]
    BY <1>7 DEF Vote, Play
  <2>. QED  BY <1>1, <1>2, <2>1
<1>8. CASE SubmitWord(s)
  BY <1>1, <1>8, WordMoves DEF SubmitWord, Play
<1>9. CASE ClearWords(s)
  <2>. DEFINE none == <<>>
              zero == 0
  <2>1. room' = [room EXCEPT !.submissions = none, !.words = zero]
    BY <1>9 DEF ClearWords, Play
  <2>2. none \in Maps(Gamers, Nat) /\ zero \in Nat
    BY NothingMapped
  <2>. HIDE DEF none, zero
  <2>. QED  BY <1>1, <1>2, <2>1, <2>2
<1>. QED  BY <1>3, <1>4, <1>5, <1>6, <1>7, <1>8, <1>9

-----------------------------------------------------------------------------
(* The steps of the system *)

\* A room that lasts stays with the page that owns it.
SameOwner == up /\ up' /\ room'.number = room.number => room'.owner = room.owner
Kept == IInv' /\ SameOwner

\* A connection without a room knows no capability.
LEMMA GoneIs ==
    /\ Gone \in Conns /\ ~Gone.joined /\ Gone.capability = 0
    /\ \A at \in {"new", "on"} :
          LET c == [Gone EXCEPT !.at = at]
          IN  c \in Conns /\ ~c.joined /\ c.capability = 0
<1>. DEFINE no == FALSE
            zero == 0
<1>1. Gone = [at |-> "off", joined |-> no, channel |-> zero, token |-> zero,
              capability |-> zero, reply |-> zero]
  BY DEF Gone
<1>2. no \in BOOLEAN /\ ~no /\ zero \in Nat
  OBVIOUS
<1>3. zero = 0
  OBVIOUS
<1>. HIDE DEF no, zero
<1>. QED  BY <1>1, <1>2, <1>3 DEF Conns

\* A move of the game.
LEMMA PlayKeeps ==
    ASSUME IInv, Moved(room', room), UNCHANGED <<cast, up, conn, pages, issued, latest>>
    PROVE  Kept
<1>1. GameType'
  BY DEF IInv, GameType, Moved, pages
<1>2. SeatInv' /\ HostInv' /\ SameOwner
  BY DEF IInv, SeatInv, HostInv, Moved, SameSeats, SameClaim, SameOwner, pages
<1>3. Unoccupied(room') <=> Unoccupied(room)
  BY UnoccupiedIs DEF IInv, GameType, Moved, SameSeats
<1>4. ReaperFollowsOccupancy'
  BY <1>3 DEF IInv, ReaperFollowsOccupancy, Moved, Timed, SameTimers
<1>. QED  BY <1>1, <1>2, <1>4 DEF IInv, Kept

\* A connection changes what it carries, and only an observer joins.
LEMMA ConnKeeps ==
    ASSUME IInv, NEW s \in Socket, NEW c \in Conns, conn' = [conn EXCEPT ![s] = c],
           UNCHANGED <<cast, up, room, capability, boot, issued, latest>>,
           stored' \in [Person -> Nat],
           c.joined => up /\ c.channel = room.number /\ c.at = "on",
           (c.joined <=> conn[s].joined) \/ (s[1] \in Observer /\ c.joined),
           \/ c.capability \in {0, conn[s].capability}
           \/ s[1] \in Host /\ c.capability = capability[s[1]]
    PROVE  Kept
<1>1. GameType'
  BY DEF IInv, GameType
<1>2. conn'[s] = c /\ \A t \in Socket \ {s} : conn'[t] = conn[t]
  BY DEF IInv, GameType
<1>3. \A p \in Gamers : SocketOf(room, p) \in Socket \cup {NoSocket}
  <2>1. room.players \in Maps(Gamers, Seats)
    BY DEF IInv, GameType, Rooms
  <2>2. \A p \in DOMAIN room.players : room.players[p] \in Seats
    BY <2>1, MapsAre
  <2>. QED  BY <2>2 DEF SocketOf, Seats
<1>4. SeatInv'
  <2>1. \A t \in Socket : conn'[t].joined =>
           up /\ conn'[t].channel = room.number /\ conn'[t].at = "on"
    BY <1>2 DEF IInv, SeatInv
  <2>2. \A t \in Socket : conn[t].joined => conn'[t].joined
    BY <1>2
  <2>3. ASSUME NEW p \in Gamers, SocketOf(room, p) # NoSocket
        PROVE  SocketOf(room, p)[1] = p /\ conn'[SocketOf(room, p)].joined
    BY <1>3, <2>2, <2>3 DEF IInv, SeatInv
  <2>4. ASSUME NEW p \in Gamers, latest[p] # NoSocket
        PROVE  latest[p][1] = p /\ (conn'[latest[p]].joined => SocketOf(room, p) = latest[p])
    <3>1. latest[p] \in Socket /\ latest[p][1] = p
      BY <2>4 DEF IInv, GameType, SeatInv, Gamers, Person
    <3>2. conn'[latest[p]].joined => conn[latest[p]].joined
      BY <1>2, <3>1, GameConstants DEF Gamers
    <3>. QED  BY <2>4, <3>1, <3>2 DEF IInv, SeatInv
  <2>5. room' = room /\ up' = up /\ latest' = latest
    OBVIOUS
  <2>. QED  BY <2>1, <2>3, <2>4, <2>5 DEF SeatInv, SocketOf
<1>5. HostInv'
  <2>1. room.number \in Nat /\ room.number > 0
    BY DEF IInv, GameType, Rooms, HostInv
  <2>2. c.capability <= room.number
    BY <2>1 DEF IInv, HostInv
  <2>3. up /\ c.capability = room.number
        => s[1] = room.owner /\ capability[room.owner] = room.number
    BY <2>1 DEF IInv, HostInv
  <2>. QED  BY <1>2, <2>2, <2>3 DEF IInv, HostInv
<1>6. ReaperFollowsOccupancy' /\ SameOwner
  BY DEF IInv, ReaperFollowsOccupancy, Unoccupied, Seated, SameOwner
<1>. QED  BY <1>1, <1>4, <1>5, <1>6 DEF IInv, Kept

\* The room and its connections stay, and a page is told what it may know.
LEMMA PagesKeep ==
    ASSUME IInv, NEW h \in Host,
           (Bootstrap(h) /\ UNCHANGED room) \/ BootAnswered(h) \/ BootLost(h)
    PROVE  Kept
<1>1. CASE Bootstrap(h) /\ UNCHANGED room
  <2>1. room.number \in Nat /\ room'.number = room.number
    BY <1>1 DEF IInv, GameType, Rooms
  <2>2. /\ CapabilityFor(h) /\ boot' = [boot EXCEPT ![h] = room.number]
        /\ UNCHANGED <<up, room, conn, cast, stored, capability, issued, latest>>
    <3>1. ~(room' = NewRoom(room.number + 1, h))
      <4>. DEFINE n == room.number + 1
      <4>1. n \in Nat /\ n # room.number
        BY <2>1
      <4>. HIDE DEF n
      <4>2. NewRoom(n, h).number = n
        BY <4>1, EmptiedRoom
      <4>. QED  BY <2>1, <4>1, <4>2 DEF n
    <3>. QED  BY <1>1, <3>1 DEF Bootstrap
  <2>3. GameType'
    BY <2>1, <2>2 DEF IInv, GameType
  <2>4. SeatInv' /\ ReaperFollowsOccupancy' /\ SameOwner
    BY <2>2 DEF IInv, SeatInv, SocketOf, ReaperFollowsOccupancy, Unoccupied, Seated, SameOwner
  <2>5. boot'[h] = room.number /\ \A g \in Host \ {h} : boot'[g] = boot[g]
    BY <2>2 DEF IInv, GameType
  <2>6. HostInv'
    BY <2>1, <2>2, <2>5 DEF IInv, HostInv, CapabilityFor
  <2>. QED  BY <2>3, <2>4, <2>6 DEF IInv, Kept
<1>2. CASE BootAnswered(h) \/ BootLost(h)
  <2>1. /\ boot' = [boot EXCEPT ![h] = 0]
        /\ \/ capability' = [capability EXCEPT ![h] = boot[h]] /\ boot[h] # 0
           \/ capability' = capability
        /\ UNCHANGED <<up, room, conn, cast, stored, issued, latest>>
    BY <1>2 DEF BootAnswered, BootLost
  <2>2. boot[h] \in Nat /\ GameType'
    BY <2>1 DEF IInv, GameType
  <2>3. SeatInv' /\ ReaperFollowsOccupancy' /\ SameOwner
    BY <2>1 DEF IInv, SeatInv, SocketOf, ReaperFollowsOccupancy, Unoccupied, Seated, SameOwner
  <2>4. /\ boot'[h] = 0 /\ \A g \in Host \ {h} : boot'[g] = boot[g]
        /\ capability'[h] \in {capability[h], boot[h]}
        /\ capability'[h] # capability[h] => boot[h] # 0 /\ capability'[h] = boot[h]
        /\ \A g \in Host \ {h} : capability'[g] = capability[g]
    BY <2>1 DEF IInv, GameType
  <2>5. room.number \in Nat /\ room.number > 0 /\ room' = room /\ up' = up /\ conn' = conn
    BY <2>1 DEF IInv, GameType, Rooms, HostInv
  <2>6. HostInv'
    <3>1. \A g \in Host : capability'[g] <= room.number /\ boot'[g] <= room.number
      BY <2>4, <2>5 DEF IInv, HostInv
    <3>2. up => (capability[room.owner] = room.number => capability'[room.owner] = room.number)
      BY <2>4 DEF IInv, HostInv
    <3>3. up => \A g \in Host : room.number \in {capability'[g], boot'[g]} => g = room.owner
      BY <2>4, <2>5 DEF IInv, HostInv
    <3>4. up => boot'[room.owner] \in {0, room.number}
      BY <2>4 DEF IInv, HostInv
    <3>. QED  BY <2>5, <3>1, <3>2, <3>3, <3>4 DEF IInv, HostInv
  <2>. QED  BY <2>2, <2>3, <2>6 DEF IInv, Kept
<1>. QED  BY <1>1, <1>2

\* A room begins or ends: nobody is in it.
LEMMA RoomTurns ==
    ASSUME IInv, NEW n \in Nat, n >= room.number, room'.number = n,
           room' \in Rooms, \A x \in Gamers : SocketOf(room', x) = NoSocket,
           conn' \in [Socket -> Conns],
           \A s \in Socket : ~conn'[s].joined /\ conn'[s].capability \in {0, conn[s].capability},
           UNCHANGED <<cast, stored, capability, issued, latest>>
    PROVE  /\ boot' \in [Host -> Nat] => GameType'
           /\ SeatInv'
<1>1. boot' \in [Host -> Nat] => GameType'
  BY DEF IInv, GameType
<1>2. \A p \in Gamers : latest[p] # NoSocket => latest[p] \in Socket /\ latest[p][1] = p
  BY DEF IInv, GameType, SeatInv, Gamers, Person
<1>3. SeatInv'
  BY <1>2 DEF SeatInv
<1>. QED  BY <1>1, <1>3

\* The clean-up listener takes everybody out of the room that is removed.
LEMMA CutOffIs ==
    ASSUME IInv, up
    PROVE  /\ CutOff(room.number) \in [Socket -> Conns]
           /\ \A s \in Socket : /\ ~CutOff(room.number)[s].joined
                                /\ CutOff(room.number)[s].capability \in {0, conn[s].capability}
<1>. DEFINE on == [Gone EXCEPT !.at = "on"]
<1>1. on \in Conns /\ ~on.joined /\ on.capability = 0
  BY GoneIs
<1>. HIDE DEF on
<1>2. CutOff(room.number) = [s \in Socket |-> IF conn[s].channel = room.number /\ conn[s].at = "on"
                                             THEN on ELSE conn[s]]
  BY DEF CutOff, on
<1>. QED  BY <1>1, <1>2 DEF IInv, GameType, SeatInv

\* A room is removed.
LEMMA CleanupKeeps == ASSUME IInv, Cleanup PROVE Kept
<1>. DEFINE n == room.number
<1>1. n \in Nat /\ n > 0
  BY DEF IInv, GameType, Rooms, HostInv
<1>2. /\ room' \in Rooms /\ room'.number = n /\ room'.host = Nobody
      /\ \A x \in Gamers : SocketOf(room', x) = NoSocket
  BY <1>1, EmptiedRoom DEF Cleanup
<1>3. /\ conn' \in [Socket -> Conns]
      /\ \A s \in Socket : ~conn'[s].joined /\ conn'[s].capability \in {0, conn[s].capability}
  BY CutOffIs DEF Cleanup
<1>4. ~up' /\ UNCHANGED <<cast, stored, capability, boot, issued, latest>>
  BY DEF Cleanup, pages
<1>5. boot' \in [Host -> Nat]
  BY <1>4 DEF IInv, GameType
<1>6. GameType' /\ SeatInv'
  BY <1>1, <1>2, <1>3, <1>4, <1>5, RoomTurns
<1>7. HostInv'
  BY <1>1, <1>2, <1>3, <1>4 DEF IInv, HostInv
<1>. QED  BY <1>4, <1>6, <1>7 DEF IInv, Kept, ReaperFollowsOccupancy, SameOwner

\* A new room has a number of its own, which only the answer to its page carries.
LEMMA NewRoomKeeps ==
    ASSUME IInv, NEW h \in Host, Bootstrap(h), room' = NewRoom(room.number + 1, h),
           up' = TRUE, boot' = [boot EXCEPT ![h] = room.number + 1],
           conn' = IF up THEN CutOff(room.number) ELSE conn
    PROVE  Kept
<1>. DEFINE n == room.number + 1
<1>1. n \in Nat /\ n > room.number /\ n > 0 /\ room.number \in Nat
  BY DEF IInv, GameType, Rooms, HostInv
<1>2. UNCHANGED <<cast, stored, capability, issued, latest>>
  BY DEF Bootstrap
<1>3. /\ conn' \in [Socket -> Conns]
      /\ \A s \in Socket : ~conn'[s].joined /\ conn'[s].capability \in {0, conn[s].capability}
  <2>1. CASE up
    BY <2>1, CutOffIs
  <2>2. CASE ~up
    BY <2>2 DEF IInv, GameType, SeatInv
  <2>. QED  BY <2>1, <2>2
<1>4. room' = NewRoom(n, h) /\ boot' = [boot EXCEPT ![h] = n]
  OBVIOUS
<1>. HIDE DEF n
<1>5. /\ room' \in Rooms /\ room'.number = n /\ room'.owner = h /\ room'.host = Nobody
      /\ room'.pending /\ room'.unclaimed /\ room'.timer = "none"
      /\ room'.status = "waiting" /\ \A x \in Gamers : SocketOf(room', x) = NoSocket
  BY <1>1, <1>4, EmptiedRoom
<1>6. boot' \in [Host -> Nat] /\ boot'[h] = n /\ \A g \in Host \ {h} : boot'[g] = boot[g]
  BY <1>1, <1>4 DEF IInv, GameType
<1>7. GameType' /\ SeatInv'
  BY <1>1, <1>2, <1>3, <1>5, <1>6, RoomTurns
<1>8. HostInv'
  <2>1. \A g \in Host : capability[g] \in Nat /\ boot[g] \in Nat
    BY DEF IInv, GameType
  <2>2. \A g \in Host : capability'[g] < n /\ boot'[g] <= n /\ (boot'[g] = n => g = h)
    BY <1>1, <1>2, <1>6, <2>1 DEF IInv, HostInv
  <2>3. \A s \in Socket : conn[s].capability \in Nat /\ conn[s].capability <= room.number
    BY DEF IInv, GameType, Conns, HostInv
  <2>4. \A s \in Socket : conn'[s].capability < n
    BY <1>1, <1>3, <2>3
  <2>5. \A g \in Host : capability'[g] \in Nat
    BY <1>2, <2>1
  <2>6. \A s \in Socket : conn'[s].capability \in Nat
    BY <1>3, <2>3
  <2>. QED  BY <1>1, <1>5, <1>6, <2>2, <2>4, <2>5, <2>6 DEF HostInv
<1>9. ReaperFollowsOccupancy' /\ SameOwner
  BY <1>1, <1>5 DEF ReaperFollowsOccupancy, SameOwner
<1>. QED  BY <1>7, <1>8, <1>9 DEF IInv, Kept

\* A seat is taken by the connection that joins.
LEMMA JoinKeeps ==
    ASSUME IInv, NEW s \in Socket, s[1] \in Gamers, NEW token \in Nat, NEW c \in Nat,
           c <= room.number,
           up /\ c = room.number => s[1] = room.owner /\ capability[room.owner] = room.number,
           JoinWith(s, token, c)
    PROVE  Kept
<1>. DEFINE p == s[1]
            session == IF p \in DOMAIN room.players /\ ~Recovers(p, c)
                       THEN room.players[p].session ELSE issued[p] + 1
            yes == TRUE
            k == [at |-> "on", joined |-> yes, channel |-> room.number,
                  token |-> session, capability |-> c, reply |-> session]
<1>1. /\ Admitted(p, token, c) /\ room' = Taken(room, p, s, session)
      /\ conn' = [conn EXCEPT ![s] = k]
      /\ issued' = [issued EXCEPT ![p] = IF session > @ THEN session ELSE @]
      /\ latest' = [latest EXCEPT ![p] = s] /\ UNCHANGED <<cast, kind, up, pages>>
  BY DEF JoinWith
<1>2. session \in Nat /\ p \in Person /\ up /\ room \in Rooms /\ room.number \in Nat
  <2>1. room \in Rooms /\ room.players \in Maps(Gamers, Seats) /\ p \in Person
    BY DEF IInv, GameType, Rooms, Gamers, Person
  <2>2. \A x \in DOMAIN room.players : room.players[x].session \in Nat
    <3>1. \A x \in DOMAIN room.players : room.players[x] \in Seats
      BY <2>1, MapsAre
    <3>. QED  BY <3>1 DEF Seats
  <2>3. issued[p] \in Nat
    BY <2>1 DEF IInv, GameType
  <2>4. up /\ room.number \in Nat
    BY <1>1, <2>1 DEF Admitted, Rooms
  <2>. QED  BY <2>1, <2>2, <2>3, <2>4
<1>. HIDE DEF session
<1>3. TakesSeat(room', room, s)
  BY <1>1, <1>2, TakenIs
<1>4. yes \in BOOLEAN /\ yes
  OBVIOUS
<1>. HIDE DEF yes
<1>5. k \in Conns /\ k.joined /\ k.at = "on" /\ k.channel = room.number /\ k.capability = c
  BY <1>2, <1>4 DEF Conns
<1>. HIDE DEF k
<1>6. conn'[s] = k /\ conn' \in [Socket -> Conns] /\ \A t \in Socket \ {s} : conn'[t] = conn[t]
  BY <1>1, <1>5 DEF IInv, GameType
<1>7. GameType'
  <2>1. issued' \in [Person -> Nat]
    BY <1>1, <1>2 DEF IInv, GameType
  <2>2. latest' \in [Person -> Socket \cup {NoSocket}]
    BY <1>1, <1>2 DEF IInv, GameType
  <2>. QED  BY <1>1, <1>3, <1>6, <2>1, <2>2 DEF IInv, GameType, pages, TakesSeat
<1>8. SeatInv'
  <2>1. \A t \in Socket : conn'[t].joined =>
           up' /\ conn'[t].channel = room'.number /\ conn'[t].at = "on"
    BY <1>1, <1>2, <1>3, <1>5, <1>6 DEF IInv, SeatInv, TakesSeat
  <2>2. ASSUME NEW x \in Gamers, SocketOf(room', x) # NoSocket
        PROVE  SocketOf(room', x)[1] = x /\ conn'[SocketOf(room', x)].joined
    <3>1. CASE x = p
      BY <1>3, <1>5, <1>6, <3>1 DEF TakesSeat
    <3>2. CASE x # p
      <4>1. SocketOf(room', x) = SocketOf(room, x)
        BY <1>3, <3>2 DEF TakesSeat
      <4>2. SocketOf(room, x) \in Socket
        <5>1. room.players \in Maps(Gamers, Seats)
          BY <1>2 DEF Rooms
        <5>2. \A y \in DOMAIN room.players : room.players[y] \in Seats
          BY <5>1, MapsAre
        <5>. QED  BY <2>2, <4>1, <5>2 DEF SocketOf, Seats
      <4>. QED  BY <1>6, <2>2, <3>2, <4>1, <4>2 DEF IInv, SeatInv
    <3>. QED  BY <3>1, <3>2
  <2>3. ASSUME NEW x \in Gamers, latest'[x] # NoSocket
        PROVE  latest'[x][1] = x /\ (conn'[latest'[x]].joined => SocketOf(room', x) = latest'[x])
    <3>0. x \in Person
      BY DEF Gamers, Person
    <3>1. CASE x = p
      BY <1>1, <1>2, <1>3, <3>1 DEF IInv, GameType, TakesSeat
    <3>2. CASE x # p
      <4>1. latest'[x] = latest[x] /\ SocketOf(room', x) = SocketOf(room, x)
        BY <1>1, <1>3, <3>2 DEF IInv, GameType, TakesSeat
      <4>2. latest[x] \in Socket /\ latest[x] # s
        BY <2>3, <3>0, <3>2, <4>1 DEF IInv, GameType, SeatInv
      <4>. QED  BY <1>6, <2>3, <4>1, <4>2 DEF IInv, SeatInv
    <3>. QED  BY <3>1, <3>2
  <2>. QED  BY <2>1, <2>2, <2>3 DEF SeatInv
<1>9. HostInv'
  <2>1. \A t \in Socket : conn'[t].capability \in {c, conn[t].capability}
    BY <1>5, <1>6
  <2>2. conn'[s].capability = c
    BY <1>5, <1>6
  <2>3. p \in Host => c = room.number
    BY <1>1 DEF Admitted, Entitled
  <2>4. capability' = capability /\ boot' = boot /\ up' = up
    BY <1>1 DEF pages
  <2>5. room'.host # Nobody => room'.host = room'.owner
    BY <1>2, <1>3, <2>3 DEF IInv, HostInv, TakesSeat
  <2>6. room'.pending \/ capability[room.owner] = room.number
    BY <1>2, <1>3, <2>3 DEF IInv, HostInv, TakesSeat
  <2>7. \A t \in Socket : conn'[t].capability <= room.number
           /\ (conn'[t].capability = room.number =>
                 t[1] = room.owner /\ capability[room.owner] = room.number)
    BY <1>2, <1>6, <2>2 DEF IInv, HostInv
  <2>. QED  BY <1>2, <1>3, <2>4, <2>5, <2>6, <2>7 DEF IInv, HostInv, TakesSeat
<1>10. ReaperFollowsOccupancy'
  <2>1. ~Unoccupied(room')
    BY <1>3, UnoccupiedIs, GameConstants DEF TakesSeat
  <2>2. room'.timer # "empty" /\ (room'.status = "finished" => room'.timer = "finished")
    BY <1>2, <1>3 DEF IInv, ReaperFollowsOccupancy, TakesSeat
  <2>. QED  BY <2>1, <2>2 DEF ReaperFollowsOccupancy
<1>11. SameOwner
  BY <1>3 DEF SameOwner, TakesSeat
<1>. QED  BY <1>7, <1>8, <1>9, <1>10, <1>11 DEF IInv, Kept

\* A seat is free when its connection goes, and not when an older one does.
LEMMA GoneKeeps ==
    ASSUME IInv, up, NEW s \in Socket, NEW c \in Conns, ~c.joined, c.capability = 0,
           NEW q \in Rooms, SameTimers(q, room), q.number = room.number, q.owner = room.owner,
           q.pending = room.pending, q.host \in {room.host, Nobody},
           \A x \in Gamers : \/ SocketOf(q, x) = SocketOf(room, x) /\ SocketOf(q, x) # s
                             \/ SocketOf(q, x) = NoSocket /\ SocketOf(room, x) = s,
           room' = EmptyCleanup(q), conn' = [conn EXCEPT ![s] = c],
           UNCHANGED <<cast, kind, up, pages, issued, latest>>
    PROVE  Kept
<1>1. /\ room' \in Rooms /\ SameSeats(room', q) /\ SameClaim(room', q)
      /\ room'.status = q.status /\ room'.unclaimed = q.unclaimed
      /\ room'.timer = IF q.status = "finished" \/ ~Unoccupied(q) THEN q.timer ELSE "empty"
  BY EmptyCleanupIs
<1>2. conn' \in [Socket -> Conns] /\ conn'[s] = c /\ \A t \in Socket \ {s} : conn'[t] = conn[t]
  BY DEF IInv, GameType
<1>3. GameType'
  BY <1>1, <1>2 DEF IInv, GameType, pages
<1>4. ASSUME NEW x \in Gamers
      PROVE  SocketOf(room', x) = SocketOf(q, x) /\ SocketOf(room, x) \in Socket \cup {NoSocket}
  <2>1. room.players \in Maps(Gamers, Seats)
    BY DEF IInv, GameType, Rooms
  <2>2. \A y \in DOMAIN room.players : room.players[y] \in Seats
    BY <2>1, MapsAre
  <2>. QED  BY <1>1, <2>2 DEF SocketOf, Seats, SameSeats
<1>5. SeatInv'
  <2>1. \A t \in Socket : conn'[t].joined =>
           up' /\ conn'[t].channel = room'.number /\ conn'[t].at = "on"
    BY <1>1, <1>2 DEF IInv, SeatInv, SameClaim
  <2>2. ASSUME NEW x \in Gamers, SocketOf(room', x) # NoSocket
        PROVE  SocketOf(room', x)[1] = x /\ conn'[SocketOf(room', x)].joined
    <3>1. SocketOf(room', x) = SocketOf(room, x) /\ SocketOf(room, x) \in Socket \ {s}
      BY <1>4, <2>2
    <3>. QED  BY <1>2, <2>2, <3>1 DEF IInv, SeatInv
  <2>3. ASSUME NEW x \in Gamers, latest[x] # NoSocket
        PROVE  latest[x][1] = x /\ (conn'[latest[x]].joined => SocketOf(room', x) = latest[x])
    <3>1. latest[x] \in Socket /\ latest[x][1] = x
      BY <2>3 DEF IInv, GameType, SeatInv, Gamers, Person
    <3>2. ASSUME conn'[latest[x]].joined PROVE SocketOf(room', x) = latest[x]
      <4>1. latest[x] # s /\ conn[latest[x]].joined
        BY <1>2, <3>1, <3>2
      <4>2. SocketOf(room, x) = latest[x]
        BY <2>3, <4>1 DEF IInv, SeatInv
      <4>. QED  BY <1>4, <4>1, <4>2
    <3>. QED  BY <3>1, <3>2
  <2>. QED  BY <2>1, <2>2, <2>3 DEF SeatInv
<1>6. HostInv'
  <2>1. room.number \in Nat /\ room.number > 0
    BY DEF IInv, GameType, Rooms, HostInv
  <2>2. /\ room'.number = room.number /\ room'.owner = room.owner
        /\ room'.pending = room.pending /\ room'.host \in {room.host, Nobody}
    BY <1>1 DEF SameClaim
  <2>3. \A t \in Socket : conn'[t].capability \in {0, conn[t].capability}
    BY <1>2
  <2>. QED  BY <2>1, <2>2, <2>3 DEF IInv, HostInv, pages
<1>7. ReaperFollowsOccupancy'
  <2>1. Unoccupied(room') <=> Unoccupied(q)
    BY <1>1, UnoccupiedIs DEF SameSeats
  <2>2. Unoccupied(room) => Unoccupied(q)
    BY UnoccupiedIs, GameConstants DEF IInv, GameType
  <2>. QED  BY <1>1, <2>1, <2>2 DEF IInv, ReaperFollowsOccupancy, SameTimers
<1>8. SameOwner
  BY <1>1 DEF SameOwner, SameClaim
<1>. QED  BY <1>3, <1>5, <1>6, <1>7, <1>8 DEF IInv, Kept

\* Somebody leaves or disconnects, late or not.
LEMMA LeaveKeeps ==
    ASSUME IInv, NEW s \in Socket, Disconnect(s) \/ Leave(s)
    PROVE  Kept
<1>. DEFINE out == [Gone EXCEPT !.at = "on"]
<1>1. room \in Rooms
  BY DEF IInv, GameType
<1>2. ASSUME NEW x \in Gamers, SocketOf(room, x) = s PROVE x = s[1] /\ conn[s].joined
  BY <1>2, GameConstants DEF IInv, SeatInv
<1>3. CASE Disconnect(s) /\ conn[s].joined /\ up
  <2>. DEFINE q == Freed(room, s)
  <2>1. /\ q \in Rooms /\ SameClaim(q, room) /\ SameTimers(q, room)
        /\ \A x \in Gamers : SocketOf(q, x) =
              IF x = s[1] /\ SocketOf(room, x) = s THEN NoSocket ELSE SocketOf(room, x)
    BY <1>1, FreedIs
  <2>2. room' = EmptyCleanup(q) /\ conn' = [conn EXCEPT ![s] = Gone]
        /\ UNCHANGED <<cast, kind, up, pages, issued, latest>>
    BY <1>3 DEF Disconnect
  <2>. HIDE DEF q
  <2>3. \A x \in Gamers : \/ SocketOf(q, x) = SocketOf(room, x) /\ SocketOf(q, x) # s
                          \/ SocketOf(q, x) = NoSocket /\ SocketOf(room, x) = s
    BY <1>2, <2>1
  <2>. QED  BY <1>3, <2>1, <2>2, <2>3, GoneIs, GoneKeeps DEF SameClaim
<1>4. CASE Disconnect(s) /\ ~(conn[s].joined /\ up)
  <2>1. room' = room /\ conn' = [conn EXCEPT ![s] = Gone] /\ ~conn[s].joined
        /\ UNCHANGED <<cast, kind, up, pages, issued, latest>>
    BY <1>4 DEF Disconnect, IInv, SeatInv
  <2>2. stored' \in [Person -> Nat] /\ UNCHANGED <<capability, boot>>
    BY <2>1 DEF IInv, GameType, pages
  <2>. QED  BY <2>1, <2>2, GoneIs, ConnKeeps
<1>5. CASE Leave(s)
  <2>. HIDE DEF out
  <2>1. /\ up /\ conn' = [conn EXCEPT ![s] = out]
        /\ UNCHANGED <<cast, kind, up, pages, issued, latest>>
    BY <1>5 DEF Leave, IInv, SeatInv, out
  <2>2. out \in Conns /\ ~out.joined /\ out.capability = 0
    BY GoneIs DEF out
  <2>3. CASE s[1] \in Observer /\ room' = EmptyCleanup(room)
    <3>1. \A x \in Gamers : SocketOf(room, x) # s
      BY <1>2, <2>3, GameConstants DEF Gamers
    <3>2. SameTimers(room, room)
      BY DEF SameTimers
    <3>. QED  BY <1>1, <2>1, <2>2, <2>3, <3>1, <3>2, GoneKeeps
  <2>4. CASE Holds(s) /\ room' = EmptyCleanup(Vacated(room, s))
    <3>. DEFINE q == Vacated(room, s)
    <3>1. /\ q \in Rooms /\ SameTimers(q, room)
          /\ q.number = room.number /\ q.owner = room.owner /\ q.pending = room.pending
          /\ q.host \in {room.host, Nobody}
          /\ \A x \in Gamers :
                SocketOf(q, x) = IF x = s[1] THEN NoSocket ELSE SocketOf(room, x)
      BY <1>1, VacatedIs
    <3>2. SocketOf(room, s[1]) = s
      BY <2>4, HolderIsSeated DEF IInv
    <3>3. room' = EmptyCleanup(q)
      BY <2>4
    <3>. HIDE DEF q
    <3>4. \A x \in Gamers : \/ SocketOf(q, x) = SocketOf(room, x) /\ SocketOf(q, x) # s
                            \/ SocketOf(q, x) = NoSocket /\ SocketOf(room, x) = s
      BY <1>2, <3>1, <3>2
    <3>. QED  BY <2>1, <2>2, <3>1, <3>3, <3>4, GoneKeeps
  <2>. QED  BY <1>5, <2>1, <2>3, <2>4 DEF Leave
<1>. QED  BY <1>3, <1>4, <1>5

\* A connection that is dialled, told its session, observes or is refused.
LEMMA DialKeeps ==
    ASSUME IInv, NEW s \in Socket,
           Dial(s) \/ Receive(s) \/ Observe(s) \/ Join(s)
    PROVE  Kept \/ (s[1] \in Gamers /\ JoinWith(s, conn[s].token, conn[s].capability))
<1>. DEFINE out == [Gone EXCEPT !.at = "on"]
            yes == TRUE
<1>1. out \in Conns /\ ~out.joined /\ out.capability = 0 /\ out.at = "on"
  BY GoneIs DEF Gone
<1>2. /\ conn[s] \in Conns /\ stored[s[1]] \in Nat /\ room.number \in Nat
      /\ s[1] \in Host => capability[s[1]] \in Nat
  BY DEF IInv, GameType, Rooms, Person, Socket
<1>3. yes \in BOOLEAN /\ yes
  OBVIOUS
<1>. HIDE DEF out, yes
<1>4. CASE Dial(s)
  <2>. DEFINE n == IF s[1] \in Host THEN capability[s[1]] ELSE 0
              c == [conn[s] EXCEPT !.at = "dialled", !.token = stored[s[1]], !.capability = n]
  <2>1. n \in Nat
    BY <1>2
  <2>2. conn' = [conn EXCEPT ![s] = c] /\ conn[s].at = "new"
        /\ UNCHANGED <<cast, kind, up, room, pages, issued, latest>>
    BY <1>4 DEF Dial
  <2>3. ~conn[s].joined
    BY <2>2 DEF IInv, SeatInv
  <2>4. n = 0 \/ (s[1] \in Host /\ n = capability[s[1]])
    OBVIOUS
  <2>. HIDE DEF n
  <2>5. c \in Conns /\ ~c.joined /\ c.capability = n
    BY <1>2, <2>1, <2>3 DEF Conns
  <2>. HIDE DEF c
  <2>6. stored' \in [Person -> Nat] /\ UNCHANGED <<capability, boot>>
    BY <2>2 DEF IInv, GameType, pages
  <2>. QED  BY <2>2, <2>3, <2>4, <2>5, <2>6, ConnKeeps
<1>5. CASE Receive(s)
  <2>. DEFINE zero == 0
              c == [conn[s] EXCEPT !.reply = zero]
  <2>1. conn' = [conn EXCEPT ![s] = c]
        /\ UNCHANGED <<cast, kind, up, room, capability, boot, issued, latest>>
    BY <1>5 DEF Receive
  <2>2. zero \in Nat /\ stored' \in [Person -> Nat]
    BY <1>2, <1>5 DEF Receive, IInv, GameType, Conns
  <2>. HIDE DEF zero
  <2>3. /\ c \in Conns /\ c.joined = conn[s].joined /\ c.capability = conn[s].capability
        /\ c.at = conn[s].at /\ c.channel = conn[s].channel
    BY <1>2, <2>2 DEF Conns
  <2>. HIDE DEF c
  <2>4. c.joined => up /\ c.channel = room.number /\ c.at = "on"
    BY <2>3 DEF IInv, SeatInv
  <2>. QED  BY <2>1, <2>2, <2>3, <2>4, ConnKeeps
<1>6. CASE Observe(s)
  <2>. DEFINE in == [Gone EXCEPT !.at = "on", !.joined = yes, !.channel = room.number]
              c == IF up THEN in ELSE out
  <2>1. conn' = [conn EXCEPT ![s] = c] /\ conn[s].at = "dialled" /\ s[1] \in Observer
        /\ UNCHANGED <<cast, kind, up, room, pages, issued, latest>>
    BY <1>6 DEF Observe, out, yes
  <2>2. ~conn[s].joined
    BY <2>1 DEF IInv, SeatInv
  <2>3. in \in Conns /\ in.joined /\ in.at = "on" /\ in.channel = room.number /\ in.capability = 0
    BY <1>2, <1>3, GoneIs DEF Conns
  <2>. HIDE DEF in
  <2>4. /\ c \in Conns /\ c.capability = 0 /\ (c.joined => up)
        /\ c.joined => c.channel = room.number /\ c.at = "on"
    BY <1>1, <2>3
  <2>. HIDE DEF c
  <2>5. stored' \in [Person -> Nat] /\ UNCHANGED <<capability, boot>>
    BY <2>1 DEF IInv, GameType, pages
  <2>6. (c.joined <=> conn[s].joined) \/ (s[1] \in Observer /\ c.joined)
    BY <2>1, <2>2
  <2>. QED  BY <2>1, <2>4, <2>5, <2>6, ConnKeeps
<1>7. CASE Join(s)
  <2>1. CASE JoinWith(s, conn[s].token, conn[s].capability)
    BY <1>7, <2>1 DEF Join, Gamers, Socket, Person
  <2>2. CASE /\ conn' = [conn EXCEPT ![s] = out]
             /\ UNCHANGED <<cast, kind, up, room, pages, issued, latest>>
    <3>1. ~conn[s].joined
      BY <1>7 DEF Join, IInv, SeatInv
    <3>2. stored' \in [Person -> Nat] /\ UNCHANGED <<capability, boot>>
      BY <2>2 DEF IInv, GameType, pages
    <3>. QED  BY <1>1, <2>2, <3>1, <3>2, ConnKeeps
  <2>. QED  BY <1>7, <2>1, <2>2 DEF Join, out
<1>. QED  BY <1>4, <1>5, <1>6, <1>7

-----------------------------------------------------------------------------
(* The inductive step *)

\* Joins of a new connection and of the page of the presenter.
LEMMA JoinsKeep ==
    ASSUME IInv, NEW s \in Socket,
           \/ s[1] \in Gamers /\ JoinWith(s, conn[s].token, conn[s].capability)
           \/ Rejoin(s)
    PROVE  Kept
<1>1. conn[s].token \in Nat /\ conn[s].capability \in Nat
  BY DEF IInv, GameType, Conns
<1>2. CASE s[1] \in Gamers /\ JoinWith(s, conn[s].token, conn[s].capability)
  <2>1. conn[s].capability <= room.number
    BY DEF IInv, HostInv
  <2>2. up /\ conn[s].capability = room.number
        => s[1] = room.owner /\ capability[room.owner] = room.number
    BY DEF IInv, HostInv
  <2>. QED  BY <1>1, <1>2, <2>1, <2>2, JoinKeeps
<1>3. CASE Rejoin(s)
  <2>. DEFINE c == capability[s[1]]
              token == stored[s[1]]
  <2>1. s[1] \in Host /\ JoinWith(s, token, c)
    BY <1>3 DEF Rejoin
  <2>2. c \in Nat /\ token \in Nat /\ s[1] \in Gamers
    BY <2>1 DEF IInv, GameType, Gamers, Person
  <2>3. c <= room.number /\ (up /\ c = room.number => s[1] = room.owner
                                /\ capability[room.owner] = room.number)
    BY <2>1 DEF IInv, HostInv
  <2>. HIDE DEF c, token
  <2>. QED  BY <2>1, <2>2, <2>3, JoinKeeps
<1>. QED  BY <1>2, <1>3

\* Every step preserves the invariant.
LEMMA Inductive == IInv /\ [Next]_vars => Kept
<1>. SUFFICES ASSUME IInv, [Next]_vars PROVE Kept
  OBVIOUS
<1>1. ASSUME NEW h \in Host, Bootstrap(h) \/ BootAnswered(h) \/ BootLost(h) PROVE Kept
  <2>1. CASE Bootstrap(h)
    BY <2>1, NewRoomKeeps, PagesKeep DEF Bootstrap
  <2>2. CASE BootAnswered(h) \/ BootLost(h)
    BY <2>2, PagesKeep
  <2>. QED  BY <1>1, <2>1, <2>2
<1>2. ASSUME NEW s \in Socket, Dial(s) \/ Join(s) \/ Observe(s) \/ Receive(s) \/ Rejoin(s)
      PROVE  Kept
  BY <1>2, DialKeeps, JoinsKeep
<1>3. ASSUME NEW s \in Socket, Disconnect(s) \/ Leave(s) PROVE Kept
  BY <1>3, LeaveKeeps
<1>4. ASSUME NEW s \in Socket,
             Start(s) \/ End(s) \/ NextQuestion(s) \/ Answer(s) \/ Vote(s) \/ SubmitWord(s)
               \/ ClearWords(s)
      PROVE  Kept
  <2>1. GameType
    BY DEF IInv
  <2>. QED  BY <1>4, <2>1, PlayMoves, PlayKeeps
<1>5. CASE CleanupFires \/ UnclaimedFires
  BY <1>5, CleanupKeeps DEF CleanupFires, UnclaimedFires
<1>6. CASE UNCHANGED vars
  <2>1. GameType' /\ SeatInv' /\ HostInv' /\ SameOwner
    BY <1>6 DEF IInv, GameType, SeatInv, SocketOf, HostInv, SameOwner, vars, pages
  <2>2. ReaperFollowsOccupancy'
    BY <1>6 DEF IInv, ReaperFollowsOccupancy, Unoccupied, Seated, vars
  <2>. QED  BY <2>1, <2>2 DEF IInv, Kept
<1>. QED  BY <1>1, <1>2, <1>3, <1>4, <1>5, <1>6 DEF Next

\* The first room has been made for the page that presents.
LEMMA Initially == Init => IInv
<1>. SUFFICES ASSUME Init PROVE IInv
  OBVIOUS
<1>. DEFINE h == Presenting
<1>1. h \in Host /\ cast \subseteq Person
  BY GameConstants DEF Init, Presenting
<1>. HIDE DEF h
<1>2. room = NewRoom(1, h) /\ up /\ boot = [g \in Host |-> IF g = h THEN 1 ELSE 0]
      /\ capability = [g \in Host |-> 0]
  BY DEF Init, h
<1>3. /\ room \in Rooms /\ room.number = 1 /\ room.owner = h /\ room.host = Nobody
      /\ room.pending /\ room.unclaimed /\ room.timer = "none"
      /\ room.status = "waiting" /\ \A x \in Gamers : SocketOf(room, x) = NoSocket
  BY <1>1, <1>2, EmptiedRoom
<1>4. conn \in [Socket -> Conns]
      /\ \A s \in Socket : ~conn[s].joined /\ conn[s].capability = 0
  <2>. DEFINE new == [Gone EXCEPT !.at = "new"]
  <2>1. new \in Conns /\ ~new.joined /\ new.capability = 0
    BY GoneIs
  <2>2. conn = [s \in Socket |-> new]
    BY DEF Init
  <2>. HIDE DEF new
  <2>. QED  BY <2>1, <2>2
<1>5. GameType
  BY <1>1, <1>2, <1>3, <1>4 DEF GameType, Init
<1>6. SeatInv
  BY <1>3, <1>4 DEF SeatInv, Init, Gamers, Person
<1>7. HostInv
  BY <1>1, <1>2, <1>3, <1>4 DEF HostInv
<1>8. ReaperFollowsOccupancy
  BY <1>3 DEF ReaperFollowsOccupancy
<1>. QED  BY <1>5, <1>6, <1>7, <1>8 DEF IInv

LEMMA Invariant == Spec => []IInv
<1>1. IInv /\ [Next]_vars => IInv'
  BY Inductive DEF Kept
<1>. QED  BY <1>1, Initially, PTL DEF Spec

-----------------------------------------------------------------------------
(* Induction and sums *)

Below == {p \in Nat \X Nat : p[1] < p[2]}

\* A set of natural numbers that has zero and the successor of each of its members
\* has all: the library's induction takes an operator, this one a set.
LEMMA Climb ==
    ASSUME NEW T, 0 \in T, \A n \in Nat : n \in T => n + 1 \in T
    PROVE  \A n \in Nat : n \in T
<1>. DEFINE U == Nat \ T
<1>. SUFFICES ASSUME U # {} PROVE FALSE
  OBVIOUS
<1>1. IsWellFoundedOn(Below, Nat)
  <2>1. IsWellFoundedOn(OpToRel(<, Nat), Nat)
    BY NatLessThanWellFounded
  <2>. QED  BY <2>1 DEF OpToRel, Below
<1>2. PICK n \in U : \A m \in U : <<m, n>> \notin Below
  <2>1. U \subseteq Nat
    OBVIOUS
  <2>. HIDE DEF U
  <2>. QED  BY <1>1, <2>1, WFMin
<1>3. n \in Nat /\ n # 0 /\ n - 1 \in Nat /\ n - 1 < n /\ (n - 1) + 1 = n
  BY <1>2
<1>4. n - 1 \in T
  BY <1>2, <1>3 DEF Below
<1>. QED  BY <1>2, <1>3, <1>4

\* The sum that TalliesAddUp speaks of.
SumOf(f, S) == MapThenSumSet(LAMBDA x : f[x], S)

Some(s) == CHOOSE x \in s : TRUE
Small(S, n) == {s \in SUBSET S : Cardinality(s) <= n}

\* What the fold computes for the subsets in D.
Sums(g, f, D) == \A s \in D : g[s] = IF s = {} THEN 0 ELSE f[Some(s)] + g[s \ {Some(s)}]

\* A set that is not empty has the chosen element.
LEMMA SomeIsIn == ASSUME NEW s, s # {} PROVE Some(s) \in s
BY DEF Some

\* Taking one element out of a set of n + 1 leaves n.
LEMMA OneLess ==
    ASSUME NEW S, IsFiniteSet(S), NEW n \in Nat, NEW s \in Small(S, n + 1), NEW x \in s
    PROVE  /\ s \ {x} \in Small(S, n) /\ Cardinality(s \ {x}) = Cardinality(s) - 1
           /\ Cardinality(s) \in Nat
<1>1. IsFiniteSet(s)
  BY FS_Subset DEF Small
<1>2. Cardinality(s) \in Nat /\ Cardinality(s \ {x}) = Cardinality(s) - 1
  BY <1>1, FS_CardinalityType, FS_RemoveElement
<1>3. Cardinality(s) <= n + 1
  BY DEF Small
<1>. QED  BY <1>2, <1>3 DEF Small

\* Only the empty subset has no elements.
LEMMA NoElements ==
    ASSUME NEW S, IsFiniteSet(S)
    PROVE  Small(S, 0) = {{}} /\ \A n \in Nat : \A s \in Small(S, n) : Cardinality(s) \in Nat
<1>1. \A s \in SUBSET S : IsFiniteSet(s) /\ Cardinality(s) \in Nat /\ (Cardinality(s) = 0 <=> s = {})
  BY FS_Subset, FS_CardinalityType, FS_EmptySet
<1>2. \A s \in SUBSET S : Cardinality(s) <= 0 <=> Cardinality(s) = 0
  BY <1>1
<1>. QED  BY <1>1, <1>2 DEF Small

\* The fold has a value for every finite set.
LEMMA SumsExist ==
    ASSUME NEW f, NEW S, IsFiniteSet(S)
    PROVE  \E g : Sums(g, f, SUBSET S)
<1>. DEFINE T == {n \in Nat : \E g : Sums(g, f, Small(S, n))}
<1>1. 0 \in T
  <2>. DEFINE g == [s \in {{}} |-> 0]
  <2>1. Sums(g, f, Small(S, 0))
    BY NoElements DEF Sums
  <2>. QED  BY <2>1
<1>2. ASSUME NEW n \in Nat, n \in T PROVE n + 1 \in T
  <2>1. PICK g : Sums(g, f, Small(S, n))
    BY <1>2
  <2>. DEFINE v(s) == IF s = {} THEN 0 ELSE f[Some(s)] + g[s \ {Some(s)}]
              h == [s \in Small(S, n + 1) |-> v(s)]
  <2>2. \A s \in Small(S, n + 1) : h[s] = v(s)
    OBVIOUS
  <2>. HIDE DEF h
  <2>3. \A s \in Small(S, n) : s \in Small(S, n + 1)
    BY NoElements DEF Small
  <2>4. \A s \in Small(S, n) : h[s] = g[s]
    BY <2>1, <2>2, <2>3 DEF Sums
  <2>5. \A s \in Small(S, n + 1) : s # {} => s \ {Some(s)} \in Small(S, n)
    BY SomeIsIn, OneLess
  <2>6. Sums(h, f, Small(S, n + 1))
    BY <2>2, <2>4, <2>5 DEF Sums
  <2>. QED  BY <2>6
<1>3. Cardinality(S) \in Nat
  BY FS_CardinalityType
<1>4. Cardinality(S) \in T
  <2>. HIDE DEF T
  <2>. QED  BY <1>1, <1>2, <1>3, Climb
<1>5. SUBSET S = Small(S, Cardinality(S))
  BY FS_Subset DEF Small
<1>. QED  BY <1>4, <1>5

\* It has only one.
LEMMA SumsAgree ==
    ASSUME NEW f, NEW S, IsFiniteSet(S), NEW g, NEW h, Sums(g, f, SUBSET S), Sums(h, f, SUBSET S)
    PROVE  \A s \in SUBSET S : g[s] = h[s]
<1>. DEFINE T == {n \in Nat : \A s \in Small(S, n) : g[s] = h[s]}
<1>1. 0 \in T
  BY NoElements DEF Sums
<1>2. ASSUME NEW n \in Nat, n \in T PROVE n + 1 \in T
  <2>1. ASSUME NEW s \in Small(S, n + 1) PROVE g[s] = h[s]
    <3>1. s # {} => s \ {Some(s)} \in Small(S, n)
      BY SomeIsIn, OneLess
    <3>2. s \in SUBSET S
      BY DEF Small
    <3>. QED  BY <1>2, <3>1, <3>2 DEF Sums
  <2>. QED  BY <2>1
<1>3. Cardinality(S) \in Nat
  BY FS_CardinalityType
<1>4. Cardinality(S) \in T
  <2>. HIDE DEF T
  <2>. QED  BY <1>1, <1>2, <1>3, Climb
<1>5. SUBSET S = Small(S, Cardinality(S))
  BY FS_Subset DEF Small
<1>. QED  BY <1>4, <1>5

\* The sum is what such a function says of the whole set.
LEMMA SumIs ==
    ASSUME NEW f, NEW S, IsFiniteSet(S), NEW g, Sums(g, f, SUBSET S)
    PROVE  SumOf(f, S) = g[S]
<1>. DEFINE Eq(h) == h = [s \in SUBSET S |-> IF s = {} THEN 0 ELSE f[Some(s)] + h[s \ {Some(s)}]]
            k == [s \in SUBSET S |-> g[s]]
            h == CHOOSE h : Eq(h)
<1>1. SumOf(f, S) = h[S]
  BY DEF SumOf, MapThenSumSet, MapThenFoldSet, Some
<1>2. Eq(k)
  <2>1. \A s \in SUBSET S : k[s] = IF s = {} THEN 0 ELSE f[Some(s)] + k[s \ {Some(s)}]
    BY DEF Sums
  <2>. QED  BY <2>1
<1>3. Eq(h)
  BY <1>2
<1>4. Sums(h, f, SUBSET S)
  <2>. HIDE DEF h
  <2>. QED  BY <1>3 DEF Sums
<1>5. h[S] = g[S]
  BY <1>4, SumsAgree
<1>. QED  BY <1>1, <1>5

Counts(f, S) == \A x \in S : f[x] \in Nat

TakesOut(g, f, S) == \A s \in SUBSET S : g[s] \in Nat /\ \A x \in s : g[s] = f[x] + g[s \ {x}]

\* Any element can be taken out first.
LEMMA AnyOrder ==
    ASSUME NEW S, IsFiniteSet(S), NEW f, Counts(f, S), NEW g, Sums(g, f, SUBSET S)
    PROVE  TakesOut(g, f, S)
<1>. DEFINE P(s) == g[s] \in Nat /\ \A x \in s : g[s] = f[x] + g[s \ {x}]
            T == {n \in Nat : \A s \in Small(S, n) : P(s)}
<1>. USE DEF Counts, TakesOut
<1>1. 0 \in T
  BY NoElements DEF Sums
<1>2. ASSUME NEW n \in Nat, n \in T PROVE n + 1 \in T
  <2>1. ASSUME NEW s \in Small(S, n + 1), s # {} PROVE P(s)
    <3>. DEFINE p == Some(s)
    <3>1. p \in s /\ s \in SUBSET S
      BY <2>1, SomeIsIn DEF Small
    <3>2. s \ {p} \in Small(S, n) /\ g[s] = f[p] + g[s \ {p}]
      BY <2>1, <3>1, OneLess DEF Sums
    <3>. HIDE DEF p
    <3>3. P(s \ {p}) /\ f[p] \in Nat
      BY <1>2, <3>1, <3>2
    <3>4. g[s] \in Nat
      BY <3>2, <3>3
    <3>5. ASSUME NEW x \in s, x # p PROVE g[s] = f[x] + g[s \ {x}]
      <4>1. s \ {x} \in Small(S, n) /\ (s \ {x}) \ {p} = (s \ {p}) \ {x}
        BY OneLess
      <4>2. g[s \ {x}] = f[p] + g[(s \ {x}) \ {p}]
        BY <1>2, <3>1, <3>5, <4>1
      <4>3. g[s \ {p}] = f[x] + g[(s \ {p}) \ {x}]
        BY <3>3, <3>5
      <4>4. (s \ {p}) \ {x} \in Small(S, n)
        <5>1. x \in s \ {p}
          BY <3>5
        <5>2. IsFiniteSet(s \ {p}) /\ IsFiniteSet(s \ {x})
          BY FS_Subset DEF Small
        <5>3. Cardinality((s \ {x}) \ {p}) <= n
          <6>1. Cardinality(s \ {x}) \in Nat /\ Cardinality(s \ {x}) <= n
            BY <4>1, <5>2, FS_CardinalityType DEF Small
          <6>2. Cardinality((s \ {x}) \ {p}) = Cardinality(s \ {x}) - 1
            BY <3>1, <3>5, <5>2, FS_RemoveElement
          <6>. QED  BY <6>1, <6>2
        <5>. QED  BY <4>1, <5>3 DEF Small
      <4>5. g[(s \ {p}) \ {x}] \in Nat
        BY <1>2, <4>4
      <4>6. f[x] \in Nat
        BY <3>1, <3>5
      <4>7. g[(s \ {x}) \ {p}] = g[(s \ {p}) \ {x}]
        BY <4>1
      <4>. HIDE DEF T, P
      <4>. QED  BY <3>2, <3>3, <4>2, <4>3, <4>5, <4>6, <4>7
    <3>. QED  BY <3>2, <3>4, <3>5
  <2>2. P({})
    BY DEF Sums
  <2>3. \A s \in Small(S, n + 1) : P(s)
    <3>. HIDE DEF P
    <3>. QED  BY <2>1, <2>2
  <2>4. n + 1 \in Nat
    OBVIOUS
  <2>. HIDE DEF P
  <2>. QED  BY <2>3, <2>4
<1>3. Cardinality(S) \in Nat
  BY FS_CardinalityType
<1>4. Cardinality(S) \in T
  <2>. HIDE DEF T
  <2>. QED  BY <1>1, <1>2, <1>3, Climb
<1>5. SUBSET S = Small(S, Cardinality(S))
  BY FS_Subset DEF Small
<1>. QED  BY <1>4, <1>5

\* The sum over no elements.
LEMMA SumEmpty == ASSUME NEW f PROVE SumOf(f, {}) = 0
<1>1. IsFiniteSet({})
  BY FS_EmptySet
<1>2. PICK g : Sums(g, f, SUBSET {})
  BY <1>1, SumsExist
<1>3. g[{}] = 0
  BY <1>2 DEF Sums
<1>. QED  BY <1>1, <1>2, <1>3, SumIs

Agree(h, f, S) == \A z \in S : h[z] = f[z]

\* The sum over one more element is larger by its number.
LEMMA SumWith ==
    ASSUME NEW S, IsFiniteSet(S), NEW x, x \notin S, NEW f, NEW h,
           Counts(h, S \cup {x}), Agree(h, f, S)
    PROVE  SumOf(h, S \cup {x}) = h[x] + SumOf(f, S) /\ SumOf(f, S) \in Nat
<1>. DEFINE U == S \cup {x}
<1>1. IsFiniteSet(U)
  BY FS_AddElement
<1>2. PICK g : Sums(g, h, SUBSET U)
  BY <1>1, SumsExist
<1>3. SumOf(h, U) = g[U]
  BY <1>1, <1>2, SumIs
<1>4. \A s \in SUBSET U : g[s] \in Nat /\ \A z \in s : g[s] = h[z] + g[s \ {z}]
  <2>1. Counts(h, U)
    OBVIOUS
  <2>. HIDE DEF U
  <2>2. TakesOut(g, h, U)
    BY <1>1, <1>2, <2>1, AnyOrder
  <2>. QED  BY <2>2 DEF TakesOut
<1>5. U \ {x} = S
  OBVIOUS
<1>6. g[U] = h[x] + g[S] /\ g[S] \in Nat
  BY <1>4, <1>5
<1>7. Sums(g, f, SUBSET S)
  <2>1. ASSUME NEW s \in SUBSET S
        PROVE  g[s] = IF s = {} THEN 0 ELSE f[Some(s)] + g[s \ {Some(s)}]
    <3>1. s \in SUBSET U /\ (s # {} => f[Some(s)] = h[Some(s)])
      BY SomeIsIn DEF Agree
    <3>. QED  BY <1>2, <3>1 DEF Sums
  <2>. QED  BY <2>1 DEF Sums
<1>8. SumOf(f, S) = g[S]
  BY <1>7, SumIs
<1>. QED  BY <1>3, <1>6, <1>8

-----------------------------------------------------------------------------
(* What a room counts *)

SoundSeat(x) ==
    /\ x.session \in 1 .. MaxSessions /\ x.answered \subseteq 1 .. Questions
    /\ x.score <= Cardinality(x.answered)

SeatsSound(ps) == \A p \in DOMAIN ps : SoundSeat(ps[p])

CloudSound(m, n) ==
    /\ IsFiniteSet(DOMAIN m) /\ n = SumOf(m, DOMAIN m)
    /\ \A p \in DOMAIN m : m[p] <= MaxWords

Sound(r) ==
    /\ r.number <= MaxRooms /\ r.question <= Questions
    /\ SeatsSound(r.players) /\ r.votes \subseteq DOMAIN r.players
    /\ CloudSound(r.submissions, r.words)

\* Nothing that a room counts differs.
SameCounts(q, r) ==
    /\ q.number = r.number /\ q.question = r.question /\ q.players = r.players
    /\ q.votes = r.votes /\ q.submissions = r.submissions /\ q.words = r.words

\* Nobody has played yet.
LEMMA NothingCounted == CloudSound(<<>>, 0) /\ SeatsSound(<<>>)
<1>. DEFINE none == <<>>
<1>1. DOMAIN none = {}
  BY NothingMapped
<1>. HIDE DEF none
<1>2. CloudSound(none, 0) /\ SeatsSound(none)
  BY <1>1, SumEmpty, FS_EmptySet DEF CloudSound, SeatsSound
<1>. QED  BY <1>2 DEF none

\* A room begins with nothing counted.
LEMMA EmptiedIsSound ==
    ASSUME NEW n \in Nat, n <= MaxRooms
    PROVE  Sound(NoRoom(n)) /\ \A h \in Host : Sound(NewRoom(n, h))
<1>. DEFINE none == <<>>
            zero == 0
            no == FALSE
            yes == TRUE
            r == [number |-> n, owner |-> Nobody, status |-> "waiting", players |-> none,
                  host |-> Nobody, hostSocket |-> NoSocket, question |-> zero, timer |-> "none",
                  unclaimed |-> no, pending |-> no, votes |-> {}, submissions |-> none,
                  words |-> zero]
<1>1. NoRoom(n) = r
  BY DEF NoRoom
<1>2. CloudSound(none, zero) /\ SeatsSound(none) /\ zero <= Questions
  BY NothingCounted, GameConstants
<1>. HIDE DEF none, zero, no, yes
<1>3. Sound(r)
  BY <1>2 DEF Sound
<1>4. ASSUME NEW h \in Host PROVE Sound(NewRoom(n, h))
  <2>1. NewRoom(n, h) = [r EXCEPT !.owner = h, !.pending = yes, !.unclaimed = yes]
    BY <1>1 DEF NewRoom, yes
  <2>. QED  BY <1>2, <2>1 DEF Sound
<1>. QED  BY <1>1, <1>3, <1>4

\* What the timers and the end of a game change is not counted.
LEMMA TimersCountNothing ==
    ASSUME NEW r \in Rooms, Sound(r)
    PROVE  Sound(EmptyCleanup(r)) /\ Sound(Ended(r))
<1>. DEFINE no == FALSE
            e == [r EXCEPT !.status = "finished", !.unclaimed = no, !.timer = "finished"]
            t == [r EXCEPT !.timer = "empty"]
<1>1. Ended(r) = e /\ EmptyCleanup(r) \in {r, t}
  BY DEF Ended, EmptyCleanup
<1>. HIDE DEF no
<1>2. SameCounts(e, r) /\ SameCounts(t, r)
  BY DEF Rooms, SameCounts
<1>3. Sound(e) /\ Sound(t)
  BY <1>2 DEF Sound, SameCounts
<1>. QED  BY <1>1, <1>3

\* A seat keeps its score and its answers when it is taken again.
LEMMA TakenIsSound ==
    ASSUME NEW r \in Rooms, Sound(r), NEW s \in Socket, s[1] \in Gamers,
           NEW n \in 1 .. MaxSessions
    PROVE  Sound(Taken(r, s[1], s, n))
<1>. DEFINE p == s[1]
            no == FALSE
            old == IF p \in DOMAIN r.players THEN r.players[p] ELSE NewSeat
            seat == [old EXCEPT !.socket = s, !.session = n]
            ps == With(r.players, p, seat)
            t == IF r.timer = "empty" THEN "none" ELSE r.timer
            q0 == [r EXCEPT !.timer = t, !.players = ps]
            q1 == [q0 EXCEPT !.unclaimed = no, !.pending = no, !.host = p, !.hostSocket = s]
<1>1. /\ old \in Seats /\ old.answered \subseteq 1 .. Questions
      /\ old.score <= Cardinality(old.answered)
  <2>. DEFINE zero == 0
              one == 1
              nil == {}
              new == [socket |-> NoSocket, session |-> one, score |-> zero, answered |-> nil]
  <2>1. NewSeat = new
    BY DEF NewSeat
  <2>2. zero \in Nat /\ one \in Nat /\ nil \in SUBSET Nat /\ nil \subseteq 1 .. Questions
        /\ zero <= Cardinality(nil)
    BY FS_EmptySet
  <2>. HIDE DEF zero, one, nil
  <2>3. new \in Seats /\ new.answered \subseteq 1 .. Questions /\ new.score <= Cardinality(new.answered)
    BY <2>2 DEF Seats
  <2>4. r.players \in Maps(Gamers, Seats)
    BY DEF Rooms
  <2>5. p \in DOMAIN r.players => r.players[p] \in Seats /\ SoundSeat(r.players[p])
    BY <2>4, MapsAre DEF Sound, SeatsSound
  <2>. QED  BY <2>1, <2>3, <2>5 DEF SoundSeat
<1>2. seat.session = n /\ seat.answered = old.answered /\ seat.score = old.score
  BY <1>1 DEF Seats
<1>3. SoundSeat(seat)
  BY <1>1, <1>2 DEF SoundSeat
<1>4. Taken(r, p, s, n) = IF p \notin Host THEN q0 ELSE q1
  BY DEF Taken
<1>. HIDE DEF seat, old
<1>5. /\ DOMAIN ps = DOMAIN r.players \cup {p} /\ ps[p] = seat
      /\ \A z \in DOMAIN r.players \ {p} : ps[z] = r.players[z]
  BY DEF With
<1>. HIDE DEF ps, t, no
<1>6. SeatsSound(ps) /\ r.votes \subseteq DOMAIN ps
  BY <1>3, <1>5 DEF Sound, SeatsSound
<1>7. q0.players = ps /\ q0.votes = r.votes /\ q0.submissions = r.submissions
      /\ q0.words = r.words /\ q0.number = r.number /\ q0.question = r.question
  BY DEF Rooms
<1>8. q1.players = ps /\ q1.votes = r.votes /\ q1.submissions = r.submissions
      /\ q1.words = r.words /\ q1.number = r.number /\ q1.question = r.question
  BY DEF Rooms
<1>9. Sound(q0) /\ Sound(q1)
  <2>. HIDE DEF q0, q1
  <2>. QED  BY <1>6, <1>7, <1>8 DEF Sound
<1>. QED  BY <1>4, <1>9

\* So does a seat that is freed.
LEMMA FreedIsSound ==
    ASSUME NEW r \in Rooms, Sound(r), NEW s \in Socket
    PROVE  Sound(Freed(r, s))
<1>. DEFINE p == s[1]
            ps == [r.players EXCEPT ![p].socket = NoSocket]
            hs == IF r.hostSocket = s THEN NoSocket ELSE r.hostSocket
            q == [r EXCEPT !.players = ps, !.hostSocket = hs]
<1>1. CASE p \notin DOMAIN r.players \/ r.players[p].socket # s
  BY <1>1 DEF Freed
<1>2. CASE p \in DOMAIN r.players /\ r.players[p].socket = s
  <2>1. Freed(r, s) = q
    BY <1>2 DEF Freed, Rooms
  <2>2. r.players \in Maps(Gamers, Seats)
    BY DEF Rooms
  <2>3. \A z \in DOMAIN r.players : r.players[z] \in Seats
    BY <2>2, MapsAre
  <2>4. /\ DOMAIN ps = DOMAIN r.players
        /\ \A z \in DOMAIN ps : /\ ps[z].session = r.players[z].session
                                /\ ps[z].answered = r.players[z].answered
                                /\ ps[z].score = r.players[z].score
    BY <2>3 DEF Seats
  <2>. HIDE DEF ps, hs
  <2>5. SeatsSound(ps)
    BY <2>4 DEF Sound, SeatsSound, SoundSeat
  <2>6. q.players = ps /\ q.votes = r.votes /\ q.submissions = r.submissions
        /\ q.words = r.words /\ q.number = r.number /\ q.question = r.question
    BY DEF Rooms
  <2>. HIDE DEF q
  <2>. QED  BY <2>1, <2>4, <2>5, <2>6 DEF Sound
<1>. QED  BY <1>1, <1>2

\* A seat that is given up takes its vote along.
LEMMA VacatedIsSound ==
    ASSUME NEW r \in Rooms, Sound(r), NEW s \in Socket
    PROVE  Sound(Vacated(r, s))
<1>. DEFINE ps == [p \in DOMAIN r.players \ {s[1]} |-> r.players[p]]
            q == Vacated(r, s)
<1>1. /\ q.players = ps /\ q.votes = r.votes \ {s[1]} /\ q.submissions = r.submissions
      /\ q.words = r.words /\ q.number = r.number /\ q.question = r.question
  BY DEF Vacated, Rooms
<1>2. SeatsSound(ps) /\ r.votes \ {s[1]} \subseteq DOMAIN ps
  BY DEF Sound, SeatsSound
<1>. HIDE DEF ps, q
<1>3. Sound(q)
  BY <1>1, <1>2 DEF Sound
<1>. QED  BY <1>3 DEF q

\* An answer scores once: its question was not among the answered ones.
LEMMA AnswerIsSound ==
    ASSUME GameType, Sound(room), NEW s \in Socket, Answer(s)
    PROVE  Sound(room')
<1>. DEFINE p == s[1]
            ps == room.players
<1>1. PICK points \in 0 .. 1 :
         room' = [room EXCEPT !.players[p] = Scored(@, room.question, points)]
  BY DEF Answer, Play
<1>. DEFINE seat == Scored(ps[p], room.question, points)
            new == [ps EXCEPT ![p] = seat]
<1>2. room \in Rooms /\ ps \in Maps(Gamers, Seats) /\ p \in DOMAIN ps
      /\ room.question \in 1 .. Questions /\ room.question \notin ps[p].answered
  <2>1. room.question \in Nat /\ room.question > 0 /\ room.question <= Questions
    BY DEF GameType, Rooms, Answer, Sound
  <2>. QED  BY <2>1, GameConstants DEF GameType, Rooms, Answer, Holds, Unanswered
<1>3. \A x \in DOMAIN ps : ps[x] \in Seats /\ SoundSeat(ps[x])
  BY <1>2, MapsAre DEF Sound, SeatsSound
<1>4. SoundSeat(seat)
  <2>. DEFINE old == ps[p].answered
              n == room.question
  <2>1. seat.session = ps[p].session /\ seat.answered = old \cup {n} /\ seat.score = ps[p].score + points
    BY <1>2, <1>3 DEF Scored, Seats
  <2>2. IsFiniteSet(old)
    <3>1. IsFiniteSet(1 .. Questions)
      BY GameConstants, FS_Interval
    <3>. QED  BY <1>2, <1>3, <3>1, FS_Subset DEF SoundSeat
  <2>3. Cardinality(old \cup {n}) = Cardinality(old) + 1 /\ Cardinality(old) \in Nat
    BY <1>2, <2>2, FS_AddElement, FS_CardinalityType
  <2>4. ps[p].score \in Nat /\ ps[p].score <= Cardinality(old)
    BY <1>2, <1>3 DEF Seats, SoundSeat
  <2>5. seat.score <= Cardinality(seat.answered)
    BY <2>1, <2>3, <2>4
  <2>6. seat.answered \subseteq 1 .. Questions /\ seat.session \in 1 .. MaxSessions
    BY <1>2, <1>3, <2>1 DEF SoundSeat
  <2>. QED  BY <2>5, <2>6 DEF SoundSeat
<1>. HIDE DEF seat
<1>5. DOMAIN new = DOMAIN ps /\ new[p] = seat /\ \A x \in DOMAIN ps \ {p} : new[x] = ps[x]
  BY <1>2
<1>6. /\ room'.players = new /\ room'.votes = room.votes
      /\ room'.submissions = room.submissions /\ room'.words = room.words
      /\ room'.number = room.number /\ room'.question = room.question
  BY <1>1, <1>2 DEF Rooms, seat
<1>. HIDE DEF new
<1>7. SeatsSound(new)
  BY <1>3, <1>4, <1>5 DEF SeatsSound
<1>. QED  BY <1>5, <1>6, <1>7 DEF Sound

\* A word counts for its player and in the cloud.
LEMMA WordIsSound ==
    ASSUME GameType, Sound(room), NEW s \in Socket, SubmitWord(s)
    PROVE  Sound(room')
<1>. DEFINE p == s[1]
            f == room.submissions
            D == DOMAIN f
            k == Submitted(room, p)
            m == With(f, p, k + 1)
            rest == D \ {p}
<1>1. /\ room \in Rooms /\ f \in Maps(Gamers, Nat) /\ room.words \in Nat
      /\ room' = [room EXCEPT !.submissions = m, !.words = @ + 1] /\ k < MaxWords
  BY DEF GameType, Rooms, SubmitWord, Play
<1>2. \A x \in D : f[x] \in Nat /\ f[x] <= MaxWords
  BY <1>1, MapsAre DEF Sound, CloudSound
<1>3. k \in Nat /\ (p \in D => k = f[p]) /\ (p \notin D => k = 0)
  BY <1>2 DEF Submitted
<1>4. DOMAIN m = D \cup {p} /\ m[p] = k + 1 /\ \A x \in rest : m[x] = f[x]
  BY DEF With
<1>5. /\ room'.players = room.players /\ room'.votes = room.votes
      /\ room'.submissions = m /\ room'.words = room.words + 1
      /\ room'.number = room.number /\ room'.question = room.question
  BY <1>1 DEF Rooms
<1>. HIDE DEF k, m
<1>6. IsFiniteSet(D) /\ IsFiniteSet(rest) /\ room.words = SumOf(f, D)
  BY FS_Subset DEF Sound, CloudSound
<1>7. SumOf(m, rest \cup {p}) = m[p] + SumOf(f, rest) /\ SumOf(f, rest) \in Nat
  <2>1. Counts(m, rest \cup {p}) /\ Agree(m, f, rest)
    BY <1>2, <1>3, <1>4 DEF Counts, Agree
  <2>2. p \notin rest
    OBVIOUS
  <2>. HIDE DEF rest
  <2>. QED  BY <1>6, <2>1, <2>2, SumWith
<1>8. SumOf(f, D) = k + SumOf(f, rest)
  <2>1. CASE p \in D
    <3>1. Counts(f, rest \cup {p}) /\ Agree(f, f, rest) /\ rest \cup {p} = D
      BY <1>2, <2>1 DEF Counts, Agree
    <3>2. p \notin rest
      OBVIOUS
    <3>. HIDE DEF rest
    <3>3. SumOf(f, rest \cup {p}) = f[p] + SumOf(f, rest)
      BY <1>6, <3>1, <3>2, SumWith
    <3>. QED  BY <1>3, <2>1, <3>1, <3>3
  <2>2. CASE p \notin D
    <3>1. rest = D /\ k = 0 /\ SumOf(f, rest) \in Nat
      BY <1>3, <1>7, <2>2
    <3>. HIDE DEF rest
    <3>. QED  BY <3>1
  <2>. QED  BY <2>1, <2>2
<1>9. DOMAIN m = rest \cup {p}
  BY <1>4
<1>10. room.words + 1 = SumOf(m, DOMAIN m)
  BY <1>3, <1>4, <1>6, <1>7, <1>8, <1>9
<1>11. CloudSound(m, room.words + 1)
  <2>1. IsFiniteSet(DOMAIN m)
    BY <1>4, <1>6, FS_AddElement
  <2>2. \A x \in DOMAIN m : m[x] <= MaxWords
    BY <1>1, <1>2, <1>3, <1>4, GameConstants
  <2>. QED  BY <1>10, <2>1, <2>2 DEF CloudSound
<1>. QED  BY <1>5, <1>11 DEF Sound

\* Every move of the game keeps the counts.
LEMMA MovesAreSound ==
    ASSUME GameType, Sound(room), NEW s \in Socket,
           Start(s) \/ End(s) \/ NextQuestion(s) \/ Answer(s) \/ Vote(s) \/ SubmitWord(s)
             \/ ClearWords(s)
    PROVE  Sound(room') /\ kind' = kind
<1>. DEFINE none == <<>>
            zero == 0
<1>1. room \in Rooms /\ kind' = kind
  BY DEF GameType, Start, End, NextQuestion, Answer, Vote, SubmitWord, ClearWords, Play
<1>2. CASE Start(s)
  <2>1. \E v \in SUBSET room.votes :
           room' = [room EXCEPT !.status = "active", !.timer = "none", !.votes = v]
    BY <1>2 DEF Start, Play
  <2>2. PICK v \in SUBSET room.votes :
           room' = [room EXCEPT !.status = "active", !.timer = "none", !.votes = v]
    BY <2>1
  <2>3. /\ room'.players = room.players /\ room'.votes = v
        /\ room'.submissions = room.submissions /\ room'.words = room.words
        /\ room'.number = room.number /\ room'.question = room.question
    BY <1>1, <2>2 DEF Rooms
  <2>. QED  BY <1>1, <2>3 DEF Sound
<1>3. CASE End(s)
  BY <1>1, <1>3, TimersCountNothing DEF End, Play
<1>4. CASE NextQuestion(s)
  <2>1. CASE room.question # Questions
    <3>. DEFINE n == room.question + 1
    <3>1. n <= Questions
      BY <1>1, <2>1, GameConstants DEF Rooms, Sound
    <3>2. room' = [room EXCEPT !.question = n, !.status = "active"]
      BY <1>4, <2>1 DEF NextQuestion, Play
    <3>. HIDE DEF n
    <3>3. /\ room'.players = room.players /\ room'.votes = room.votes
          /\ room'.submissions = room.submissions /\ room'.words = room.words
          /\ room'.number = room.number /\ room'.question = n
      BY <1>1, <3>2 DEF Rooms
    <3>. QED  BY <1>1, <3>1, <3>3 DEF Sound
  <2>2. CASE room.question = Questions
    BY <1>1, <1>4, <2>2, TimersCountNothing DEF NextQuestion, Play
  <2>. QED  BY <2>1, <2>2
<1>5. CASE Vote(s)
  <2>1. room' = [room EXCEPT !.votes = @ \cup {s[1]}] /\ s[1] \in DOMAIN room.players
    BY <1>5 DEF Vote, Play, Holds
  <2>2. /\ room'.players = room.players /\ room'.votes = room.votes \cup {s[1]}
        /\ room'.submissions = room.submissions /\ room'.words = room.words
        /\ room'.number = room.number /\ room'.question = room.question
    BY <1>1, <2>1 DEF Rooms
  <2>. QED  BY <1>1, <2>1, <2>2 DEF Sound
<1>6. CASE ClearWords(s)
  <2>1. room' = [room EXCEPT !.submissions = none, !.words = zero]
    BY <1>6 DEF ClearWords, Play
  <2>2. CloudSound(none, zero)
    BY NothingCounted
  <2>. HIDE DEF none, zero
  <2>3. /\ room'.players = room.players /\ room'.votes = room.votes
        /\ room'.submissions = none /\ room'.words = zero
        /\ room'.number = room.number /\ room'.question = room.question
    BY <1>1, <2>1 DEF Rooms
  <2>. QED  BY <1>1, <2>2, <2>3 DEF Sound
<1>. QED  BY <1>1, <1>2, <1>3, <1>4, <1>5, <1>6, AnswerIsSound, WordIsSound

-----------------------------------------------------------------------------
(* Sessions and numbers stay within their bounds *)

ConnSound(c) ==
    /\ c.channel <= MaxRooms /\ c.capability <= MaxRooms
    /\ c.token <= MaxSessions /\ c.reply <= MaxSessions

CountInv ==
    /\ cast \in Casts /\ kind \in Kinds /\ up \in BOOLEAN
    /\ Sound(room) /\ \A s \in Socket : ConnSound(conn[s])
    /\ \A p \in Person : stored[p] <= MaxSessions /\ issued[p] <= MaxSessions

\* Who is in no room carries nothing.
LEMMA GoneCarriesNothing ==
    ConnSound(Gone) /\ \A at \in {"new", "on"} : ConnSound([Gone EXCEPT !.at = at])
<1>. DEFINE zero == 0
            no == FALSE
<1>1. Gone = [at |-> "off", joined |-> no, channel |-> zero, token |-> zero,
              capability |-> zero, reply |-> zero]
  BY DEF Gone
<1>2. zero <= MaxRooms /\ zero <= MaxSessions
  BY GameConstants
<1>. HIDE DEF zero, no
<1>. QED  BY <1>1, <1>2 DEF ConnSound

\* A connection changes and the rest is as sound as before.
LEMMA OneConnection ==
    ASSUME IInv, CountInv, NEW s \in Socket, NEW c, ConnSound(c), conn' = [conn EXCEPT ![s] = c]
    PROVE  \A t \in Socket : ConnSound(conn'[t])
BY DEF IInv, GameType, CountInv

\* Who is cut off carries nothing.
LEMMA CutOffIsSound ==
    ASSUME CountInv
    PROVE  \A s \in Socket : ConnSound(CutOff(room.number)[s])
BY GoneCarriesNothing DEF CountInv, CutOff

\* Who joins gets the session of the seat or the next one.
LEMMA JoinIsSound ==
    ASSUME IInv, CountInv, NEW s \in Socket, s[1] \in Gamers, NEW token, NEW c \in Nat,
           c <= MaxRooms, JoinWith(s, token, c)
    PROVE  CountInv'
<1>. DEFINE p == s[1]
            session == IF p \in DOMAIN room.players /\ ~Recovers(p, c)
                       THEN room.players[p].session ELSE issued[p] + 1
            yes == TRUE
            k == [at |-> "on", joined |-> yes, channel |-> room.number,
                  token |-> session, capability |-> c, reply |-> session]
<1>1. /\ room' = Taken(room, p, s, session) /\ session <= MaxSessions
      /\ conn' = [conn EXCEPT ![s] = k]
      /\ issued' = [issued EXCEPT ![p] = IF session > @ THEN session ELSE @]
      /\ UNCHANGED <<cast, kind, up, stored>>
  BY DEF JoinWith, pages
<1>2. room \in Rooms /\ p \in Person /\ Sound(room)
  BY DEF IInv, GameType, Gamers, Person, CountInv
<1>3. session \in 1 .. MaxSessions
  <2>1. p \in DOMAIN room.players => room.players[p].session \in 1 .. MaxSessions
    BY <1>2 DEF Sound, SeatsSound, SoundSeat
  <2>2. issued[p] + 1 \in Nat \ {0}
    BY <1>2 DEF IInv, GameType
  <2>. QED  BY <1>1, <2>1, <2>2, GameConstants
<1>. HIDE DEF session, yes
<1>4. Sound(room')
  BY <1>1, <1>2, <1>3, TakenIsSound
<1>5. ConnSound(k)
  BY <1>1, <1>2 DEF ConnSound, Sound
<1>. HIDE DEF k
<1>6. \A t \in Socket : ConnSound(conn'[t])
  BY <1>1, <1>5, OneConnection
<1>7. \A x \in Person : stored'[x] <= MaxSessions /\ issued'[x] <= MaxSessions
  BY <1>1, <1>2 DEF CountInv, IInv, GameType
<1>. QED  BY <1>1, <1>4, <1>6, <1>7 DEF CountInv

\* Every step keeps the counts.
LEMMA CountsAreKept == IInv /\ CountInv /\ [Next]_vars => CountInv'
<1>. SUFFICES ASSUME IInv, CountInv, [Next]_vars PROVE CountInv'
  OBVIOUS
<1>. DEFINE out == [Gone EXCEPT !.at = "on"]
<1>1. /\ room \in Rooms /\ room.number \in Nat /\ Sound(room) /\ room.number <= MaxRooms
      /\ GameType /\ \A h \in Host : capability[h] \in Nat /\ capability[h] <= MaxRooms
  <2>1. room \in Rooms /\ room.number \in Nat /\ Sound(room) /\ room.number <= MaxRooms /\ GameType
    BY DEF IInv, GameType, Rooms, CountInv, Sound
  <2>2. \A h \in Host : capability[h] \in Nat /\ capability[h] <= room.number
    BY DEF IInv, GameType, HostInv
  <2>. QED  BY <2>1, <2>2, GameConstants
<1>2. ConnSound(Gone) /\ ConnSound(out)
  BY GoneCarriesNothing
<1>. HIDE DEF out
<1>3. ASSUME UNCHANGED <<cast, kind, up, room, stored, issued>>,
             \A t \in Socket : ConnSound(conn'[t])
      PROVE  CountInv'
  BY <1>3 DEF CountInv
<1>4. ASSUME NEW h \in Host, Bootstrap(h) PROVE CountInv'
  <2>1. CASE UNCHANGED <<up, room, conn>>
    BY <1>4, <2>1, <1>3 DEF Bootstrap, CountInv
  <2>2. CASE /\ room.number < MaxRooms /\ up' = TRUE /\ room' = NewRoom(room.number + 1, h)
             /\ conn' = IF up THEN CutOff(room.number) ELSE conn
    <3>. DEFINE n == room.number + 1
    <3>1. n \in Nat /\ n <= MaxRooms
      BY <1>1, <2>2, GameConstants
    <3>2. Sound(NewRoom(n, h))
      <4>. HIDE DEF n
      <4>. QED  BY <3>1, EmptiedIsSound
    <3>3. Sound(room') /\ up' \in BOOLEAN
      BY <2>2, <3>2
    <3>4. \A t \in Socket : ConnSound(conn'[t])
      BY <2>2, CutOffIsSound DEF CountInv
    <3>. QED  BY <1>4, <3>3, <3>4 DEF Bootstrap, CountInv
  <2>. QED  BY <1>4, <2>1, <2>2 DEF Bootstrap
<1>5. ASSUME NEW h \in Host, BootAnswered(h) \/ BootLost(h) PROVE CountInv'
  BY <1>5 DEF BootAnswered, BootLost, CountInv
<1>6. ASSUME NEW s \in Socket, Dial(s) PROVE CountInv'
  <2>. DEFINE n == IF s[1] \in Host THEN capability[s[1]] ELSE 0
              c == [conn[s] EXCEPT !.at = "dialled", !.token = stored[s[1]], !.capability = n]
  <2>1. n <= MaxRooms /\ conn[s] \in Conns /\ s[1] \in Person
    BY <1>1, GameConstants DEF GameType, Socket
  <2>2. conn' = [conn EXCEPT ![s] = c] /\ UNCHANGED <<cast, kind, up, room, stored, issued>>
    BY <1>6 DEF Dial, pages
  <2>. HIDE DEF n
  <2>3. ConnSound(c)
    BY <2>1 DEF CountInv, ConnSound, Conns
  <2>. HIDE DEF c
  <2>. QED  BY <1>3, <2>2, <2>3, OneConnection
<1>7. ASSUME NEW s \in Socket, Join(s) \/ Rejoin(s) PROVE CountInv'
  <2>1. ASSUME s[1] \in Gamers, JoinWith(s, conn[s].token, conn[s].capability) PROVE CountInv'
    <3>1. conn[s].capability \in Nat /\ conn[s].capability <= MaxRooms
      BY DEF IInv, GameType, Conns, CountInv, ConnSound
    <3>. QED  BY <2>1, <3>1, JoinIsSound
  <2>2. CASE Rejoin(s)
    BY <1>1, <2>2, JoinIsSound DEF Rejoin, Gamers
  <2>3. CASE conn' = [conn EXCEPT ![s] = out] /\ UNCHANGED <<cast, kind, up, room, pages, issued, latest>>
    BY <1>2, <1>3, <2>3, OneConnection DEF pages
  <2>4. s[1] \in Person
    BY DEF Socket
  <2>. QED  BY <1>7, <2>1, <2>2, <2>3, <2>4 DEF Join, Gamers, Person, out
<1>8. ASSUME NEW s \in Socket, Observe(s) PROVE CountInv'
  <2>. DEFINE yes == TRUE
              in == [Gone EXCEPT !.at = "on", !.joined = yes, !.channel = room.number]
              c == IF up THEN in ELSE out
  <2>1. conn' = [conn EXCEPT ![s] = c] /\ UNCHANGED <<cast, kind, up, room, stored, issued>>
    BY <1>8 DEF Observe, out, pages
  <2>. HIDE DEF yes
  <2>2. ConnSound(in)
    BY <1>1, <1>2, GoneIs DEF ConnSound, Conns
  <2>. HIDE DEF in
  <2>. QED  BY <1>2, <1>3, <2>1, <2>2, OneConnection
<1>9. ASSUME NEW s \in Socket, Receive(s) PROVE CountInv'
  <2>. DEFINE zero == 0
              c == [conn[s] EXCEPT !.reply = zero]
  <2>1. conn' = [conn EXCEPT ![s] = c] /\ stored' = [stored EXCEPT ![s[1]] = conn[s].reply]
        /\ UNCHANGED <<cast, kind, up, room, issued>>
    BY <1>9 DEF Receive
  <2>2. zero <= MaxSessions /\ conn[s] \in Conns /\ ConnSound(conn[s]) /\ s[1] \in Person
    BY <1>1, GameConstants DEF GameType, CountInv, Socket
  <2>. HIDE DEF zero
  <2>3. ConnSound(c)
    BY <2>2 DEF ConnSound, Conns
  <2>. HIDE DEF c
  <2>4. \A t \in Socket : ConnSound(conn'[t])
    BY <2>1, <2>3, OneConnection
  <2>5. \A x \in Person : stored'[x] <= MaxSessions
    BY <1>1, <2>1, <2>2 DEF GameType, CountInv, ConnSound
  <2>. QED  BY <2>1, <2>4, <2>5 DEF CountInv
<1>10. ASSUME NEW s \in Socket, Disconnect(s) PROVE CountInv'
  <2>1. Sound(room')
    <3>. DEFINE q == Freed(room, s)
    <3>1. q \in Rooms /\ Sound(q)
      BY <1>1, FreedIs, FreedIsSound
    <3>2. Sound(EmptyCleanup(q))
      <4>. HIDE DEF q
      <4>. QED  BY <3>1, TimersCountNothing
    <3>. QED  BY <1>1, <1>10, <3>2 DEF Disconnect
  <2>2. \A t \in Socket : ConnSound(conn'[t])
    BY <1>2, <1>10, OneConnection DEF Disconnect
  <2>. QED  BY <1>10, <2>1, <2>2 DEF Disconnect, CountInv, pages
<1>11. ASSUME NEW s \in Socket, Leave(s) PROVE CountInv'
  <2>1. Sound(room')
    <3>. DEFINE q == Vacated(room, s)
    <3>1. q \in Rooms /\ Sound(q)
      BY <1>1, VacatedIs, VacatedIsSound
    <3>2. Sound(EmptyCleanup(q)) /\ Sound(EmptyCleanup(room))
      <4>. HIDE DEF q
      <4>. QED  BY <1>1, <3>1, TimersCountNothing
    <3>. QED  BY <1>1, <1>11, <3>2 DEF Leave
  <2>2. \A t \in Socket : ConnSound(conn'[t])
    BY <1>2, <1>11, OneConnection DEF Leave, out
  <2>. QED  BY <1>11, <2>1, <2>2 DEF Leave, CountInv, pages
<1>12. ASSUME NEW s \in Socket,
              Start(s) \/ End(s) \/ NextQuestion(s) \/ Answer(s) \/ Vote(s) \/ SubmitWord(s)
                \/ ClearWords(s)
       PROVE  CountInv'
  BY <1>1, <1>12, MovesAreSound, PlayMoves DEF CountInv, pages
<1>13. CASE CleanupFires \/ UnclaimedFires
  <2>1. Sound(NoRoom(room.number)) /\ \A t \in Socket : ConnSound(CutOff(room.number)[t])
    BY <1>1, EmptiedIsSound, CutOffIsSound
  <2>. QED  BY <1>13, <2>1 DEF CleanupFires, UnclaimedFires, Cleanup, CountInv, pages
<1>14. CASE UNCHANGED vars
  BY <1>14 DEF vars, pages, CountInv
<1>. QED  BY <1>4, <1>5, <1>6, <1>7, <1>8, <1>9, <1>10, <1>11, <1>12, <1>13, <1>14 DEF Next

\* The first room has counted nothing.
LEMMA CountsBegin == Init => CountInv
<1>. SUFFICES ASSUME Init PROVE CountInv
  OBVIOUS
<1>1. Presenting \in Host
  BY GameConstants DEF Init, Presenting
<1>2. 1 \in Nat /\ 1 <= MaxRooms /\ 0 <= MaxSessions
  BY GameConstants
<1>3. Sound(room)
  <2>. DEFINE n == 1
              h == Presenting
  <2>1. room = NewRoom(n, h) /\ n \in Nat /\ n <= MaxRooms /\ h \in Host
    BY <1>1, <1>2 DEF Init
  <2>. HIDE DEF n, h
  <2>. QED  BY <2>1, EmptiedIsSound
<1>4. \A s \in Socket : ConnSound(conn[s])
  BY GoneCarriesNothing DEF Init
<1>. QED  BY <1>2, <1>3, <1>4 DEF Init, CountInv

\* Both invariants hold together.
LEMMA CountsHold == Spec => [](IInv /\ CountInv)
BY Invariant, CountsBegin, CountsAreKept, PTL DEF Spec

-----------------------------------------------------------------------------
(* The theorems *)

\* A game has a timer that removes it when it is deserted or over, and none for its
\* emptiness while somebody is in it, however joins, disconnects, leaves and moves
\* of the game follow each other.
THEOREM GamesAreReaped == Spec => []ReaperFollowsOccupancy
<1>1. IInv => ReaperFollowsOccupancy
  BY DEF IInv
<1>. QED  BY <1>1, Invariant, PTL

\* A seat belongs to the connection of its person that joined last, whatever older
\* connections do late, and nobody stays in a room that was removed.
THEOREM SeatsStayBacked == Spec => []SeatsAreBacked
<1>1. IInv => SeatsAreBacked
  <2>. SUFFICES ASSUME IInv PROVE SeatsAreBacked
    OBVIOUS
  <2>1. room.players \in Maps(Gamers, Seats)
    BY DEF IInv, GameType, Rooms
  <2>2. DOMAIN room.players \subseteq Gamers
    BY <2>1, MapsAre
  <2>3. \A s \in Socket : conn[s].joined => up /\ conn[s].channel = room.number
    BY DEF IInv, SeatInv
  <2>4. ASSUME NEW p \in Seated(room)
        PROVE  room.players[p].socket[1] = p /\ conn[room.players[p].socket].joined
    <3>1. p \in Gamers /\ SocketOf(room, p) = room.players[p].socket /\ SocketOf(room, p) # NoSocket
      BY <2>2 DEF Seated, SocketOf
    <3>. QED  BY <3>1 DEF IInv, SeatInv
  <2>5. ASSUME NEW p \in Gamers, latest[p] # NoSocket, conn[latest[p]].joined
        PROVE  p \in DOMAIN room.players /\ room.players[p].socket = latest[p]
    <3>1. SocketOf(room, p) = latest[p]
      BY <2>5 DEF IInv, SeatInv
    <3>. QED  BY <2>5, <3>1 DEF SocketOf
  <2>. QED  BY <2>3, <2>4, <2>5 DEF SeatsAreBacked, Gamers
<1>. QED  BY <1>1, Invariant, PTL

\* The page that owns a room can always come back to it as host, whatever answers of
\* the server were lost, and no other page becomes its host while the room lasts.
THEOREM HostsKeepTheirRooms == Spec => HostKeepsItsRoom
<1>1. IInv => (up => room.pending \/ capability[room.owner] = room.number)
  BY DEF IInv, HostInv
<1>2. IInv /\ [Next]_vars =>
        [up /\ up' /\ room'.number = room.number /\ room.host # Nobody
            => room'.host \in {room.host, Nobody}]_vars
  <2>. SUFFICES ASSUME IInv, [Next]_vars, up, up', room'.number = room.number,
                       room.host # Nobody
                PROVE  room'.host \in {room.host, Nobody}
    OBVIOUS
  <2>1. IInv' /\ room'.owner = room.owner
    BY Inductive DEF Kept, SameOwner
  <2>. QED  BY <2>1 DEF IInv, HostInv
<1>. QED  BY <1>1, <1>2, Invariant, PTL DEF Spec, HostKeepsItsRoom

\* What a room counts is what its players did, over any number of joins, reconnects,
\* leaves and clears: a question scores once, votes are of somebody in the room, and
\* a cloud has as many words as were accepted.
THEOREM TalliesAreRight == Spec => []TalliesAddUp
<1>1. CountInv => TalliesAddUp
  BY DEF CountInv, Sound, SeatsSound, SoundSeat, CloudSound, SumOf, TalliesAddUp
<1>. QED  BY <1>1, CountsHold, PTL

\* Rooms, seats, connections and browsers hold what they may hold.
THEOREM GamesAreWellTyped == Spec => []TypeOK
<1>1. IInv /\ CountInv => TypeOK
  <2>. SUFFICES ASSUME IInv, CountInv PROVE TypeOK
    OBVIOUS
  <2>1. room \in Rooms /\ Sound(room) /\ GameType
    BY DEF IInv, GameType, CountInv
  <2>2. /\ DOMAIN room.players \subseteq Gamers /\ \A p \in DOMAIN room.players : room.players[p] \in Seats
        /\ DOMAIN room.submissions \subseteq Gamers
    BY <2>1, MapsAre DEF Rooms
  <2>3. \A p \in DOMAIN room.players : room.players[p] \in Seat
    <3>1. ASSUME NEW x \in Seats, SoundSeat(x) PROVE x \in Seat
      BY <3>1 DEF Seats, Seat, SoundSeat
    <3>. QED  BY <2>1, <2>2, <3>1 DEF Sound, SeatsSound
  <2>4. room.number \in 0 .. MaxRooms /\ room.question \in 0 .. Questions
    BY <2>1, GameConstants DEF Rooms, Sound
  <2>5. conn \in [Socket -> [at : {"new", "dialled", "on", "off"}, joined : BOOLEAN,
                            channel : 0 .. MaxRooms, token : 0 .. MaxSessions,
                            capability : 0 .. MaxRooms, reply : 0 .. MaxSessions]]
    <3>. DEFINE C == [at : {"new", "dialled", "on", "off"}, joined : BOOLEAN,
                      channel : 0 .. MaxRooms, token : 0 .. MaxSessions,
                      capability : 0 .. MaxRooms, reply : 0 .. MaxSessions]
    <3>1. ASSUME NEW x \in Conns, ConnSound(x) PROVE x \in C
      BY <3>1, GameConstants DEF Conns, ConnSound
    <3>2. conn \in [Socket -> Conns]
      BY <2>1 DEF GameType
    <3>3. \A s \in Socket : conn[s] \in C
      BY <3>1, <3>2 DEF CountInv
    <3>. HIDE DEF C
    <3>4. conn \in [Socket -> C]
      BY <3>2, <3>3
    <3>. QED  BY <3>4 DEF C
  <2>6. stored \in [Person -> 0 .. MaxSessions] /\ issued \in [Person -> 0 .. MaxSessions]
    BY <2>1, GameConstants DEF GameType, CountInv
  <2>7. capability \in [Host -> 0 .. MaxRooms] /\ boot \in [Host -> 0 .. MaxRooms]
    <3>1. \A h \in Host : capability[h] \in 0 .. MaxRooms /\ boot[h] \in 0 .. MaxRooms
      BY <2>1, <2>4, GameConstants DEF GameType, IInv, HostInv
    <3>. QED  BY <2>1, <3>1 DEF GameType
  <2>8. cast \in Casts /\ kind \in Kinds /\ up \in BOOLEAN /\ latest \in [Person -> Socket \cup {NoSocket}]
    BY <2>1 DEF CountInv, GameType
  <2>. QED  BY <2>1, <2>2, <2>3, <2>4, <2>5, <2>6, <2>7, <2>8 DEF TypeOK, Rooms, Gamers
<1>. QED  BY <1>1, CountsHold, PTL

=============================================================================

-------------------------------- MODULE GameRooms --------------------------------
(***************************************************************************)
(* The room of one game of a deck: its seats, its host, what it counts and *)
(* the timers that reap it (server/services/                               *)
(* game-room-manager-singleton-service.js, game-socket-handler.js,         *)
(* presenter-game-bootstrap.js).                                           *)
(*                                                                         *)
(* The id of a game is the id of its element, so the rooms that follow     *)
(* each other under it are told apart by a number: the channel of a room   *)
(* and its capability belong to one of them.  Handlers are synchronous, a  *)
(* step each.  The old connection of a person who has reconnected may      *)
(* still be open at the server.                                            *)
(***************************************************************************)
EXTENDS Integers, FiniteSets, FiniteSetsExt

CONSTANTS
    Host,         \* presenter pages, each of a live room of its own
    Player,       \* players, by the playerId of their browser
    Observer,     \* pages that only watch the scores
    Nobody,       \* model value
    NoSocket,     \* model value
    Casts,        \* sets of persons who take part together
    Kinds,        \* gameTypes explored: "quiz", "poll", "matching", "cloud"
    Questions,    \* length of a quiz
    MaxWords,     \* maxSubmissionsPerPlayer
    MaxRooms,     \* bound: rooms created under the id
    MaxConns,     \* bound: connections of a person
    MaxDials,     \* bound: connections of all together
    MaxSessions   \* bound: session tokens of a person

Person == Host \cup Player \cup Observer
Socket == Person \X (1 .. MaxConns)

ASSUME GameConstants ==
    /\ Host \cap Player = {} /\ (Host \cup Player) \cap Observer = {}
    /\ Nobody \notin Person /\ NoSocket \notin Socket
    /\ Casts \subseteq SUBSET Person /\ \A c \in Casts : c \cap Host # {}
    /\ Kinds \subseteq {"quiz", "poll", "matching", "cloud"}
    /\ {Questions, MaxWords, MaxConns, MaxDials, MaxSessions} \subseteq Nat
    /\ MaxRooms \in Nat \ {0}

VARIABLES
    cast,      \* who takes part in this behaviour
    kind,      \* gameType
    up,        \* rooms has the id
    room,      \* the room, or the number of the last one
    conn,      \* the connections: currentGameId, membership, currentSessionToken, currentHostCapability
    stored,    \* the session token each browser has stored
    capability,\* the hostCapability each presenter page has stored
    boot,      \* the answer of game-bootstrap on its way to the presenter page
    issued,    \* session tokens created for each person
    latest     \* history: the connection that last took the seat of each person

vars == <<cast, kind, up, room, conn, stored, capability, boot, issued, latest>>
pages == <<stored, capability, boot>>

-----------------------------------------------------------------------------
NoRoom(n) ==
    [number |-> n, owner |-> Nobody, status |-> "waiting", players |-> <<>>, host |-> Nobody,
     hostSocket |-> NoSocket, question |-> 0, timer |-> "none", unclaimed |-> FALSE,
     pending |-> FALSE, votes |-> {}, submissions |-> <<>>, words |-> 0]

\* createRoom(): the capability stays pending, and the room is reaped when no
\* host claims it.
NewRoom(n, h) == [NoRoom(n) EXCEPT !.owner = h, !.pending = TRUE, !.unclaimed = TRUE]

Seat == [socket : Socket \cup {NoSocket}, session : 1 .. MaxSessions,
         score : Nat, answered : SUBSET (1 .. Questions)]

Gone == [at |-> "off", joined |-> FALSE, channel |-> 0, token |-> 0, capability |-> 0, reply |-> 0]

TypeOK ==
    /\ cast \in Casts /\ kind \in Kinds /\ up \in BOOLEAN
    /\ room.number \in 0 .. MaxRooms /\ room.owner \in Host \cup {Nobody}
    /\ room.status \in {"waiting", "active", "finished"}
    /\ DOMAIN room.players \subseteq Host \cup Player
    /\ \A p \in DOMAIN room.players : room.players[p] \in Seat
    /\ room.host \in Host \cup {Nobody} /\ room.hostSocket \in Socket \cup {NoSocket}
    /\ room.question \in 0 .. Questions /\ room.timer \in {"none", "empty", "finished"}
    /\ {room.unclaimed, room.pending} \subseteq BOOLEAN
    /\ DOMAIN room.submissions \subseteq Host \cup Player /\ room.words \in Nat
    /\ conn \in [Socket -> [at : {"new", "dialled", "on", "off"}, joined : BOOLEAN,
                            channel : 0 .. MaxRooms, token : 0 .. MaxSessions,
                            capability : 0 .. MaxRooms, reply : 0 .. MaxSessions]]
    /\ stored \in [Person -> 0 .. MaxSessions] /\ issued \in [Person -> 0 .. MaxSessions]
    /\ capability \in [Host -> 0 .. MaxRooms] /\ boot \in [Host -> 0 .. MaxRooms]
    /\ latest \in [Person -> Socket \cup {NoSocket}]

\* Somebody has begun to present the deck; the answer of the first
\* game-bootstrap is on its way.  Without players the shortest game is enough.
Presenting == CHOOSE h \in cast \cap Host : TRUE

Init ==
    /\ cast \in Casts /\ kind \in Kinds
    /\ cast \cap Player = {} => kind = "matching"
    /\ up = TRUE /\ room = NewRoom(1, Presenting)
    /\ conn = [s \in Socket |-> [Gone EXCEPT !.at = "new"]]
    /\ stored = [p \in Person |-> 0] /\ issued = [p \in Person |-> 0]
    /\ capability = [h \in Host |-> 0] /\ boot = [h \in Host |-> IF h = Presenting THEN 1 ELSE 0]
    /\ latest = [p \in Person |-> NoSocket]

-----------------------------------------------------------------------------
(* Occupancy and the end of a room *)

Seated(r) == {p \in DOMAIN r.players : r.players[p].socket # NoSocket}
Unoccupied(r) == Seated(r) = {}

\* Mutant: the grace of an emptied room is only for rooms without a host.
EmptyCleanupUnclaimedOnly(r) ==
    IF r.status = "finished" \/ ~Unoccupied(r) \/ r.host # Nobody THEN r ELSE [r EXCEPT !.timer = "empty"]

\* scheduleEmptyCleanup()
EmptyCleanup(r) ==
    IF r.status = "finished" \/ ~Unoccupied(r) THEN r ELSE [r EXCEPT !.timer = "empty"]

\* The cleanup listener: every member of the channel forgets the room.
CutOff(n) ==
    [s \in Socket |-> IF conn[s].channel = n /\ conn[s].at = "on"
                      THEN [Gone EXCEPT !.at = "on"] ELSE conn[s]]

\* cleanup()
Cleanup ==
    /\ up /\ up' = FALSE /\ room' = NoRoom(room.number) /\ conn' = CutOff(room.number)
    /\ UNCHANGED <<cast, kind, pages, issued, latest>>

CleanupFires == room.timer # "none" /\ Cleanup
UnclaimedFires == room.unclaimed /\ Cleanup

-----------------------------------------------------------------------------
(* The presenter pages: game-bootstrap *)

\* canReplaceUnoccupiedRoom()
Replaceable(h) == room.owner # h /\ ~room.pending /\ Unoccupied(room)

\* Mutant: the owner of a room is not compared.
CapabilityForAnybody(h) == up /\ (room.pending \/ capability[h] = room.number)

\* The capability is given while it is pending, and to who knows it.
CapabilityFor(h) == up /\ room.owner = h /\ (room.pending \/ capability[h] = room.number)

Bootstrap(h) ==
    /\ h \in cast /\ boot[h] = 0
    /\ \/ /\ ~up \/ Replaceable(h)
          /\ room.number < MaxRooms
          /\ up' = TRUE /\ room' = NewRoom(room.number + 1, h)
          /\ conn' = IF up THEN CutOff(room.number) ELSE conn
          /\ boot' = [boot EXCEPT ![h] = room.number + 1]
       \/ /\ CapabilityFor(h) /\ boot' = [boot EXCEPT ![h] = room.number]
          /\ UNCHANGED <<up, room, conn>>
    /\ UNCHANGED <<cast, kind, stored, capability, issued, latest>>

BootAnswered(h) ==
    /\ boot[h] # 0 /\ boot' = [boot EXCEPT ![h] = 0]
    /\ capability' = [capability EXCEPT ![h] = boot[h]]
    /\ UNCHANGED <<cast, kind, up, room, conn, stored, issued, latest>>

\* The page asks again when it gets no answer.
BootLost(h) ==
    /\ boot[h] # 0 /\ boot' = [boot EXCEPT ![h] = 0]
    /\ UNCHANGED <<cast, kind, up, room, conn, stored, capability, issued, latest>>

-----------------------------------------------------------------------------
(* game-join *)

\* A page connects, again or for another tab, with what its browser has stored.
Dial(s) ==
    LET p == s[1] IN
    /\ p \in cast /\ conn[s].at = "new" /\ \A i \in 1 .. s[2] - 1 : conn[<<p, i>>].at # "new"
    /\ Cardinality({t \in Socket : conn[t].at # "new"}) < MaxDials
    /\ p \in Host => capability[p] # 0
    /\ conn' = [conn EXCEPT ![s].at = "dialled", ![s].token = stored[p],
                            ![s].capability = IF p \in Host THEN capability[p] ELSE 0]
    /\ UNCHANGED <<cast, kind, up, room, pages, issued, latest>>

\* hasValidHostCapability()
Entitled(p, c) == p \in Host /\ c = room.number

\* The host of the room gets a new session for its capability.
Recovers(p, c) == p \in DOMAIN room.players /\ Entitled(p, c) /\ room.host = p

Admitted(p, token, c) ==
    /\ up
    /\ p \in Host => Entitled(p, c)
    /\ p \in DOMAIN room.players =>
          /\ p \in Host => room.host \in {Nobody, p}
          /\ token = room.players[p].session \/ Recovers(p, c)

With(f, x, y) == [z \in DOMAIN f \cup {x} |-> IF z = x THEN y ELSE f[z]]

NewSeat == [socket |-> NoSocket, session |-> 1, score |-> 0, answered |-> {}]

\* Mutant: a player who comes back does not cancel the grace of the emptied room.
TakenTimerKept(r, p, s, session) ==
    LET seat == IF p \in DOMAIN r.players THEN r.players[p] ELSE NewSeat
        q == [r EXCEPT !.players = With(@, p, [seat EXCEPT !.socket = s, !.session = session])]
    IN IF p \notin Host THEN q
       ELSE [q EXCEPT !.unclaimed = FALSE, !.pending = FALSE, !.host = p, !.hostSocket = s]

\* joinRoom(): the seat is kept with its score; a host claims the capability.
Taken(r, p, s, session) ==
    LET seat == IF p \in DOMAIN r.players THEN r.players[p] ELSE NewSeat
        q == [r EXCEPT !.timer = IF @ = "empty" THEN "none" ELSE @,
                       !.players = With(@, p, [seat EXCEPT !.socket = s, !.session = session])]
    IN IF p \notin Host THEN q
       ELSE [q EXCEPT !.unclaimed = FALSE, !.pending = FALSE, !.host = p, !.hostSocket = s]

JoinWith(s, token, c) ==
    LET p == s[1]
        session == IF p \in DOMAIN room.players /\ ~Recovers(p, c)
                   THEN room.players[p].session ELSE issued[p] + 1
    IN /\ Admitted(p, token, c) /\ session <= MaxSessions
       /\ room' = Taken(room, p, s, session)
       /\ conn' = [conn EXCEPT ![s] = [at |-> "on", joined |-> TRUE, channel |-> room.number,
                                       token |-> session, capability |-> c, reply |-> session]]
       /\ issued' = [issued EXCEPT ![p] = IF session > @ THEN session ELSE @]
       /\ latest' = [latest EXCEPT ![p] = s]
       /\ UNCHANGED <<cast, kind, up, pages>>

Join(s) ==
    /\ conn[s].at = "dialled" /\ s[1] \notin Observer
    /\ \/ JoinWith(s, conn[s].token, conn[s].capability)
       \/ /\ ~Admitted(s[1], conn[s].token, conn[s].capability)
          /\ conn' = [conn EXCEPT ![s] = [Gone EXCEPT !.at = "on"]]
          /\ UNCHANGED <<cast, kind, up, room, pages, issued, latest>>

\* The presenter page joins again on its connection after a bootstrap.
Rejoin(s) ==
    /\ s[1] \in Host /\ conn[s].at = "on" /\ JoinWith(s, stored[s[1]], capability[s[1]])

\* observeRoom()
Observe(s) ==
    /\ conn[s].at = "dialled" /\ s[1] \in Observer
    /\ conn' = [conn EXCEPT ![s] = IF up THEN [Gone EXCEPT !.at = "on", !.joined = TRUE, !.channel = room.number]
                                   ELSE [Gone EXCEPT !.at = "on"]]
    /\ UNCHANGED <<cast, kind, up, room, pages, issued, latest>>

\* game-session
Receive(s) ==
    /\ conn[s].reply # 0 /\ conn' = [conn EXCEPT ![s].reply = 0]
    /\ stored' = [stored EXCEPT ![s[1]] = conn[s].reply]
    /\ UNCHANGED <<cast, kind, up, room, capability, boot, issued, latest>>

-----------------------------------------------------------------------------
(* game-leave and disconnect *)

\* Mutant: a late disconnect frees the seat of the connection that replaced it.
FreedByAnybody(r, s) ==
    IF s[1] \notin DOMAIN r.players THEN r
    ELSE [r EXCEPT !.players[s[1]].socket = NoSocket,
                   !.hostSocket = IF @ = s THEN NoSocket ELSE @]

\* disconnectRoom()
Freed(r, s) ==
    IF s[1] \notin DOMAIN r.players \/ r.players[s[1]].socket # s THEN r
    ELSE [r EXCEPT !.players[s[1]].socket = NoSocket,
                   !.hostSocket = IF @ = s THEN NoSocket ELSE @]

Disconnect(s) ==
    /\ conn[s].at \in {"dialled", "on"} /\ conn' = [conn EXCEPT ![s] = Gone]
    /\ room' = IF conn[s].joined /\ up THEN EmptyCleanup(Freed(room, s)) ELSE room
    /\ UNCHANGED <<cast, kind, up, pages, issued, latest>>

Holds(s) == /\ up /\ conn[s].joined /\ s[1] \in DOMAIN room.players
            /\ room.players[s[1]].socket = s /\ room.players[s[1]].session = conn[s].token

\* leaveRoom(): the submissions to a word cloud stay counted.
Vacated(r, s) ==
    [r EXCEPT !.players = [p \in DOMAIN @ \ {s[1]} |-> @[p]],
              !.host = IF @ = s[1] /\ r.hostSocket = s THEN Nobody ELSE @,
              !.hostSocket = IF r.host = s[1] /\ @ = s THEN NoSocket ELSE @,
              !.votes = @ \ {s[1]}]

Leave(s) ==
    /\ conn[s].joined
    /\ \/ s[1] \in Observer /\ room' = IF up THEN EmptyCleanup(room) ELSE room
       \/ Holds(s) /\ room' = EmptyCleanup(Vacated(room, s))
    /\ conn' = [conn EXCEPT ![s] = [Gone EXCEPT !.at = "on"]]
    /\ UNCHANGED <<cast, kind, up, pages, issued, latest>>

-----------------------------------------------------------------------------
(* The game *)

\* isHost()
IsHost(s) == /\ Holds(s) /\ room.host = s[1] /\ room.hostSocket = s
             /\ Entitled(s[1], conn[s].capability)

Play(r) == room' = r /\ UNCHANGED <<cast, kind, up, conn, pages, issued, latest>>

\* activateRoom(), of a poll, a word cloud or a matching game.
Start(s) ==
    /\ IsHost(s) /\ kind # "quiz"
    /\ Play([room EXCEPT !.status = "active", !.timer = "none",
                         !.votes = IF kind = "matching" THEN {} ELSE @])

\* endGame()
Ended(r) == [r EXCEPT !.status = "finished", !.unclaimed = FALSE, !.timer = "finished"]

End(s) == IsHost(s) /\ Play(Ended(room))

\* Mutant: one question too many.
NextQuestionPastEnd(s) ==
    /\ IsHost(s) /\ kind = "quiz" /\ Questions > 0
    /\ Play(IF room.question > Questions THEN Ended(room)
            ELSE [room EXCEPT !.question = @ + 1, !.status = "active"])

\* nextQuestion(): a quiz without questions stays as it is.
NextQuestion(s) ==
    /\ IsHost(s) /\ kind = "quiz" /\ Questions > 0
    /\ Play(IF room.question = Questions THEN Ended(room)
            ELSE [room EXCEPT !.question = @ + 1, !.status = "active"])

\* Mutant: the second answer of a reconnected player counts.
UnansweredAlways(r, p) == TRUE

Unanswered(r, p) == r.question \notin r.players[p].answered

Scored(seat, n, points) == [seat EXCEPT !.score = @ + points, !.answered = @ \cup {n}]

\* submitAnswer(), right or wrong.
Answer(s) ==
    /\ Holds(s) /\ kind = "quiz" /\ room.question > 0 /\ room.status # "finished"
    /\ Unanswered(room, s[1])
    /\ \E points \in 0 .. 1 :
          Play([room EXCEPT !.players[s[1]] = Scored(@, room.question, points)])

\* submitPollVote(), submitMatchingPairs()
Vote(s) ==
    /\ Holds(s) /\ kind \in {"poll", "matching"} /\ room.status = "active"
    /\ Play([room EXCEPT !.votes = @ \cup {s[1]}])

Submitted(r, p) == IF p \in DOMAIN r.submissions THEN r.submissions[p] ELSE 0

\* submitWordCloudText()
SubmitWord(s) ==
    /\ Holds(s) /\ kind = "cloud" /\ room.status = "active"
    /\ Submitted(room, s[1]) < MaxWords
    /\ Play([room EXCEPT !.submissions = With(@, s[1], Submitted(room, s[1]) + 1), !.words = @ + 1])

\* clearWordCloud()
ClearWords(s) ==
    /\ IsHost(s) /\ kind = "cloud" /\ Play([room EXCEPT !.submissions = <<>>, !.words = 0])

-----------------------------------------------------------------------------
Next ==
    \/ \E h \in Host : Bootstrap(h) \/ BootAnswered(h) \/ BootLost(h)
    \/ \E s \in Socket :
          \/ Dial(s) \/ Join(s) \/ Rejoin(s) \/ Observe(s) \/ Receive(s) \/ Disconnect(s) \/ Leave(s)
          \/ Start(s) \/ End(s) \/ NextQuestion(s) \/ Answer(s) \/ Vote(s) \/ SubmitWord(s) \/ ClearWords(s)
    \/ CleanupFires \/ UnclaimedFires

Spec == Init /\ [][Next]_vars

\* Node fires its timers.
FairSpec == Spec /\ WF_vars(CleanupFires) /\ WF_vars(UnclaimedFires)

-----------------------------------------------------------------------------
\* A room without a connected player has a timer that removes it, an occupied room
\* never waits for the grace of an emptied one, and an ended game has its timer,
\* however joins, disconnects and ends follow each other (scheduleEmptyCleanup(),
\* joinRoom(), endGame()).
ReaperFollowsOccupancy ==
    up => /\ Unoccupied(room) => room.timer # "none" \/ room.unclaimed
          /\ room.timer = "empty" => Unoccupied(room)
          /\ room.status = "finished" => room.timer = "finished"

\* A taken seat belongs to an open connection of that person, and whoever has
\* joined has joined the room that is there now: nobody keeps a room alive from
\* outside, and nobody plays on in a removed one (the cleanup listener).  The
\* connection that joined last for a person has the seat as long as it is in the
\* room, even when the disconnect or the leave of an older one comes late
\* (disconnectRoom(), leaveRoom()).
SeatsAreBacked ==
    /\ \A s \in Socket : conn[s].joined => up /\ conn[s].channel = room.number
    /\ \A p \in Seated(room) : room.players[p].socket[1] = p /\ conn[room.players[p].socket].joined
    /\ \A p \in Host \cup Player :
          latest[p] # NoSocket /\ conn[latest[p]].joined
             => p \in DOMAIN room.players /\ room.players[p].socket = latest[p]

\* The page that owns a room can come back to it as host: either the capability is
\* still pending or the page has stored it, whatever answers were lost; and no
\* other page becomes the host of that room while it lasts
\* (bootstrapPresenterGames(): pending capability, owner and occupancy checks).
HostKeepsItsRoom ==
    /\ [](up => room.pending \/ capability[room.owner] = room.number)
    /\ [][up /\ up' /\ room'.number = room.number /\ room.host # Nobody
             => room'.host \in {room.host, Nobody}]_vars

\* What a room counts is what its players did: a question scores once, every vote
\* is one of somebody in the room, and a cloud has as many words as were accepted,
\* at most maxSubmissionsPerPlayer each, across reconnects, leaves and clears.
TalliesAddUp ==
    /\ \A p \in DOMAIN room.players :
          room.players[p].score <= Cardinality(room.players[p].answered)
    /\ room.votes \subseteq DOMAIN room.players
    /\ room.words = MapThenSumSet(LAMBDA p : room.submissions[p], DOMAIN room.submissions)
    /\ \A p \in DOMAIN room.submissions : room.submissions[p] <= MaxWords

\* A deserted room and the room of an ended game are removed, unless somebody
\* joins or the host starts again.
RoomsEnd == (up /\ (Unoccupied(room) \/ room.status = "finished"))
               ~> ~(up /\ (Unoccupied(room) \/ room.status = "finished"))

=============================================================================

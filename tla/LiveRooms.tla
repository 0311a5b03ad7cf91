-------------------------------- MODULE LiveRooms --------------------------------
(***************************************************************************)
(* One room of a live presentation: who is in it, which deck its members   *)
(* see, its countdown, and the timers that end it                          *)
(* (server/services/live-rooms.js, services/socket-handler.js,             *)
(* routes/live.js).                                                        *)
(*                                                                         *)
(* A socket is one connection: it joins once, in the role of its page, and *)
(* a page that reconnects is another socket.  The handler of join-room     *)
(* reads decks with await; every action between two awaits is one step.    *)
(***************************************************************************)
EXTENDS Integers, FiniteSets

CONSTANTS
    Presenter,     \* sockets that join as presenter
    Speaker,       \* sockets that join as speaker
    Viewer,        \* sockets that join as viewer or remote
    Deck,          \* presentations
    Nobody,        \* model value: no presenter
    NoDeck,        \* model value: no presentation
    Workloads,     \* what is explored: a countdown, or more than one deck
    MaxControls    \* bound: commands to the countdown

Socket == Presenter \cup Speaker \cup Viewer
Member == Speaker \cup Viewer

ASSUME LiveConstants ==
    /\ NoDeck \notin Deck /\ Nobody \notin Socket
    /\ Presenter \cap Member = {} /\ Speaker \cap Viewer = {} /\ MaxControls \in Nat
    /\ Workloads \subseteq {"clock", "decks"} /\ Deck # {}

VARIABLES
    workload,   \* the workload of this behaviour
    up,         \* rooms has the code of the room
    room,       \* its presenter, members, presentationGeneration, presentationId and timers
    clock,      \* its countdown: state, timerTimeouts entry and pending timeouts
    socket,     \* each connection: "new", "on" or "off"
    joined,     \* socketToRoom
    handler,    \* the join-room handler of each socket
    shown,      \* the deck each client shows
    controls    \* bound: commands so far

vars == <<workload, up, room, clock, socket, joined, handler, shown, controls>>

-----------------------------------------------------------------------------
NoHandler == [at |-> "idle", gen |-> 0, deck |-> NoDeck, presenter |-> Nobody, todo |-> {}]

TypeOK ==
    /\ workload \in Workloads /\ up \in BOOLEAN
    /\ socket \in [Socket -> {"new", "on", "off"}] /\ joined \subseteq Socket
    /\ room \in [presenter : Presenter \cup {Nobody}, members : SUBSET Member, gen : Nat,
                 deck : Deck \cup {NoDeck}, cleanup : BOOLEAN, grace : BOOLEAN]
    /\ clock \in [at : {"none", "running", "paused", "over"}, slot : BOOLEAN, pending : 0 .. 1]
    /\ handler \in [Socket -> [at : {"idle", "load", "emit", "deck"}, gen : Nat,
                               deck : Deck \cup {NoDeck}, presenter : Presenter \cup {Nobody},
                               todo : SUBSET Socket]]
    /\ shown \in [Socket -> Deck \cup {NoDeck}]
    /\ controls \in 0 .. MaxControls

NoClock == [at |-> "none", slot |-> FALSE, pending |-> 0]

\* registerRoom(): the room waits for somebody, and is removed when nobody comes.
Init ==
    /\ workload \in Workloads /\ up = TRUE
    /\ room = [presenter |-> Nobody, members |-> {}, gen |-> 0, deck |-> NoDeck,
               cleanup |-> TRUE, grace |-> FALSE]
    /\ clock = NoClock /\ socket = [s \in Socket |-> "new"] /\ joined = {}
    /\ handler = [s \in Socket |-> NoHandler]
    /\ shown = [s \in Socket |-> NoDeck] /\ controls = 0

-----------------------------------------------------------------------------
(* The countdown *)

\* Mutant: the entry is dropped without clearTimeout().
DisarmedSlotOnly(k) == [k EXCEPT !.slot = FALSE]

Disarmed(k) == [k EXCEPT !.slot = FALSE, !.pending = IF k.slot THEN @ - 1 ELSE @]

\* armTimerEnd(): a timeout for the remaining time, or the end at once.
Armed(k) == [k EXCEPT !.slot = TRUE, !.pending = @ + 1]
Ended(k) == [k EXCEPT !.at = "over"]

CanControl(s) == up /\ s \in joined
                 /\ (s = room.presenter \/ (s \in room.members \cap Speaker /\ room.presenter # Nobody))

Control(s) ==
    /\ workload = "clock" /\ socket[s] = "on" /\ CanControl(s) /\ controls < MaxControls /\ controls' = controls + 1
    /\ UNCHANGED <<workload, up, room, socket, joined, handler, shown>>

StartClock(s) == Control(s) /\ clock' = Armed(Disarmed([clock EXCEPT !.at = "running"]))

PauseClock(s) ==
    /\ Control(s) /\ clock.at = "running"
    /\ \E at \in {"paused", "over"} : clock' = Disarmed([clock EXCEPT !.at = at])

ResumeClock(s) ==
    /\ Control(s)
    /\ \/ clock.at = "paused" /\ clock' = Armed([clock EXCEPT !.at = "running"])
       \/ clock.at = "over" /\ clock' = Ended(clock)

\* The new end of a running countdown is at least a second away; one without a
\* timeout is not armed here.
AdjustClock(s) ==
    /\ Control(s) /\ clock.at # "none"
    /\ \/ clock.at = "running" /\ clock' = IF clock.slot THEN Armed(Disarmed(clock)) ELSE clock
       \/ clock.at \in {"paused", "over"} /\ \E at \in {"paused", "over"} : clock' = [clock EXCEPT !.at = at]

StopClock(s) == Control(s) /\ clock' = Disarmed([clock EXCEPT !.at = "none"])

ClockFires ==
    /\ clock.pending > 0
    /\ clock' = [clock EXCEPT !.pending = @ - 1, !.slot = FALSE,
                              !.at = IF @ = "running" THEN "over" ELSE @]
    /\ UNCHANGED <<workload, up, room, socket, joined, handler, shown, controls>>

-----------------------------------------------------------------------------
(* The end of a room *)

\* removeRoom(): clears its timers and forgets its sockets.
RemoveRoom ==
    /\ up' = FALSE /\ joined' = {}
    /\ room' = [room EXCEPT !.cleanup = FALSE, !.grace = FALSE]
    /\ clock' = Disarmed(clock)
    /\ UNCHANGED <<workload, socket, handler, shown, controls>>

CleanupFires == up /\ room.cleanup /\ RemoveRoom
GraceExpires == up /\ room.grace /\ RemoveRoom
EndRoom == up /\ RemoveRoom

Orphaned(r) == r.presenter = Nobody /\ r.members = {}

\* Mutant: the last member to leave starts no timer.
KeptForever(r) == r

\* maybeScheduleRoomCleanup()
MaybeCleanup(r) == IF ~r.grace /\ Orphaned(r) THEN [r EXCEPT !.cleanup = TRUE] ELSE r

\* leaveRoom(): the presenter leaves the room to its members for a while.
Left(r, s) ==
    IF r.presenter = s THEN [r EXCEPT !.presenter = Nobody, !.grace = TRUE]
    ELSE IF s \in Presenter THEN r
    ELSE MaybeCleanup([r EXCEPT !.members = @ \ {s}])

Disconnect(s) ==
    /\ socket[s] = "on" /\ socket' = [socket EXCEPT ![s] = "off"]
    /\ joined' = joined \ {s}
    /\ IF s \in joined
       THEN /\ room' = Left(room, s)
            /\ clock' = IF room.presenter = s THEN Disarmed(clock) ELSE clock
       ELSE UNCHANGED <<room, clock>>
    /\ shown' = [shown EXCEPT ![s] = NoDeck]
    /\ UNCHANGED <<workload, up, handler, controls>>

-----------------------------------------------------------------------------
(* join-room *)

Connect(s) == socket[s] = "new" /\ socket' = [socket EXCEPT ![s] = "on"]

\* Mutant: a payload is sent to the room whatever it presents by now.
CanEmitAnyway(h) == up

\* The room, the generation, the deck and the presenter are still those the
\* handler has read.
CanEmit(h) ==
    up /\ room.gen = h.gen /\ room.deck = h.deck /\ room.presenter = h.presenter
Current(s) == up /\ room.gen = handler[s].gen /\ s \in joined
              /\ (s \in Presenter => room.presenter = s)

\* Mutant: the join of a successor does not re-arm.
NeverRearmed(k) == {k}

\* The end of a presenter's join: countdowns that lost their timeout with the
\* former presenter get one, or end if their time has passed.
Rearmed(k) == IF k.at = "running" /\ ~k.slot THEN {Armed(k), Ended(k)} ELSE {k}

FinishJoin(s) ==
    /\ handler' = [handler EXCEPT ![s] = NoHandler]
    /\ clock' \in IF Current(s) /\ s \in Presenter THEN Rearmed(clock) ELSE {clock}

JoinAsPresenter(s, d) ==
    /\ Connect(s) /\ s \in Presenter /\ up
    /\ workload = "clock" => d = CHOOSE x \in Deck : TRUE
    /\ joined' = joined \cup {s}
    /\ room' = [room EXCEPT !.presenter = s, !.gen = @ + 1, !.deck = NoDeck,
                            !.grace = FALSE, !.cleanup = FALSE]
    /\ handler' = [handler EXCEPT ![s] = [at |-> "load", gen |-> room.gen + 1, deck |-> d,
                                          presenter |-> s, todo |-> {}]]
    /\ UNCHANGED <<workload, up, clock, shown, controls>>

JoinAsMember(s) ==
    /\ Connect(s) /\ s \in Member /\ up
    /\ workload = "clock" => s \in Speaker
    /\ joined' = joined \cup {s}
    /\ room' = [room EXCEPT !.members = @ \cup {s}, !.cleanup = FALSE]
    /\ IF room.deck = NoDeck
       THEN UNCHANGED handler
       ELSE handler' = [handler EXCEPT ![s] = [at |-> "deck", gen |-> room.gen, deck |-> room.deck,
                                               presenter |-> room.presenter, todo |-> {}]]
    /\ UNCHANGED <<workload, up, clock, shown, controls>>

JoinRefused(s) ==
    /\ Connect(s) /\ ~up /\ UNCHANGED <<workload, up, room, clock, joined, handler, shown, controls>>

\* The deck of the presenter is read, or cannot be read.
PresenterLoads(s) ==
    /\ handler[s].at = "load"
    /\ \/ /\ up /\ room.presenter = s /\ room.gen = handler[s].gen
          /\ room' = [room EXCEPT !.deck = handler[s].deck]
          /\ handler' = [handler EXCEPT ![s].at = "emit", ![s].todo = {s} \cup room.members]
          /\ UNCHANGED clock
       \/ FinishJoin(s) /\ UNCHANGED room
    /\ UNCHANGED <<workload, up, socket, joined, shown, controls>>

Displayed(r, h) == IF socket[r] = "on" /\ CanEmit(h) THEN [shown EXCEPT ![r] = h.deck] ELSE shown

\* emitRoomPresentation(): one recipient after the other, the presenter first and
\* the viewers last.
NextRecipients(todo) ==
    IF todo \cap Presenter # {} THEN todo \cap Presenter
    ELSE IF todo \cap Speaker # {} THEN todo \cap Speaker ELSE todo

EmitTo(s, r) ==
    /\ handler[s].at = "emit" /\ r \in NextRecipients(handler[s].todo)
    /\ shown' = Displayed(r, handler[s])
    /\ IF handler[s].todo = {r} THEN FinishJoin(s)
       ELSE handler' = [handler EXCEPT ![s].todo = @ \ {r}] /\ UNCHANGED clock
    /\ UNCHANGED <<workload, up, room, socket, joined, controls>>

MemberLoads(s) ==
    /\ handler[s].at = "deck"
    /\ shown' = Displayed(s, handler[s]) /\ FinishJoin(s)
    /\ UNCHANGED <<workload, up, room, socket, joined, controls>>

-----------------------------------------------------------------------------
JoinStep(s) == PresenterLoads(s) \/ MemberLoads(s) \/ \E r \in Socket : EmitTo(s, r)

Next ==
    \/ \E s \in Socket :
          \/ (\E d \in Deck : JoinAsPresenter(s, d)) \/ JoinAsMember(s) \/ JoinRefused(s) \/ Disconnect(s) \/ JoinStep(s)
          \/ StartClock(s) \/ PauseClock(s) \/ ResumeClock(s) \/ AdjustClock(s) \/ StopClock(s)
    \/ ClockFires \/ CleanupFires \/ GraceExpires \/ EndRoom

Spec == Init /\ [][Next]_vars

-----------------------------------------------------------------------------
Settled == \A s \in Socket : handler[s].at = "idle"

\* A room nobody is in has a timer that removes it, a room somebody is in is
\* never reaped for being empty, and no departed socket keeps a room alive
\* (maybeScheduleRoomCleanup(), leaveRoom(), removeRoom()).
ReaperFollowsOccupancy ==
    /\ up /\ Orphaned(room) => room.cleanup \/ room.grace
    /\ room.cleanup => Orphaned(room)
    /\ up => room.members \cup ({room.presenter} \ {Nobody}) \subseteq joined
    /\ \A s \in joined : up /\ socket[s] = "on"

\* Once no join is being handled, everybody in a presented room shows the deck of
\* its presenter, however presenters replaced each other and payloads were delayed
\* (emitRoomPresentation(), the canEmit checks).
MembersShowTheDeck ==
    up /\ Settled /\ room.presenter # Nobody /\ room.deck # NoDeck
       => \A s \in room.members \cup {room.presenter} : shown[s] = room.deck

\* A running countdown has exactly one timeout while its presenter is there and
\* has joined; a countdown that does not run has none (leaveRoom() clears them,
\* the join re-arms them).
RunningClockIsArmed ==
    /\ clock.pending = IF clock.slot THEN 1 ELSE 0
    /\ clock.slot => up /\ clock.at = "running" /\ room.presenter # Nobody
    /\ up /\ clock.at = "running" /\ room.presenter # Nobody /\ ~clock.slot
          => handler[room.presenter].at # "idle"

=============================================================================

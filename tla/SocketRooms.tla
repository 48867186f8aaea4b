---------------------------- MODULE SocketRooms -----------------------------
(***************************************************************************)
(* The WebSocket rooms of one application process                          *)
(* (websocket/socket.server.ts).  Node.js runs each handler to its end, so *)
(* every handler is one action.  AppServer composes them with the adapter  *)
(* that feeds them and the shutdown that ends them.                        *)
(***************************************************************************)
EXTENDS FiniteSets

CONSTANTS Socket,    \* client connections
          Event      \* ticketed events; a room is named by its event

VARIABLES
    conn,      \* conn[s]: "none", or the socket's readyState
    mute,      \* mute[s]: the peer is gone without a word (half-open)
    alive,     \* alive[s]: isAlive of the socket's state
    topics,    \* topics[s]: eventIds of the socket's state
    rooms      \* the Map from event to the sockets in its room

roomVars == <<conn, mute, alive, topics, rooms>>

ReadyState == {"open", "closing", "closed"}

SocketTypeOK ==
    /\ conn \in [Socket -> ReadyState \cup {"none"}]
    /\ mute \in [Socket -> BOOLEAN]
    /\ alive \in [Socket -> BOOLEAN]
    /\ topics \in [Socket -> SUBSET Event]
    /\ DOMAIN rooms \subseteq Event
    /\ \A e \in DOMAIN rooms : rooms[e] \subseteq Socket /\ rooms[e] # {}

SocketInit ==
    /\ conn = [s \in Socket |-> "none"]
    /\ mute = [s \in Socket |-> FALSE]
    /\ alive = [s \in Socket |-> FALSE]
    /\ topics = [s \in Socket |-> {}]
    /\ rooms = [e \in {} |-> {}]

Clients == {s \in Socket : conn[s] \in {"open", "closing"}}

\* The sockets in the room of e; no room is an empty one.
Room(e) == IF e \in DOMAIN rooms THEN rooms[e] ELSE {}

\* The Map with `members` in the room of e; a room that runs empty is deleted.
WithRoom(e, members) ==
    [d \in {f \in DOMAIN rooms \cup {e} : f # e \/ members # {}} |->
        IF d = e THEN members ELSE rooms[d]]

\* (A faulty variant: a socket that leaves forgets only its own list.)
RemoveFromListOnly(S) ==
    /\ topics' = [s \in Socket |-> IF s \in S THEN {} ELSE topics[s]]
    /\ UNCHANGED rooms

\* removeFromRooms, for every socket of S: out of each room its state lists.
RemoveFromRooms(S) ==
    LET Staying(e) == {s \in rooms[e] : s \notin S \/ e \notin topics[s]}
    IN  /\ rooms' = [e \in {d \in DOMAIN rooms : Staying(d) # {}} |-> Staying(e)]
        /\ topics' = [s \in Socket |-> IF s \in S THEN {} ELSE topics[s]]

-----------------------------------------------------------------------------
\* The upgrade and 'connection' handlers.
Connect(s) ==
    /\ conn[s] = "none"
    /\ conn' = [conn EXCEPT ![s] = "open"]
    /\ alive' = [alive EXCEPT ![s] = TRUE]
    /\ UNCHANGED <<mute, topics, rooms>>

\* The peer vanishes without closing: no pong, frame or close from it again.
PeerVanishes(s) ==
    /\ conn[s] = "open"
    /\ mute' = [mute EXCEPT ![s] = TRUE]
    /\ UNCHANGED <<conn, alive, topics, rooms>>

Pong(s) ==
    /\ s \in Clients /\ ~mute[s]
    /\ alive' = [alive EXCEPT ![s] = TRUE]
    /\ UNCHANGED <<conn, mute, topics, rooms>>

\* (A faulty variant: each subscription makes the room anew.)
SubscribeAlone(s, e) ==
    /\ s \in Clients /\ ~mute[s]
    /\ rooms' = WithRoom(e, {s})
    /\ topics' = [topics EXCEPT ![s] = @ \cup {e}]
    /\ UNCHANGED <<conn, mute, alive>>

\* Frames still arrive while a socket is closing.
Subscribe(s, e) ==
    /\ s \in Clients /\ ~mute[s]
    /\ rooms' = WithRoom(e, Room(e) \cup {s})
    /\ topics' = [topics EXCEPT ![s] = @ \cup {e}]
    /\ UNCHANGED <<conn, mute, alive>>

\* (A faulty variant: a room that runs empty stays in the Map.)
UnsubscribeKeepsRoom(s, e) ==
    /\ s \in Clients /\ ~mute[s]
    /\ rooms' = [d \in DOMAIN rooms |-> IF d = e THEN rooms[d] \ {s} ELSE rooms[d]]
    /\ topics' = [topics EXCEPT ![s] = @ \ {e}]
    /\ UNCHANGED <<conn, mute, alive>>

Unsubscribe(s, e) ==
    /\ s \in Clients /\ ~mute[s]
    /\ rooms' = WithRoom(e, Room(e) \ {s})
    /\ topics' = [topics EXCEPT ![s] = @ \ {e}]
    /\ UNCHANGED <<conn, mute, alive>>

PeerCloses(s) ==
    /\ conn[s] = "open" /\ ~mute[s]
    /\ conn' = [conn EXCEPT ![s] = "closing"]
    /\ UNCHANGED <<mute, alive, topics, rooms>>

\* (A faulty variant: no 'close' handler.)
SocketClosedUnheard(s) ==
    /\ conn[s] = "closing"
    /\ conn' = [conn EXCEPT ![s] = "closed"]
    /\ UNCHANGED <<mute, alive, topics, rooms>>

\* The 'close' event, the last one of every socket: its state goes with it.
SocketClosed(s) ==
    /\ conn[s] = "closing"
    /\ conn' = [conn EXCEPT ![s] = "closed"]
    /\ RemoveFromRooms({s})
    /\ mute' = [mute EXCEPT ![s] = FALSE]
    /\ alive' = [alive EXCEPT ![s] = FALSE]

\* (A faulty variant: every tick of the timer counts as a sign of life.)
HeartbeatAlways ==
    /\ Clients # {}
    /\ alive' = [s \in Socket |-> IF s \in Clients THEN TRUE ELSE alive[s]]
    /\ UNCHANGED <<conn, mute, topics, rooms>>

\* The heartbeat timer: who has not answered since the last one is terminated,
\* the others are asked again.
Heartbeat ==
    LET silent == {s \in Clients : ~alive[s]} IN
    /\ Clients # {}
    /\ RemoveFromRooms(silent)
    /\ conn' = [s \in Socket |-> IF s \in silent THEN "closing" ELSE conn[s]]
    /\ alive' = [s \in Socket |-> IF s \in Clients THEN FALSE ELSE alive[s]]
    /\ UNCHANGED mute

\* onSeatEvent: the open sockets of the room are sent the event, the others are
\* taken out of their rooms.
\* (A faulty variant: everybody connected hears it.)
HearersAll(e) == {s \in Socket : conn[s] = "open"}

Hearers(e) == {s \in Room(e) : conn[s] = "open"}

OnSeatEvent(e) ==
    /\ RemoveFromRooms(Room(e) \ Hearers(e))
    /\ UNCHANGED <<conn, mute, alive>>

\* close(), up to its first await: every client is told to close.
CloseSockets ==
    /\ RemoveFromRooms(Clients)
    /\ conn' = [s \in Socket |-> IF s \in Clients THEN "closing" ELSE conn[s]]
    /\ UNCHANGED <<mute, alive>>

-----------------------------------------------------------------------------
\* The two views of membership agree: a socket is in exactly the rooms its state
\* lists, so removeFromRooms finds every room it has to leave.
RoomsMatchStates == \A s \in Socket, e \in Event : s \in Room(e) <=> e \in topics[s]

\* Nothing leaks: a closed socket is in no room and lists none, even when frames
\* arrive after the socket was terminated or the server was closed.
NothingLeaks ==
    \A s \in Socket : conn[s] \in {"none", "closed"} =>
        topics[s] = {} /\ \A e \in Event : s \notin Room(e)
=============================================================================

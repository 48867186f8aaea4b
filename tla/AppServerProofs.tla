--------------------------- MODULE AppServerProofs ---------------------------
(***************************************************************************)
(* Proofs about the rooms of an application process, for any numbers of    *)
(* sockets, events, signals, published events and connection losses.       *)
(***************************************************************************)
EXTENDS AppServer, TLAPS

\* What the rooms need to be inductive: their variables keep their types, the two
\* views of membership agree, and a socket that is not there is in no room.
RoomInv ==
    /\ SocketTypeOK
    /\ RoomsMatchStates
    /\ NothingLeaks

\* A Map entry set or deleted: the room has its new members, the others their old.
LEMMA WithRoomMembers ==
    ASSUME NEW e, NEW members, rooms' = WithRoom(e, members)
    PROVE  Room(e)' = members /\ \A d : d # e => Room(d)' = Room(d)
<1>1. DOMAIN rooms' = {f \in DOMAIN rooms \cup {e} : f # e \/ members # {}}
  BY DEF WithRoom
<1>2. \A d \in DOMAIN rooms' : rooms'[d] = IF d = e THEN members ELSE rooms[d]
  BY <1>1 DEF WithRoom
<1> QED
  BY <1>1, <1>2 DEF Room

\* A changed room keeps the types of the Map.
LEMMA WithRoomTyped ==
    ASSUME SocketTypeOK, NEW e \in Event, NEW members \in SUBSET Socket,
           rooms' = WithRoom(e, members)
    PROVE  /\ DOMAIN rooms' \subseteq Event
           /\ \A d \in DOMAIN rooms' : rooms'[d] \subseteq Socket /\ rooms'[d] # {}
BY DEF WithRoom, SocketTypeOK

\* removeFromRooms takes a socket out of every room, because its list and the rooms
\* agree; and it keeps the types.
LEMMA RemoveLeavesAll ==
    ASSUME RoomInv, NEW S \in SUBSET Socket, RemoveFromRooms(S)
    PROVE  /\ \A e \in Event : Room(e)' = Room(e) \ S
           /\ \A s \in Socket : topics'[s] = IF s \in S THEN {} ELSE topics[s]
           /\ topics' \in [Socket -> SUBSET Event]
           /\ DOMAIN rooms' \subseteq Event
           /\ \A e \in DOMAIN rooms' : rooms'[e] \subseteq Socket /\ rooms'[e] # {}
<1> USE DEF RoomInv, SocketTypeOK
<1> DEFINE Staying(e) == {s \in rooms[e] : s \notin S \/ e \notin topics[s]}
<1>1. rooms' = [e \in {d \in DOMAIN rooms : Staying(d) # {}} |-> Staying(e)]
  BY DEF RemoveFromRooms
<1>2. \A e \in DOMAIN rooms : Staying(e) = rooms[e] \ S
  BY DEF RoomsMatchStates, Room
<1>3. /\ DOMAIN rooms' = {d \in DOMAIN rooms : Staying(d) # {}}
      /\ \A e \in DOMAIN rooms' : rooms'[e] = Staying(e)
  BY <1>1
<1> HIDE DEF Staying
<1>4. \A e \in Event : Room(e)' = Room(e) \ S
  BY <1>2, <1>3 DEF Room
<1>5. topics' = [s \in Socket |-> IF s \in S THEN {} ELSE topics[s]]
  BY DEF RemoveFromRooms
<1> QED
  BY <1>2, <1>3, <1>4, <1>5

\* A handler that takes the sockets of S out of their rooms keeps the invariant, if
\* the sockets that are gone after it were gone before or are in S.
LEMMA RemovalKeepsRoomInv ==
    ASSUME RoomInv, NEW S \in SUBSET Socket, RemoveFromRooms(S),
           conn' \in [Socket -> ReadyState \cup {"none"}],
           mute' \in [Socket -> BOOLEAN], alive' \in [Socket -> BOOLEAN],
           \A s \in Socket : conn'[s] \in {"none", "closed"} =>
               s \in S \/ conn[s] \in {"none", "closed"}
    PROVE  RoomInv'
<1>1. /\ \A e \in Event : Room(e)' = Room(e) \ S
      /\ \A s \in Socket : topics'[s] = IF s \in S THEN {} ELSE topics[s]
  BY RemoveLeavesAll
<1>2. SocketTypeOK'
  BY RemoveLeavesAll DEF SocketTypeOK
<1>3. RoomsMatchStates'
  BY <1>1 DEF RoomInv, RoomsMatchStates
<1>4. NothingLeaks'
  BY <1>1 DEF RoomInv, NothingLeaks
<1> QED
  BY <1>2, <1>3, <1>4 DEF RoomInv

\* A frame moves one client into or out of one room, in both views at once.
LEMMA FrameKeepsRoomInv ==
    ASSUME RoomInv, NEW s \in Clients, NEW e \in Event,
           Subscribe(s, e) \/ Unsubscribe(s, e)
    PROVE  RoomInv'
<1> USE DEF RoomInv
<1>0. s \in Socket /\ conn[s] \in {"open", "closing"} /\ Room(e) \subseteq Socket
  BY DEF Clients, Room, SocketTypeOK
<1>1. ASSUME NEW members \in SUBSET Socket, NEW list \in SUBSET Event,
             rooms' = WithRoom(e, members), topics' = [topics EXCEPT ![s] = list],
             UNCHANGED <<conn, mute, alive>>,
             \A q \in Socket \ {s} : q \in members <=> q \in Room(e),
             s \in members <=> e \in list,
             \A d \in Event \ {e} : d \in list <=> d \in topics[s]
      PROVE  RoomInv'
  <2>1. Room(e)' = members /\ \A d : d # e => Room(d)' = Room(d)
    BY <1>1, WithRoomMembers
  <2>2. /\ topics'[s] = list
        /\ \A q \in Socket \ {s} : topics'[q] = topics[q]
    BY <1>0, <1>1 DEF SocketTypeOK
  <2>3. SocketTypeOK'
    BY <1>0, <1>1, WithRoomTyped DEF SocketTypeOK
  <2>4. RoomsMatchStates'
    BY <1>0, <1>1, <2>1, <2>2 DEF RoomsMatchStates
  <2>5. NothingLeaks'
    BY <1>0, <1>1, <2>1, <2>2 DEF NothingLeaks
  <2> QED
    BY <2>3, <2>4, <2>5
<1>2. topics[s] \in SUBSET Event
  BY <1>0 DEF SocketTypeOK
<1>3. CASE Subscribe(s, e)
  <2> DEFINE members == Room(e) \cup {s}
             list == topics[s] \cup {e}
  <2>1. members \in SUBSET Socket /\ list \in SUBSET Event
    BY <1>0, <1>2
  <2>2. /\ rooms' = WithRoom(e, members)
        /\ topics' = [topics EXCEPT ![s] = list]
        /\ UNCHANGED <<conn, mute, alive>>
    BY <1>3 DEF Subscribe
  <2>3. /\ \A q \in Socket \ {s} : q \in members <=> q \in Room(e)
        /\ s \in members <=> e \in list
        /\ \A d \in Event \ {e} : d \in list <=> d \in topics[s]
    OBVIOUS
  <2> HIDE DEF members, list
  <2> QED
    BY <1>1, <2>1, <2>2, <2>3
<1>4. CASE Unsubscribe(s, e)
  <2> DEFINE members == Room(e) \ {s}
             list == topics[s] \ {e}
  <2>1. members \in SUBSET Socket /\ list \in SUBSET Event
    BY <1>0, <1>2
  <2>2. /\ rooms' = WithRoom(e, members)
        /\ topics' = [topics EXCEPT ![s] = list]
        /\ UNCHANGED <<conn, mute, alive>>
    BY <1>4 DEF Unsubscribe
  <2>3. /\ \A q \in Socket \ {s} : q \in members <=> q \in Room(e)
        /\ s \in members <=> e \in list
        /\ \A d \in Event \ {e} : d \in list <=> d \in topics[s]
    OBVIOUS
  <2> HIDE DEF members, list
  <2> QED
    BY <1>1, <2>1, <2>2, <2>3
<1> QED
  BY <1>3, <1>4

\* Every step of the process, shutdown included, preserves RoomInv.
LEMMA RoomInvStep ==
    ASSUME RoomInv, feed \in Seq(Event), inbox \in Seq(DOMAIN feed), [Next]_vars
    PROVE  RoomInv'
<1> USE DEF busVars, endVars, ReadyState
<1>1. ASSUME UNCHANGED <<topics, rooms>>,
             conn' \in [Socket -> ReadyState \cup {"none"}],
             mute' \in [Socket -> BOOLEAN], alive' \in [Socket -> BOOLEAN],
             \A s \in Socket : conn'[s] \in {"none", "closed"} => conn[s] = conn'[s]
      PROVE  RoomInv'
  BY <1>1 DEF RoomInv, SocketTypeOK, RoomsMatchStates, NothingLeaks, Room
<1>2. CASE UNCHANGED roomVars
  BY <1>1, <1>2 DEF roomVars, RoomInv, SocketTypeOK
<1>3. ASSUME NEW s \in Socket, SocketStep(s)
      PROVE  RoomInv'
  <2>1. CASE Connect(s) \/ PeerVanishes(s) \/ Pong(s) \/ PeerCloses(s)
    BY <1>1, <2>1 DEF Connect, PeerVanishes, Pong, PeerCloses, RoomInv, SocketTypeOK
  <2>2. ASSUME NEW e \in Event, Subscribe(s, e) \/ Unsubscribe(s, e)
        PROVE  RoomInv'
    BY <2>2, FrameKeepsRoomInv DEF Subscribe, Unsubscribe
  <2> QED
    BY <1>3, <2>1, <2>2 DEF SocketStep
<1>4. ASSUME NEW s \in Socket, SocketEnds(s)
      PROVE  RoomInv'
  <2>1. SocketClosed(s) /\ {s} \in SUBSET Socket
    BY <1>4 DEF SocketEnds
  <2> QED
    BY <2>1, RemovalKeepsRoomInv DEF SocketClosed, RoomInv, SocketTypeOK
<1>5. CASE HeartbeatTimer
  <2> DEFINE silent == {s \in Clients : ~alive[s]}
  <2>1. silent \in SUBSET Socket
    BY DEF Clients
  <2>2. /\ RemoveFromRooms(silent)
        /\ conn' = [s \in Socket |-> IF s \in silent THEN "closing" ELSE conn[s]]
        /\ alive' = [s \in Socket |-> IF s \in Clients THEN FALSE ELSE alive[s]]
        /\ mute' = mute
    BY <1>5 DEF HeartbeatTimer, Heartbeat
  <2> HIDE DEF silent
  <2> QED
    BY <2>1, <2>2, RemovalKeepsRoomInv DEF RoomInv, SocketTypeOK
<1>6. ASSUME NEW e \in Event, OnSeatEvent(e)
      PROVE  RoomInv'
  <2>1. (Room(e) \ Hearers(e)) \in SUBSET Socket
    BY DEF Room, RoomInv, SocketTypeOK
  <2> QED
    BY <1>6, <2>1, RemovalKeepsRoomInv DEF OnSeatEvent, RoomInv, SocketTypeOK
<1>7. CASE Receive
  <2>1. inbox # <<>> => feed[Head(inbox)] \in Event
    OBVIOUS
  <2> QED
    BY <1>2, <1>6, <1>7, <2>1 DEF Receive, roomVars
<1>8. ASSUME NEW h \in Signal, Shutdown(h)
      PROVE  RoomInv'
  <2>1. Clients \in SUBSET Socket
    BY DEF Clients
  <2>2. /\ RemoveFromRooms(Clients)
        /\ conn' = [s \in Socket |-> IF s \in Clients THEN "closing" ELSE conn[s]]
        /\ UNCHANGED <<mute, alive>>
    BY <1>8 DEF Shutdown, CloseSockets
  <2> QED
    BY <2>1, <2>2, RemovalKeepsRoomInv DEF RoomInv, SocketTypeOK
<1>9. CASE \/ \E e \in Event : Publish(e)
           \/ LinkDrops \/ LinkReturns \/ RequestArrives \/ RequestEnds
           \/ \E h \in Signal : ShutdownStep(h)
           \/ ExitClean \/ Watchdog \/ UNCHANGED vars
  BY <1>2, <1>9 DEF Publish, LinkDrops, LinkReturns, RequestArrives, RequestEnds, ShutdownStep,
                    AdapterClosed, AdapterFails, Drained, StoresClosed, ExitClean, Watchdog, vars
<1> QED
  BY <1>3, <1>4, <1>5, <1>7, <1>8, <1>9 DEF Next

-----------------------------------------------------------------------------
(* What travels over the subscriber's connection.                          *)

\* The types of the channel, the connection and the shutdown.
BusTypeOK ==
    /\ feed \in Seq(Event) /\ Len(feed) <= MaxPublished
    /\ linked \in BOOLEAN
    /\ inbox \in Seq(DOMAIN feed)
    /\ got \in [Socket -> Seq(DOMAIN feed)]
    /\ drops \in 0..MaxDrops
    /\ busy \in BOOLEAN
    /\ accepting \in {"sockets", "requests", "nothing"}
    /\ at \in [Signal -> ShutdownPC]
    /\ exit \in {"no", "clean", "forced"}

\* Every step preserves the types, whatever the rooms do.
LEMMA BusTypeStep ==
    ASSUME BusTypeOK, [Next]_vars
    PROVE  BusTypeOK'
<1> USE AppAssumption DEF busVars, endVars
<1>1. CASE UNCHANGED <<busVars, endVars>>
  BY <1>1 DEF BusTypeOK
<1>2. ASSUME NEW e \in Event, Publish(e)
      PROVE  BusTypeOK'
  <2>1. feed \in Seq(Event) /\ inbox \in Seq(DOMAIN feed) /\ got \in [Socket -> Seq(DOMAIN feed)]
    BY DEF BusTypeOK
  <2>2. feed' \in Seq(Event) /\ Len(feed') = Len(feed) + 1 /\ Len(feed') <= MaxPublished
    BY <1>2, <2>1 DEF Publish
  <2>3. DOMAIN feed \subseteq DOMAIN feed' /\ Len(feed') \in DOMAIN feed'
    BY <2>1, <2>2
  <2>4. \A q \in Seq(DOMAIN feed) : q \in Seq(DOMAIN feed')
    <3>1. ASSUME NEW q \in Seq(DOMAIN feed)
          PROVE  q \in Seq(DOMAIN feed')
      <4>1. q \in [1..Len(q) -> DOMAIN feed] /\ Len(q) \in Nat
        OBVIOUS
      <4>2. q \in [1..Len(q) -> DOMAIN feed']
        BY <2>3, <4>1
      <4> QED
        BY <4>1, <4>2
    <3> QED
      BY <3>1
  <2>5. inbox' \in Seq(DOMAIN feed')
    <3>1. inbox \in Seq(DOMAIN feed')
      BY <2>1, <2>4
    <3>2. Append(inbox, Len(feed')) \in Seq(DOMAIN feed')
      BY <2>3, <3>1
    <3> QED
      BY <1>2, <3>1, <3>2 DEF Publish
  <2>6. got' \in [Socket -> Seq(DOMAIN feed')]
    BY <1>2, <2>1, <2>4 DEF Publish
  <2>7. UNCHANGED <<linked, drops, busy, accepting, at, exit>>
    BY <1>2 DEF Publish
  <2> QED
    BY <2>2, <2>5, <2>6, <2>7 DEF BusTypeOK
<1>3. CASE Receive
  <2>1. inbox # <<>> /\ inbox \in Seq(DOMAIN feed) /\ got \in [Socket -> Seq(DOMAIN feed)]
    BY <1>3 DEF Receive, BusTypeOK
  <2>2. Head(inbox) \in DOMAIN feed /\ Tail(inbox) \in Seq(DOMAIN feed)
    BY <2>1
  <2>3. \A q \in Seq(DOMAIN feed) : Append(q, Head(inbox)) \in Seq(DOMAIN feed)
    BY <2>2
  <2>4. got' \in [Socket -> Seq(DOMAIN feed)]
    <3>1. CASE Listening
      <4>1. got' = [s \in Socket |-> IF s \in Hearers(feed[Head(inbox)])
                                     THEN Append(got[s], Head(inbox)) ELSE got[s]]
        BY <1>3, <3>1 DEF Receive
      <4> QED
        BY <2>1, <2>3, <4>1
    <3>2. CASE ~Listening
      BY <1>3, <2>1, <3>2 DEF Receive
    <3> QED
      BY <3>1, <3>2
  <2>5. inbox' = Tail(inbox) /\ UNCHANGED <<feed, linked, drops, busy, accepting, at, exit>>
    BY <1>3 DEF Receive
  <2> QED
    BY <2>2, <2>4, <2>5 DEF BusTypeOK
<1>4. CASE LinkDrops
  <2>1. /\ linked' \in BOOLEAN /\ inbox' = <<>> /\ drops < MaxDrops /\ drops' = drops + 1
        /\ UNCHANGED <<feed, got, busy, accepting, at, exit>>
    BY <1>4 DEF LinkDrops
  <2> QED
    BY <2>1 DEF BusTypeOK
<1>5. CASE LinkReturns
  BY <1>5 DEF LinkReturns, BusTypeOK
<1>6. CASE RequestArrives \/ RequestEnds \/ ExitClean \/ Watchdog
  <2>1. /\ UNCHANGED <<feed, linked, inbox, got, drops, accepting, at>>
        /\ busy' \in {busy, TRUE, FALSE} /\ exit' \in {exit, "clean", "forced"}
    BY <1>6 DEF RequestArrives, RequestEnds, ExitClean, Watchdog
  <2> QED
    BY <2>1 DEF BusTypeOK
<1>7. ASSUME NEW h \in Signal, Shutdown(h) \/ ShutdownStep(h)
      PROVE  BusTypeOK'
  <2>1. /\ UNCHANGED <<feed, got, drops, busy, exit>>
        /\ linked' \in {linked, FALSE} /\ inbox' \in {inbox, <<>>}
        /\ accepting' \in {accepting, "requests", "nothing"}
    BY <1>7 DEF Shutdown, ShutdownStep, AdapterClosed, AdapterFails, Drained, StoresClosed
  <2>2. at' \in [Signal -> ShutdownPC]
    <3>1. PICK to \in ShutdownPC : at' = [at EXCEPT ![h] = to]
      BY <1>7 DEF Shutdown, ShutdownStep, AdapterClosed, AdapterFails, Drained, StoresClosed,
                  Await, ShutdownPC
    <3> QED
      BY <3>1 DEF BusTypeOK
  <2>3. inbox' \in Seq(DOMAIN feed)
    <3>1. <<>> \in Seq(DOMAIN feed)
      OBVIOUS
    <3> QED
      BY <2>1, <3>1 DEF BusTypeOK
  <2>4. linked' \in BOOLEAN /\ busy' \in BOOLEAN
    BY <2>1, Zenon DEF BusTypeOK
  <2> QED
    BY <2>1, <2>2, <2>3, <2>4 DEF BusTypeOK
<1>8. CASE \/ \E s \in Socket : SocketStep(s) \/ SocketEnds(s)
           \/ HeartbeatTimer \/ UNCHANGED vars
  BY <1>1, <1>8 DEF SocketStep, SocketEnds, HeartbeatTimer, vars
<1> QED
  BY <1>2, <1>3, <1>4, <1>5, <1>6, <1>7, <1>8 DEF Next

\* Both parts together hold of every reachable state.
LEMMA AppInvariant == Spec => [](RoomInv /\ BusTypeOK)
<1>1. Init => RoomInv /\ BusTypeOK
  <2> SUFFICES ASSUME Init PROVE RoomInv /\ BusTypeOK
    OBVIOUS
  <2>1. \A e \in Event : Room(e) = {}
    BY DEF Init, SocketInit, Room
  <2>2. SocketTypeOK
    BY DEF Init, SocketInit, SocketTypeOK
  <2>3. RoomsMatchStates /\ NothingLeaks
    BY <2>1 DEF Init, SocketInit, RoomsMatchStates, NothingLeaks
  <2>4. /\ feed \in Seq(Event) /\ Len(feed) <= MaxPublished
        /\ inbox \in Seq(DOMAIN feed)
        /\ got \in [Socket -> Seq(DOMAIN feed)]
    BY AppAssumption DEF Init
  <2>5. /\ linked \in BOOLEAN /\ busy \in BOOLEAN
        /\ accepting \in {"sockets", "requests", "nothing"}
        /\ exit \in {"no", "clean", "forced"}
    BY Zenon DEF Init
  <2>6. at \in [Signal -> ShutdownPC]
    BY DEF Init, ShutdownPC
  <2>7. drops \in 0..MaxDrops
    BY AppAssumption DEF Init
  <2> QED
    BY <2>2, <2>3, <2>4, <2>5, <2>6, <2>7 DEF RoomInv, BusTypeOK
<1>2. RoomInv /\ BusTypeOK /\ [Next]_vars => (RoomInv /\ BusTypeOK)'
  BY RoomInvStep, BusTypeStep DEF BusTypeOK
<1> QED
  BY <1>1, <1>2, PTL DEF Spec

-----------------------------------------------------------------------------
\* Type correctness of the application process.
THEOREM AppTypeCorrect == Spec => []AppTypeOK
<1>1. RoomInv /\ BusTypeOK => AppTypeOK
  BY DEF RoomInv, BusTypeOK, AppTypeOK
<1> QED
  BY <1>1, AppInvariant, PTL

\* The Map of rooms and the lists of the sockets agree at every moment: after any
\* frames, heartbeats, deliveries, closes and shutdowns, in any order.
THEOREM RoomsAgree == Spec => []RoomsMatchStates
<1>1. RoomInv => RoomsMatchStates
  BY DEF RoomInv
<1> QED
  BY <1>1, AppInvariant, PTL

\* A socket that has closed leaves nothing behind in the Map.
THEOREM ClosedSocketsLeave == Spec => []NothingLeaks
<1>1. RoomInv => NothingLeaks
  BY DEF RoomInv
<1> QED
  BY <1>1, AppInvariant, PTL

\* An event is sent to nobody outside its room: the room it is sent to is, by the
\* agreement of the two views, the sockets subscribed to it.
THEOREM RoomsIsolate == Spec => RoomsAreIsolated
<1> DEFINE Isolated == \A s \in Socket : \A n \in DOMAIN feed :
               n \in Sent(s)' \ Sent(s) => conn[s] = "open" /\ feed[n] \in topics[s]
<1>1. RoomInv /\ BusTypeOK /\ [Next]_vars => [Isolated]_vars
  <2> SUFFICES ASSUME RoomInv, BusTypeOK, Next,
                      NEW s \in Socket, NEW n \in DOMAIN feed,
                      n \in Sent(s)', n \notin Sent(s)
               PROVE  conn[s] = "open" /\ feed[n] \in topics[s]
    BY DEF Isolated
  <2>1. got'[s] # got[s]
    BY DEF Sent
  <2>2. CASE Receive
    <3> DEFINE m == Head(inbox)
    <3>1. m \in DOMAIN feed /\ feed[m] \in Event
      BY <2>2 DEF Receive, BusTypeOK
    <3>2. s \in Hearers(feed[m]) /\ got'[s] = Append(got[s], m)
      BY <2>1, <2>2 DEF Receive, BusTypeOK
    <3>3. got[s] \in Seq(DOMAIN feed)
      BY DEF BusTypeOK
    <3>4. Sent(s)' = Sent(s) \cup {m}
      BY <3>1, <3>2, <3>3 DEF Sent
    <3>5. n = m
      BY <3>4
    <3> QED
      BY <3>1, <3>2, <3>5 DEF Hearers, RoomInv, RoomsMatchStates
  <2>3. Receive
    BY <2>1 DEF Next, Publish, LinkDrops, LinkReturns, SocketStep, SocketEnds, HeartbeatTimer,
               RequestArrives, RequestEnds, Shutdown, ShutdownStep, AdapterClosed, AdapterFails,
               Drained, StoresClosed, ExitClean, Watchdog, busVars
  <2> QED
    BY <2>2, <2>3
<1>2. RoomsAreIsolated <=> [][Isolated]_vars
  BY DEF RoomsAreIsolated
<1> QED
  BY <1>1, <1>2, AppInvariant, PTL DEF Spec

\* An event leaves the connection only by the 'message' handler, which sends it to
\* the open sockets of its room, or with the connection itself.
THEOREM MembersHear == Spec => MembersAreTold
<1> DEFINE Told == \A s \in Socket : \A i \in DOMAIN inbox :
               LET n == inbox[i] IN
               /\ Listening /\ linked'
               /\ conn[s] = "open" /\ s \in Room(feed[n])
               /\ \A k \in DOMAIN inbox' : inbox'[k] # n
               => n \in Sent(s)'
<1>1. BusTypeOK /\ [Next]_vars => [Told]_vars
  <2> SUFFICES ASSUME BusTypeOK, Next,
                      NEW s \in Socket, NEW i \in DOMAIN inbox,
                      Listening, linked', conn[s] = "open", s \in Room(feed[inbox[i]]),
                      \A k \in DOMAIN inbox' : inbox'[k] # inbox[i]
               PROVE  inbox[i] \in Sent(s)'
    BY DEF Told
  <2>1. inbox \in Seq(DOMAIN feed) /\ got[s] \in Seq(DOMAIN feed)
    BY DEF BusTypeOK
  <2>2. CASE Receive
    <3>1. inbox' = Tail(inbox) /\ inbox # <<>>
      BY <2>2 DEF Receive
    <3>2. i = 1
      <4>1. ASSUME i # 1 PROVE FALSE
        <5>1. i - 1 \in DOMAIN inbox' /\ inbox'[i - 1] = inbox[i]
          BY <2>1, <3>1, <4>1
        <5> QED
          BY <5>1
      <4> QED
        BY <4>1
    <3>3. inbox[i] = Head(inbox) /\ s \in Hearers(feed[Head(inbox)])
      BY <2>1, <3>1, <3>2 DEF Hearers
    <3>4. got'[s] = Append(got[s], Head(inbox))
      BY <2>2, <3>3 DEF Receive
    <3>5. Len(got[s]) + 1 \in DOMAIN got'[s] /\ got'[s][Len(got[s]) + 1] = Head(inbox)
      BY <2>1, <3>4
    <3> QED
      BY <3>3, <3>5 DEF Sent
  <2>3. ASSUME NEW e \in Event, Publish(e)
        PROVE  FALSE
    <3>1. i \in DOMAIN inbox' /\ inbox'[i] = inbox[i]
      BY <2>1, <2>3 DEF Publish
    <3> QED
      BY <3>1
  <2>4. CASE LinkDrops \/ \E h \in Signal : AdapterClosed(h)
    BY <2>4 DEF LinkDrops, AdapterClosed
  <2>5. CASE UNCHANGED inbox
    BY <2>5
  <2> QED
    BY <2>2, <2>3, <2>4, <2>5
    DEF Next, LinkReturns, SocketStep, SocketEnds, HeartbeatTimer, RequestArrives, RequestEnds,
        Shutdown, ShutdownStep, AdapterFails, Drained, StoresClosed, ExitClean, Watchdog, busVars
<1>2. MembersAreTold <=> [][Told]_vars
  BY DEF MembersAreTold
<1> QED
  BY <1>1, <1>2, AppInvariant, PTL DEF Spec

-----------------------------------------------------------------------------
(* The order of delivery.                                                  *)

Ascending(q) == \A i, j \in DOMAIN q : i < j => q[i] < q[j]

\* InOrder, part by part: what a socket has, what is on its way, and the one before
\* the other.
OrderInv ==
    /\ Ascending(inbox)
    /\ \A s \in Socket :
          /\ Ascending(got[s])
          /\ \A i \in DOMAIN got[s], j \in DOMAIN inbox : got[s][i] < inbox[j]

\* An element that is greater than all of an ascending sequence can be added to it.
LEMMA AppendAscends ==
    ASSUME NEW S \in SUBSET Nat, NEW q \in Seq(S), NEW n \in Nat, Ascending(q),
           \A i \in DOMAIN q : q[i] < n
    PROVE  Ascending(Append(q, n))
BY DEF Ascending

\* Every step preserves the order.
LEMMA OrderStep ==
    ASSUME BusTypeOK, OrderInv, [Next]_vars
    PROVE  OrderInv'
<1>0. /\ feed \in Seq(Event) /\ inbox \in Seq(DOMAIN feed)
      /\ \A s \in Socket : got[s] \in Seq(DOMAIN feed)
      /\ DOMAIN feed \in SUBSET Nat
  BY DEF BusTypeOK
<1>1. CASE UNCHANGED <<inbox, got>>
  BY <1>1 DEF OrderInv, Ascending
<1>2. CASE inbox' = <<>> /\ got' = got
  BY <1>2 DEF OrderInv, Ascending
<1>3. ASSUME NEW e \in Event, Publish(e)
      PROVE  OrderInv'
  <2>1. Len(feed') \in Nat /\ \A n \in DOMAIN feed : n < Len(feed')
    BY <1>0, <1>3 DEF Publish
  <2>2. CASE linked
    <3>1. inbox' = Append(inbox, Len(feed')) /\ got' = got
      BY <1>3, <2>2 DEF Publish
    <3>2. Ascending(inbox')
      <4>1. \A i \in DOMAIN inbox : inbox[i] < Len(feed')
        BY <1>0, <2>1
      <4> QED
        BY <1>0, <2>1, <3>1, <4>1, AppendAscends DEF OrderInv
    <3>3. \A s \in Socket : \A i \in DOMAIN got[s], j \in DOMAIN inbox' : got[s][i] < inbox'[j]
      <4> SUFFICES ASSUME NEW s \in Socket, NEW i \in DOMAIN got[s], NEW j \in DOMAIN inbox'
                   PROVE  got[s][i] < inbox'[j]
        OBVIOUS
      <4>1. got[s][i] \in DOMAIN feed
        BY <1>0
      <4>2. j \in DOMAIN inbox \/ inbox'[j] = Len(feed')
        BY <1>0, <3>1
      <4>3. j \in DOMAIN inbox => inbox'[j] = inbox[j]
        BY <1>0, <3>1
      <4> QED
        BY <2>1, <4>1, <4>2, <4>3 DEF OrderInv
    <3> QED
      BY <3>1, <3>2, <3>3 DEF OrderInv
  <2>3. CASE ~linked
    BY <1>1, <1>3, <2>3 DEF Publish
  <2> QED
    BY <2>2, <2>3
<1>4. CASE Receive
  <2> DEFINE n == Head(inbox)
  <2>1. inbox # <<>> /\ inbox' = Tail(inbox)
    BY <1>4 DEF Receive
  <2>2. n = inbox[1] /\ n \in Nat /\ 1 \in DOMAIN inbox
    BY <1>0, <2>1
  <2>3. \A j \in DOMAIN inbox' : j + 1 \in DOMAIN inbox /\ inbox'[j] = inbox[j + 1] /\ 1 < j + 1
    BY <1>0, <2>1
  <2>4. Ascending(inbox') /\ \A j \in DOMAIN inbox' : n < inbox'[j]
    <3>1. \A i, j \in DOMAIN inbox' : i < j => i + 1 < j + 1
      BY <1>0, <2>1
    <3> QED
      BY <2>2, <2>3, <3>1 DEF OrderInv, Ascending
  <2>5. ASSUME NEW s \in Socket
        PROVE  /\ Ascending(got'[s])
               /\ \A i \in DOMAIN got'[s], j \in DOMAIN inbox' : got'[s][i] < inbox'[j]
    <3>1. /\ Ascending(got[s])
          /\ \A i \in DOMAIN got[s] : got[s][i] < n
          /\ \A i \in DOMAIN got[s], j \in DOMAIN inbox' : got[s][i] < inbox'[j]
      BY <2>2, <2>3 DEF OrderInv
    <3>2. CASE got'[s] = Append(got[s], n)
      <4>1. Ascending(got'[s])
        BY <1>0, <2>2, <3>1, <3>2, AppendAscends
      <4>2. \A i \in DOMAIN got'[s] : (i \in DOMAIN got[s] /\ got'[s][i] = got[s][i]) \/ got'[s][i] = n
        <5>1. got[s] \in Seq(DOMAIN feed)
          BY <1>0
        <5> HIDE DEF n
        <5> QED
          BY <2>2, <3>2, <5>1
      <4> QED
        BY <2>4, <3>1, <4>1, <4>2
    <3>3. CASE got'[s] = got[s]
      BY <3>1, <3>3
    <3>4. got'[s] = Append(got[s], n) \/ got'[s] = got[s]
      BY <1>4 DEF Receive
    <3> QED
      BY <3>2, <3>3, <3>4
  <2> QED
    BY <2>4, <2>5 DEF OrderInv
<1>5. CASE LinkDrops \/ \E h \in Signal : AdapterClosed(h)
  BY <1>2, <1>5 DEF LinkDrops, AdapterClosed
<1> QED
  BY <1>1, <1>3, <1>4, <1>5
  DEF Next, LinkReturns, SocketStep, SocketEnds, HeartbeatTimer, RequestArrives, RequestEnds,
      Shutdown, ShutdownStep, AdapterFails, Drained, StoresClosed, ExitClean, Watchdog,
      busVars, vars

LEMMA OrderInvariant == Spec => []OrderInv
<1>1. Init => OrderInv
  BY DEF Init, OrderInv, Ascending
<1>2. BusTypeOK /\ OrderInv /\ [Next]_vars => OrderInv'
  BY OrderStep
<1> QED
  BY <1>1, <1>2, AppInvariant, PTL DEF Spec

\* The order of the channel reaches every socket: none is sent an event twice or
\* before an older one, over lost connections and changes of rooms.
THEOREM ChannelOrder == Spec => []InOrder
<1>1. BusTypeOK /\ OrderInv => InOrder
  <2> SUFFICES ASSUME BusTypeOK, OrderInv, NEW s \in Socket,
                      NEW i \in DOMAIN (got[s] \o inbox), NEW j \in DOMAIN (got[s] \o inbox),
                      i < j
               PROVE  (got[s] \o inbox)[i] < (got[s] \o inbox)[j]
    BY DEF InOrder
  <2>1. got[s] \in Seq(DOMAIN feed) /\ inbox \in Seq(DOMAIN feed)
    BY DEF BusTypeOK
  <2> DEFINE At(k) == (got[s] \o inbox)[k]
             m == Len(got[s])
  <2>2. \A k \in DOMAIN (got[s] \o inbox) :
           \/ k <= m /\ k \in DOMAIN got[s] /\ At(k) = got[s][k]
           \/ k > m /\ k - m \in DOMAIN inbox /\ At(k) = inbox[k - m]
    BY <2>1
  <2>3. i \in Nat /\ j \in Nat /\ m \in Nat
    BY <2>1
  <2>4. CASE i <= m /\ j <= m
    BY <2>2, <2>4 DEF OrderInv, Ascending
  <2>5. CASE i <= m /\ j > m
    BY <2>2, <2>3, <2>5 DEF OrderInv
  <2>6. CASE i > m
    BY <2>2, <2>3, <2>6 DEF OrderInv, Ascending
  <2> QED
    BY <2>3, <2>4, <2>5, <2>6
<1> QED
  BY <1>1, OrderInvariant, AppInvariant, PTL
-----------------------------------------------------------------------------
(* The abstract feed.                                                      *)

\* The audience: what the open sockets are subscribed to.
Members == [s \in Socket |-> IF conn[s] = "open" THEN topics[s] ELSE {}]

\* A step that publishes and sends nothing, and whose open sockets keep the topics
\* they had or lose some, only takes sockets out of the audience.
LEMMA LeavingIsLeave ==
    ASSUME RoomInv', UNCHANGED <<feed, got>>,
           \A s \in Socket : conn'[s] = "open" =>
               topics'[s] \subseteq topics[s] /\ (conn[s] = "open" \/ topics[s] = {})
    PROVE  Feed!Leave
<1>1. \A s \in Socket : Members'[s] \subseteq Members[s]
  BY DEF Members
<1>2. Members' \in [Socket -> SUBSET Event]
  BY DEF Members, RoomInv, SocketTypeOK
<1> QED
  BY <1>1, <1>2 DEF Feed!Leave, Members

\* What one socket does: it joins an audience by a frame while it is open, or it
\* leaves one.
LEMMA SocketStepIsMove ==
    ASSUME RoomInv, RoomInv', NEW s \in Socket, SocketStep(s)
    PROVE  Feed!Leave \/ \E e \in Event : Feed!Join(s, e)
<1> USE DEF RoomInv, SocketTypeOK, busVars
<1>0. UNCHANGED <<feed, got>>
  BY DEF SocketStep
<1>1. CASE Connect(s)
  <2>1. \A q \in Socket : conn'[q] = "open" => conn[q] = "open" \/ topics[q] = {}
    BY <1>1 DEF Connect, NothingLeaks
  <2> QED
    BY <1>0, <1>1, <2>1, LeavingIsLeave DEF Connect
<1>2. CASE PeerVanishes(s) \/ Pong(s) \/ PeerCloses(s)
  BY <1>0, <1>2, LeavingIsLeave DEF PeerVanishes, Pong, PeerCloses
<1>3. ASSUME NEW e \in Event, Unsubscribe(s, e)
      PROVE  Feed!Leave
  BY <1>0, <1>3, LeavingIsLeave DEF Unsubscribe
<1>4. ASSUME NEW e \in Event, Subscribe(s, e), conn[s] = "open"
      PROVE  Feed!Join(s, e)
  <2>1. Members' = [Members EXCEPT ![s] = Members[s] \cup {e}]
    BY <1>4 DEF Subscribe, Members
  <2> QED
    BY <1>0, <2>1 DEF Feed!Join, Members
<1>5. ASSUME NEW e \in Event, Subscribe(s, e), conn[s] # "open"
      PROVE  Feed!Leave
  BY <1>0, <1>5, LeavingIsLeave DEF Subscribe
<1> QED
  BY <1>1, <1>2, <1>3, <1>4, <1>5 DEF SocketStep

\* The handler that takes sockets out of their rooms: heartbeat, close, shutdown.
LEMMA RemovalIsLeave ==
    ASSUME RoomInv, RoomInv', UNCHANGED <<feed, got>>, NEW S \in SUBSET Socket,
           RemoveFromRooms(S), \A s \in Socket : conn'[s] = "open" => conn[s] = "open"
    PROVE  Feed!Leave
<1>1. \A s \in Socket : topics'[s] \subseteq topics[s]
  BY RemoveLeavesAll
<1> QED
  BY <1>1, LeavingIsLeave

\* The 'message' handler sends the event to its whole audience: the open sockets of
\* the room are the open sockets that list it.
LEMMA ReceiveIsDeliver ==
    ASSUME RoomInv, BusTypeOK, OrderInv, Receive, Listening
    PROVE  \E n \in DOMAIN feed : Feed!Deliver(n)
<1> DEFINE n == Head(inbox)
<1>1. /\ inbox # <<>> /\ inbox \in Seq(DOMAIN feed) /\ feed \in Seq(Event)
      /\ OnSeatEvent(feed[n]) /\ feed' = feed
      /\ got' = [s \in Socket |-> IF s \in Hearers(feed[n]) THEN Append(got[s], n) ELSE got[s]]
  BY DEF Receive, BusTypeOK
<1>2. n \in DOMAIN feed /\ n = inbox[1] /\ 1 \in DOMAIN inbox
  BY <1>1
<1>3. feed[n] \in Event
  BY <1>1, <1>2
<1> HIDE DEF n
<1>4. \A s \in Socket : s \in Hearers(feed[n]) <=> feed[n] \in Members[s]
  BY <1>3 DEF Hearers, Members, RoomInv, RoomsMatchStates
<1>5. \A s \in Socket : \A i \in DOMAIN got[s] : got[s][i] < n
  BY <1>2 DEF OrderInv
<1>6. Members' = Members
  <2>1. (Room(feed[n]) \ Hearers(feed[n])) \in SUBSET Socket
    BY DEF Room, RoomInv, SocketTypeOK
  <2>2. \A s \in Socket : s \notin Room(feed[n]) \ Hearers(feed[n]) => topics'[s] = topics[s]
    BY <1>1, <2>1, RemoveLeavesAll DEF OnSeatEvent
  <2>3. \A s \in Socket : conn[s] = "open" => topics'[s] = topics[s]
    BY <2>2 DEF Hearers
  <2> QED
    BY <1>1, <2>3 DEF Members, OnSeatEvent
<1>7. got' = [s \in Socket |-> IF feed[n] \in Members[s] THEN Append(got[s], n) ELSE got[s]]
  BY <1>1, <1>4
<1> QED
  BY <1>1, <1>2, <1>5, <1>6, <1>7 DEF Feed!Deliver, Members

\* Every step of the process is a step of the feed or leaves it alone.
LEMMA FeedStep ==
    ASSUME RoomInv, RoomInv', BusTypeOK, OrderInv, [Next]_vars
    PROVE  [Feed!Next]_(Feed!vars)
<1> USE DEF busVars, endVars
<1>1. ASSUME UNCHANGED <<roomVars, feed, got>>
      PROVE  UNCHANGED Feed!vars
  BY <1>1 DEF Feed!vars, roomVars
<1>2. ASSUME NEW e \in Event, Publish(e)
      PROVE  Feed!Publish(e)
  BY <1>2 DEF Publish, Feed!Publish, roomVars
<1>3. CASE Receive
  <2>1. CASE Listening
    BY <1>3, <2>1, ReceiveIsDeliver DEF Feed!Next
  <2>2. CASE ~Listening
    BY <1>1, <1>3, <2>2 DEF Receive
  <2> QED
    BY <2>1, <2>2
<1>4. ASSUME NEW s \in Socket, SocketStep(s)
      PROVE  Feed!Next
  BY <1>4, SocketStepIsMove DEF Feed!Next
<1>5. ASSUME NEW s \in Socket, SocketEnds(s)
      PROVE  Feed!Leave
  <2>1. {s} \in SUBSET Socket /\ RemoveFromRooms({s}) /\ UNCHANGED <<feed, got>>
    BY <1>5 DEF SocketEnds, SocketClosed
  <2>2. \A q \in Socket : conn'[q] = "open" => conn[q] = "open"
    BY <1>5 DEF SocketEnds, SocketClosed, RoomInv, SocketTypeOK
  <2> QED
    BY <2>1, <2>2, RemovalIsLeave
<1>6. CASE HeartbeatTimer
  <2> DEFINE silent == {s \in Clients : ~alive[s]}
  <2>1. silent \in SUBSET Socket
    BY DEF Clients
  <2>2. RemoveFromRooms(silent) /\ UNCHANGED <<feed, got>>
    BY <1>6 DEF HeartbeatTimer, Heartbeat
  <2>3. \A q \in Socket : conn'[q] = "open" => conn[q] = "open"
    BY <1>6 DEF HeartbeatTimer, Heartbeat
  <2> HIDE DEF silent
  <2> QED
    BY <2>1, <2>2, <2>3, RemovalIsLeave DEF Feed!Next
<1>7. ASSUME NEW h \in Signal, Shutdown(h)
      PROVE  Feed!Leave
  <2>1. Clients \in SUBSET Socket /\ RemoveFromRooms(Clients) /\ UNCHANGED <<feed, got>>
    BY <1>7 DEF Shutdown, CloseSockets, Clients
  <2>2. \A q \in Socket : conn'[q] = "open" => conn[q] = "open"
    BY <1>7 DEF Shutdown, CloseSockets
  <2> QED
    BY <2>1, <2>2, RemovalIsLeave
<1>8. CASE \/ LinkDrops \/ LinkReturns \/ RequestArrives \/ RequestEnds
           \/ \E h \in Signal : ShutdownStep(h)
           \/ ExitClean \/ Watchdog \/ UNCHANGED vars
  BY <1>1, <1>8 DEF LinkDrops, LinkReturns, RequestArrives, RequestEnds, ShutdownStep,
                    AdapterClosed, AdapterFails, Drained, StoresClosed, ExitClean, Watchdog, vars
<1> QED
  BY <1>2, <1>3, <1>4, <1>5, <1>6, <1>7, <1>8 DEF Next, Feed!Next

\* The application process implements the feed for any numbers of sockets, rooms and
\* signals: an event goes to its whole audience at once or to nobody, in the order of
\* the channel.
THEOREM AppImplementsFeed == Spec => ImplementsFeed
<1>1. Init => Feed!Init
  BY DEF Init, SocketInit, Feed!Init
<1>2. RoomInv /\ RoomInv' /\ BusTypeOK /\ OrderInv /\ [Next]_vars => [Feed!Next]_(Feed!vars)
  BY FeedStep
<1> QED
  BY <1>1, <1>2, AppInvariant, OrderInvariant, PTL DEF Spec, ImplementsFeed, Feed!Spec

-----------------------------------------------------------------------------
(* The shutdown.                                                           *)

\* Once a shutdown has come to webSocketServer.close no upgrade is accepted, so the
\* last client that goes is the last one.
DoorsStayShut ==
    /\ \A h \in Signal : at[h] \in {"drain", "stores"} => accepting # "sockets"
    /\ StoresOutliveClients

LEMMA DoorsStayShutStep ==
    ASSUME BusTypeOK, SocketTypeOK, DoorsStayShut, [Next]_vars
    PROVE  DoorsStayShut'
<1> USE DEF DoorsStayShut, StoresOutliveClients, busVars, endVars, roomVars, BusTypeOK
<1>1. accepting # "sockets" => accepting' # "sockets" /\ Clients' \subseteq Clients
  <2> SUFFICES ASSUME accepting # "sockets"
               PROVE  accepting' # "sockets" /\ Clients' \subseteq Clients
    OBVIOUS
  <2>1. ASSUME NEW s \in Socket, SocketStep(s) \/ SocketEnds(s)
        PROVE  accepting' # "sockets" /\ Clients' \subseteq Clients
    BY <2>1 DEF SocketStep, SocketEnds, PeerVanishes, Pong, Subscribe, Unsubscribe, PeerCloses,
                SocketClosed, Clients, SocketTypeOK
  <2>2. CASE HeartbeatTimer \/ Receive
    BY <2>2 DEF HeartbeatTimer, Heartbeat, Receive, OnSeatEvent, Clients
  <2>3. ASSUME NEW h \in Signal, Shutdown(h)
        PROVE  accepting' # "sockets" /\ Clients' \subseteq Clients
    BY <2>3 DEF Shutdown, CloseSockets, Clients
  <2>4. CASE \/ \E e \in Event : Publish(e)
             \/ LinkDrops \/ LinkReturns \/ RequestArrives \/ RequestEnds
             \/ \E h \in Signal : ShutdownStep(h)
             \/ ExitClean \/ Watchdog \/ UNCHANGED vars
    BY <2>4 DEF Publish, LinkDrops, LinkReturns, RequestArrives, RequestEnds, ShutdownStep,
                AdapterClosed, AdapterFails, Drained, StoresClosed, ExitClean, Watchdog, vars,
                Clients
  <2> QED
    BY <2>1, <2>2, <2>3, <2>4 DEF Next
<1>2. ASSUME at' = at
      PROVE  DoorsStayShut'
  BY <1>1, <1>2
<1>3. ASSUME NEW h \in Signal, Shutdown(h) \/ AdapterFails(h) \/ StoresClosed(h)
      PROVE  DoorsStayShut'
  <2>1. /\ at'[h] \in {"adapter", "http"}
        /\ \A g \in Signal : g # h => at'[g] = at[g]
    BY <1>3 DEF Shutdown, AdapterFails, StoresClosed, Await
  <2> QED
    BY <1>1, <2>1
<1>4. ASSUME NEW h \in Signal, AdapterClosed(h)
      PROVE  DoorsStayShut'
  <2>1. /\ at'[h] = "drain" /\ accepting' # "sockets"
        /\ \A g \in Signal : g # h => at'[g] = at[g]
    BY <1>4 DEF AdapterClosed, Await
  <2> QED
    BY <1>1, <2>1
<1>5. ASSUME NEW h \in Signal, Drained(h)
      PROVE  DoorsStayShut'
  <2>1. /\ at[h] = "drain" /\ at'[h] = "stores" /\ Clients = {} /\ Clients' = {}
        /\ \A g \in Signal : g # h => at'[g] = at[g]
    BY <1>1, <1>5 DEF Drained, Await
  <2> QED
    BY <1>1, <2>1
<1> QED
  BY <1>2, <1>3, <1>4, <1>5
  DEF Next, ShutdownStep, Publish, Receive, LinkDrops, LinkReturns, SocketStep, SocketEnds,
      HeartbeatTimer, RequestArrives, RequestEnds, ExitClean, Watchdog, vars

\* Whatever signals come in whatever order, the stores are disconnected only when no
\* WebSocket client is left and none can come.
THEOREM ClientsLeaveFirst == Spec => []StoresOutliveClients
<1>1. Init => DoorsStayShut
  BY DEF Init, DoorsStayShut, StoresOutliveClients
<1>2. RoomInv /\ BusTypeOK /\ DoorsStayShut /\ [Next]_vars => DoorsStayShut'
  BY DoorsStayShutStep DEF RoomInv
<1>3. DoorsStayShut => StoresOutliveClients
  BY DEF DoorsStayShut
<1> QED
  BY <1>1, <1>2, <1>3, AppInvariant, PTL DEF Spec
=============================================================================

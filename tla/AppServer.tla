------------------------------ MODULE AppServer ------------------------------
(***************************************************************************)
(* One application process once it has started: the seat events that Redis *)
(* Pub/Sub brings it (websocket/pubsub.adapter.ts), its WebSocket rooms    *)
(* (SocketRooms), its HTTP requests, and the graceful shutdown of          *)
(* server.ts, which awaits one after the other.  Redis and the other       *)
(* processes are the environment.                                          *)
(***************************************************************************)
EXTENDS SocketRooms, Naturals, Sequences

CONSTANTS Signal,         \* SIGTERM, SIGINT: each starts a shutdown of its own
          MaxPublished,   \* bound on the seat events any process publishes
          MaxDrops        \* bound on the losses of the subscriber's connection

ASSUME AppAssumption == MaxPublished \in Nat /\ MaxDrops \in Nat

VARIABLES
    feed,       \* the events published on the channel, oldest first
    linked,     \* is the subscriber's connection up and subscribed?
    inbox,      \* positions of the feed on their way over that connection
    got,        \* got[s]: the positions sent to socket s, in this order
    drops,      \* connection losses so far
    busy,       \* is an HTTP request in flight?
    accepting,  \* what the server lets in: "sockets" (and requests),
                \* "requests" only, or "nothing"
    at,         \* at[h]: the await at which the shutdown of signal h stands
    exit        \* "no", or how the process ended

vars == <<roomVars, feed, linked, inbox, got, drops, busy, accepting, at, exit>>

busVars == <<feed, linked, inbox, got, drops>>
endVars == <<busy, accepting, at, exit>>

ShutdownPC == {"idle", "adapter", "drain", "stores", "http"}

AppTypeOK ==
    /\ SocketTypeOK
    /\ feed \in Seq(Event) /\ Len(feed) <= MaxPublished
    /\ linked \in BOOLEAN
    /\ inbox \in Seq(DOMAIN feed)
    /\ got \in [Socket -> Seq(DOMAIN feed)]
    /\ drops \in 0..MaxDrops
    /\ busy \in BOOLEAN
    /\ accepting \in {"sockets", "requests", "nothing"}
    /\ at \in [Signal -> ShutdownPC]
    /\ exit \in {"no", "clean", "forced"}

\* What startServer leaves: subscribed, no client yet, listening.
Init ==
    /\ SocketInit
    /\ feed = <<>>
    /\ linked = TRUE
    /\ inbox = <<>>
    /\ got = [s \in Socket |-> <<>>]
    /\ drops = 0
    /\ busy = FALSE
    /\ accepting = "sockets"
    /\ at = [h \in Signal |-> "idle"]
    /\ exit = "no"

\* The adapter has its listener until the first shutdown calls disconnect.
Listening == \A h \in Signal : at[h] = "idle"

-----------------------------------------------------------------------------
(* The adapter.                                                            *)

\* Some process publishes a seat event.  Pub/Sub keeps nothing for a
\* subscriber that is not there.
Publish(e) ==
    /\ Len(feed) < MaxPublished
    /\ feed' = Append(feed, e)
    /\ inbox' = IF linked THEN Append(inbox, Len(feed')) ELSE inbox
    /\ UNCHANGED <<roomVars, linked, got, drops, endVars>>

\* (Faulty variants: only the newest of the messages that have come is looked
\* at; the 'message' handler is installed twice.)
ReceiveNewest ==
    LET n == inbox[Len(inbox)] IN
    /\ inbox # <<>>
    /\ inbox' = <<>>
    /\ IF Listening
       THEN /\ OnSeatEvent(feed[n])
            /\ got' = [s \in Socket |->
                         IF s \in Hearers(feed[n]) THEN Append(got[s], n) ELSE got[s]]
       ELSE UNCHANGED <<roomVars, got>>
    /\ UNCHANGED <<feed, linked, drops, endVars>>

ReceiveTwice ==
    LET n == Head(inbox) IN
    /\ inbox # <<>>
    /\ inbox' = Tail(inbox)
    /\ IF Listening
       THEN /\ OnSeatEvent(feed[n])
            /\ got' = [s \in Socket |->
                         IF s \in Hearers(feed[n]) THEN got[s] \o <<n, n>> ELSE got[s]]
       ELSE UNCHANGED <<roomVars, got>>
    /\ UNCHANGED <<feed, linked, drops, endVars>>

\* The 'message' handler: without a listener the event is dropped.
Receive ==
    LET n == Head(inbox) IN
    /\ inbox # <<>>
    /\ inbox' = Tail(inbox)
    /\ IF Listening
       THEN /\ OnSeatEvent(feed[n])
            /\ got' = [s \in Socket |->
                         IF s \in Hearers(feed[n]) THEN Append(got[s], n) ELSE got[s]]
       ELSE UNCHANGED <<roomVars, got>>
    /\ UNCHANGED <<feed, linked, drops, endVars>>

\* The subscriber's connection breaks: what was on its way is gone.
LinkDrops ==
    /\ linked /\ drops < MaxDrops
    /\ linked' = FALSE
    /\ inbox' = <<>>
    /\ drops' = drops + 1
    /\ UNCHANGED <<roomVars, feed, got, endVars>>

\* ioredis connects and subscribes again.
LinkReturns ==
    /\ ~linked /\ Listening
    /\ linked' = TRUE
    /\ UNCHANGED <<roomVars, feed, inbox, got, drops, endVars>>

-----------------------------------------------------------------------------
(* The clients.                                                            *)

SocketStep(s) ==
    /\ \/ accepting = "sockets" /\ Connect(s)
       \/ PeerVanishes(s)
       \/ Pong(s)
       \/ \E e \in Event : Subscribe(s, e) \/ Unsubscribe(s, e)
       \/ PeerCloses(s)
    /\ UNCHANGED <<busVars, endVars>>

SocketEnds(s) == SocketClosed(s) /\ UNCHANGED <<busVars, endVars>>

\* close() clears the timer.
HeartbeatTimer == Listening /\ Heartbeat /\ UNCHANGED <<busVars, endVars>>

\* Requests only matter to a shutdown: one that came earlier and is still in
\* flight is as good as one that comes right after the signal.
RequestArrives ==
    /\ ~Listening
    /\ accepting # "nothing" /\ ~busy
    /\ busy' = TRUE
    /\ UNCHANGED <<roomVars, busVars, accepting, at, exit>>

RequestEnds ==
    /\ busy
    /\ busy' = FALSE
    /\ UNCHANGED <<roomVars, busVars, accepting, at, exit>>

-----------------------------------------------------------------------------
(* gracefulShutdown.  A second signal starts it a second time.             *)

Await(h, from, to) == at[h] = from /\ at' = [at EXCEPT ![h] = to]

\* close() up to its first await, and the synchronous start of disconnect.
Shutdown(h) ==
    /\ Await(h, "idle", "adapter")
    /\ CloseSockets
    /\ UNCHANGED <<busVars, busy, accepting, exit>>

\* Both QUITs are answered; webSocketServer.close refuses upgrades from now on.
AdapterClosed(h) ==
    /\ Await(h, "adapter", "drain")
    /\ linked' = FALSE
    /\ inbox' = <<>>
    /\ accepting' = IF accepting = "sockets" THEN "requests" ELSE accepting
    /\ UNCHANGED <<roomVars, feed, got, drops, busy, exit>>

\* A QUIT is refused (Redis is gone, or the other shutdown's QUIT closed the
\* connection): the catch block skips the rest of the try and stops HTTP.
AdapterFails(h) ==
    /\ Await(h, "adapter", "http")
    /\ accepting' = "nothing"
    /\ UNCHANGED <<roomVars, busVars, busy, exit>>

\* (A faulty variant: webSocketServer.close is not awaited.)
DrainedAtOnce(h) ==
    /\ Await(h, "drain", "stores")
    /\ UNCHANGED <<roomVars, busVars, busy, accepting, exit>>

\* webSocketServer.close calls back when the last client has gone.
Drained(h) ==
    /\ Await(h, "drain", "stores")
    /\ Clients = {}
    /\ UNCHANGED <<roomVars, busVars, busy, accepting, exit>>

\* disconnectRedis and disconnectDatabase swallow their errors; then
\* server.close stops listening and the watchdog is armed.
StoresClosed(h) ==
    /\ Await(h, "stores", "http")
    /\ accepting' = "nothing"
    /\ UNCHANGED <<roomVars, busVars, busy, exit>>

\* server.close calls back when every connection has ended.
ExitClean ==
    /\ \E h \in Signal : at[h] = "http"
    /\ ~busy /\ Clients = {}
    /\ exit' = "clean"
    /\ UNCHANGED <<roomVars, busVars, busy, accepting, at>>

\* (A faulty variant: the timer only covers a shutdown without requests.)
WatchdogIdle ==
    /\ \E h \in Signal : at[h] = "http"
    /\ ~busy
    /\ exit' = "forced"
    /\ UNCHANGED <<roomVars, busVars, busy, accepting, at>>

\* Ten seconds after server.close was called.
Watchdog ==
    /\ \E h \in Signal : at[h] = "http"
    /\ exit' = "forced"
    /\ UNCHANGED <<roomVars, busVars, busy, accepting, at>>

ShutdownStep(h) ==
    \/ AdapterClosed(h)
    \/ AdapterFails(h)
    \/ Drained(h)
    \/ StoresClosed(h)

-----------------------------------------------------------------------------
Running(A) == exit = "no" /\ A

Next ==
    /\ exit = "no"
    /\ \/ \E e \in Event : Publish(e)
       \/ Receive
       \/ LinkDrops
       \/ LinkReturns
       \/ \E s \in Socket : SocketStep(s) \/ SocketEnds(s)
       \/ HeartbeatTimer
       \/ RequestArrives
       \/ RequestEnds
       \/ \E h \in Signal : Shutdown(h) \/ ShutdownStep(h)
       \/ ExitClean
       \/ Watchdog

Spec == Init /\ [][Next]_vars

\* Node.js handles what has come, timers run out, ws ends a closing socket (at
\* the latest by its own timer) and a promise of the shutdown settles.  Nobody
\* makes a client act, a request end or a signal come.
Fairness ==
    /\ WF_vars(Running(Receive))
    /\ WF_vars(Running(HeartbeatTimer))
    /\ WF_vars(Running(Watchdog))
    /\ \A s \in Socket : WF_vars(Running(SocketEnds(s)))
    /\ \A h \in Signal : WF_vars(Running(ShutdownStep(h)))

FairSpec == Spec /\ Fairness

-----------------------------------------------------------------------------
Sent(s) == {got[s][i] : i \in DOMAIN got[s]}

\* A socket is sent no event twice and none before an older one, and what is
\* still on its way is newer than all it has: the order of the channel reaches
\* every browser, over lost connections, unsubscribing and subscribing again.
InOrder ==
    \A s \in Socket :
        LET all == got[s] \o inbox
        IN  \A i, j \in DOMAIN all : i < j => all[i] < all[j]

\* The process implements the abstract feed: an event is sent to all the open sockets
\* of its room together or, when it was lost or nobody listens any more, to none.
Feed == INSTANCE SeatFeed WITH
            members <- [s \in Socket |-> IF conn[s] = "open" THEN topics[s] ELSE {}]

ImplementsFeed == Feed!Spec

\* A shutdown takes the stores away from no client: while it disconnects Redis and
\* PostgreSQL no socket is left, and none comes in behind its back.
StoresOutliveClients == \A h \in Signal : at[h] = "stores" => Clients = {}

\* Rooms are isolated: an event is only ever sent to an open socket that is
\* subscribed to that event at this moment.
RoomsAreIsolated ==
    [][\A s \in Socket : \A n \in DOMAIN feed :
          n \in Sent(s)' \ Sent(s) => conn[s] = "open" /\ feed[n] \in topics[s]]_vars

\* Members are told: while a listener is installed, no event is taken off the
\* connection before every open socket of its room has been sent it.
MembersAreTold ==
    [][\A s \in Socket : \A i \in DOMAIN inbox :
          LET n == inbox[i] IN
          /\ Listening /\ linked'
          /\ conn[s] = "open" /\ s \in Room(feed[n])
          /\ \A k \in DOMAIN inbox' : inbox'[k] # n
          => n \in Sent(s)']_vars

\* A peer that vanished without a word is found by the heartbeat and removed.
DeadSocketsLeave ==
    \A s \in Socket : mute[s] ~> conn[s] = "closed" \/ ~Listening

\* A shutdown ends the process, whatever fails on the way and however long a
\* request takes, unless a client that came in late stays for ever.
OnlyLatecomersDelay ==
    \/ []Listening
    \/ <>(exit # "no")
    \/ <>[](\E s \in Socket : conn[s] = "open")

\* A shutdown ends the process: "Timeout fallback for un-drained active
\* connections" (server.ts:53).
ShutdownEnds == ~Listening ~> exit # "no"
=============================================================================

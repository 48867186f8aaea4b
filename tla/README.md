# A TLA+ model of EventLock Engine

EventLock Engine (`src/`) sells seats. It promises that no seat is sold twice, that an
order which was accepted is settled, that a popular event does not drown the database, and
that every browser sees the seats change. Several application processes, settlement workers,
Redis and PostgreSQL share that work, and none of them waits for another. This directory
models those parts, model-checks them on small instances with TLC, and proves with TLAPS,
for every instance, the invariants and step properties that the model checker found to hold.

Line numbers below are those of `src/`; paths without a directory are under `src/src/`.

## 1. Inventory

| Component | State | Operations | What makes it correct |
|---|---|---|---|
| Seat locks: `services/redis-lock.service.ts`, `scripts/lua/atomic_seat_lock.lua`, `release_seat.lua` | key `seat:<event>:<seat>` with holdId, userId; EX 600 | acquire (GET, SET EX), release (compare, DEL), expiry and eviction | one hold per seat; a release deletes its own hold only |
| Ticket service: `services/ticket.service.ts` | `Seat.status`, `Order` rows | `holdSeat`, `createOrder`, `releaseSeat` | one order per seat; an accepted order reaches the stream; the two tables agree |
| Order stream and workers: `workers/stream-consumer.worker.ts`, `worker-entrypoint.ts` | `stream:orders`, its consumer group, the pending entries list (PEL), the batch in work | group creation, XAUTOCLAIM, XREADGROUP, `settleOrder`, `seat.booked`, XACK, shutdown | at-least-once delivery, idempotent settlement, the PEL drains |
| Ledger: `prisma/schema/*.prisma` | `Seat.status`, `Order.status` | conditional updates | SOLD exactly when an order is BOOKED |
| Seating-map cache: `services/stampede.service.ts`, `release_mutex.lua` | map key (EX 60), mutex key (PX 5000) | read, elect, second look, load, store, release, wait | one hydrator; bounded loads; no older map over a newer one; waiters get the map |
| Rate limiter: `middlewares/rateLimiter.ts`, `sliding_window.lua` | sorted set per client with EXPIRE | prune, add, count | at most the limit per window; no refusal without a cause |
| WebSocket rooms: `websocket/socket.server.ts` | `rooms` map, per-socket `eventIds` and `isAlive` | upgrade, subscribe, unsubscribe, pong, close, heartbeat, seat event, shutdown | both views of membership agree; nothing leaks; dead peers go |
| Pub/Sub backplane: `websocket/pubsub.adapter.ts` | subscriber's connection, listener, messages on their way | connect, publish, receive, disconnect | events reach the members of a room once and in order |
| Process lifecycle: `server.ts`, `worker-entrypoint.ts` | where each shutdown stands, what the server lets in, the watchdog | start, graceful shutdown, a second signal | a shutdown ends the process |
| Geo search: `services/geo.service.ts`, `prisma/seed.ts` | GEO index, venues and events tables | index sync at start-up, seeding, search | the nearest first; a short answer is complete |
| Diagnostics, Lua loader, configuration, HTTP plumbing | none that the others depend on | | (not modelled) |

### How they interact

`createOrder` (`ticket.service.ts:147-240`) goes through five awaits, each on another system:
read the seat (PostgreSQL), take the lock (Redis script), commit the order and turn the seat
HELD (PostgreSQL transaction), publish `seat.held` (Pub/Sub), append to the stream (XADD). Then
it answers 202. `holdSeat` stops after the lock and the event. `releaseSeat`
(`:251-286`) checks that there is no order, deletes the lock, frees a HELD row and
publishes. A worker reads the stream, settles every message of a batch concurrently
(`stream-consumer.worker.ts:188`), publishes `seat.booked` and acknowledges. The events reach
the WebSocket rooms of every process through Pub/Sub. The seating-map cache reads the same
seat rows, but nobody invalidates it. A search asks the GEO index in Redis for venues and then
PostgreSQL for their events; the index is filled from the venues table when a process starts and
at the end of the seed script, and never cleaned. A shutdown of `server.ts` awaits the adapter,
the WebSocket clients, the stores and the HTTP server, one after the other.

### What is hard

* Each arrow above is an await. Another call, release or worker may run in between, and what
  was read before it may be stale after it.
* No two of the stores share a transaction: a crash or a refused command leaves the earlier
  steps done. Nothing undoes a lock, a HELD row or an order.
* ioredis sends a command again after a reconnection: the first reply may be lost although
  the command ran.
* Redis takes keys away by TTL and, with `volatile-lru` (`redis.conf:2`), by eviction.
* Pub/Sub keeps nothing for a subscriber that is away, and a shutdown leaves doors open (upgrades,
  requests) while it waits for those behind them to leave.
* XAUTOCLAIM cannot tell a slow consumer from a dead one, so two workers may settle one order.

`PROJECT.json` lists these hazards line by line, with the properties aimed at each.

## 2. Modules

| Module | Models | Notes |
|---|---|---|
| `TicketBase` | the shared names | A *call* is one hold or order request. `acquireSeatHold` draws a fresh holdId for each, so call, holdId and order row share one name. |
| `SeatLock` | the two Lua scripts, expiry | each script is one atomic step |
| `SeatLedger` | seat and order rows | each operator is one transaction |
| `OrderStream` | stream, group, PEL, idle time | entries are named by position |
| `TicketEngine` | EXTENDS the three above; calls, releases, workers, Pub/Sub status | one action per await |
| `SeatSale` | the abstract promise: accept an order for an unsold seat, sell a seat once | refined by `TicketEngine` |
| `SeatingMapCache` | one event's cached map, its mutex and its readers | a map is the database version it was read from |
| `SeatingMapService` | the abstract promise of the cache: answers come from the database, are published first, and never go back | refined by `SeatingMapCache` |
| `SlidingWindow` | the limiter for one client | clock, lagging stamps, EXPIRE |
| `SocketRooms` | the rooms of one process | one operator per handler, no specification of its own |
| `AppServer` | EXTENDS `SocketRooms`; the subscriber side of the adapter, requests, the shutdown | one process; Redis and the others are its environment |
| `SeatFeed` | the abstract promise to a browser: an event reaches its whole audience at once or none of it, in order | refined by `AppServer` |
| `GeoSearch` | index, tables, seed script, one search | a coordinate is its distance from the point asked |
| `MCTicketEngine`, `MCSeatingMapCache`, `MCGeoSearch` | symmetry sets and fixtures for TLC | |
| `TicketEngineProofs`, `TicketEngineRefinement`, `TicketEngineDelivery`, `TicketEngineOrders`, `SeatingMapCacheProofs`, `SlidingWindowProofs`, `AppServerProofs`, `GeoSearchProofs` | theorems | section 5 |

`TicketEngine` correspondence: `pc[c]` is the await a call stands at (`read`, `acquire`,
`persist`, `announce`, `append`); `release[h]` is the same for the release of hold `h`; `wpc[w]` is the
place in `startOrderConsumer` and `jobs[w]` holds the messages still in `processMessage`;
`shown[s]` is the status last fanned out by Pub/Sub. Actions carry the name of the code's
function or of the command they await. A release whose userId or holdId does not match the lock
is refused without any change, so it is a stutter of the model.

`AppServer` correspondence: `feed` is what any process has published, `inbox` what is on its way over
the subscriber's connection (`linked`), `got[s]` what `onSeatEvent` has sent to socket `s`; `topics[s]`,
`alive[s]` and `rooms` are the fields of `socket.server.ts`. `at[h]` is the await at which the
`gracefulShutdown` started by signal `h` stands: `adapter` (`disconnect`), `drain`
(`webSocketServer.close`), `stores` (Redis and PostgreSQL), `http` (`server.close`, with the watchdog
armed). How many HTTP requests are in flight does not matter to a shutdown, so `busy` only says whether
there is one, and requests are counted from the first signal on: one that is still in flight then is as
good as one that comes right after it.

`GeoSearch` correspondence: `place` and `home` are the columns of venues and events that a search joins,
`todo[p]` the pipeline of a process that has read the venues and not sent all of its GEOADDs, `hits`,
`rows` and `answer` the three results of `searchNearbyEvents` in its three awaits (Prisma reads the
included venues by a second query). `inRange` and `steady` are history: what the index held within the
radius at GEOSEARCH, and which events could have been returned ever since. The seed script is one action
per statement and may die between any two.

*Faults* are what the environment does: a process dies (`AbortCall`, `AbortRelease`,
`WorkerCrash`), a command is refused (`AbortCall`, `JobFail`, the failing disjunct of
`Publish`), a reply is lost and the command repeated (second disjuncts of `AcquireSeat`,
`AppendOrder`, `ReleaseUnlock`, `AcquireMutex`). A graceful shutdown of a worker is a crash too:
`worker-entrypoint.ts:13-17` exits without waiting for the batch. `MaxFaults` bounds them.
Expiring holds and idle entries are not faults: they may happen at any moment, any number of times.

Operators marked "a faulty variant" state how a plausible bug would change the definition
below them. No specification uses them; replacing the definition by its variant makes the
property named with it in `PROJECT.json` fail, which shows that the property can fail.

## 3. Runs

| Run | Instance | Question and answer |
|---|---|---|
| `core_safety` | 3 calls, 1 seat, 2 workers, batch 1, releases, 1 fault (1.6 million states) | No double booking, tables agree, at-least-once delivery, recoverable work, accepted orders still in the stream, SOLD never shown early, sales final, no order under a release, releases touch their own hold only, a stream without endless copies, `SeatSale` implemented: all hold. |
| `core_liveness` | 2 calls, 1 seat, 2 workers, 1 fault, no releases, fair (165,472 states) | At most one order per seat, although holds lapse under their owners; no poison message; every order in the stream is booked in the end; an order that never settles is one whose call was cut short; the PEL drains: hold. |
| `cache` | 3 readers, 2 polls, 2 lapses, 1 overrun, 2 faults, 2 changes (86,705 states) | One hydrator, loads bounded, no regress, releases own mutex only, no answer undone by a later one, `SeatingMapService` implemented: hold. |
| `limiter` | window 3, limit 2, EXPIRE 4, lag 1, 8 ticks, 6 requests (183,383 states) | The limit holds in every stretch of the window less the lag; refusals have causes: hold. |
| `sockets` | 2 sockets, 2 rooms, 2 published events, 1 lost connection, 1 signal, fair (557,349 states) | Views agree, nothing leaks, rooms isolated, members told, in order and once; dead peers leave; only a client that came late delays a shutdown; the stores go after the last client; `SeatFeed` implemented: hold. |
| `geo` | 3 venues, 4 events, 2 fixtures, 1 reseeding, 1 server, limit 1, overfetch 2 (1.8 million states) | The nearest come first; a short answer misses only what lies behind COUNT venues: hold. |
| `first_deploy` | group not created yet | at-least-once delivery **violated** |
| `released_twice` | 3 calls, releases, no fault | one order per seat **violated** |
| `stranded_order` | 1 fault, fair | every committed order settles: **violated** |
| `booked_not_shown` | worker off the backplane, no fault, fair | a sold seat is shown as sold: **violated** |
| `cache_waiters` | 2 readers, no fault, fair | waiters get the map: **violated** |
| `shutdown_hangs` | 1 socket, 1 event, 2 signals, fair | a shutdown ends the process: **violated** |

**Bounds.** A double booking needs two orders of one seat; the third call lets a hold lapse, be
taken by another call and be released late by the first. Two workers are needed for one to claim
what the other still processes. A batch of one makes several batches necessary; a worker that
claims and reads in the same turn still has two messages at once, so their settlements
interleave. One fault suffices for each partial failure, one duplicate entry or one crash; with
releases and lapses, which need no fault, it also combines with them. The cache run has a reader to load, one
to win after an overrun and one to wait; two polls exercise "not the last" and "the last" turn
(`cache_waiters` keeps the code's eight). In the limiter the clock runs for more than two windows,
and twice the limit plus two requests are sent, so keys expire and refill. In `sockets` one socket can be
in a room while the other leaves it, joins it or is dead; two events make an order, and one lost connection
loses the first, the second or both. In `geo` two of the venues are equally near in one fixture, one moves
out of range in the other, and COUNT (2) is smaller than the index, so ghosts of the old fixture take the
places of venues that could be returned. Clocks and counters are bounded
only in guards named `MaxTime`, `MaxSent`, `MaxVersion`, `MaxLapses`, `MaxOverruns`, `MaxFaults`,
`MaxPublished`, `MaxDrops`, `MaxSeeds`.

**Deadlock** is checked in the engine runs: a consumer loop always has a next step. It is off where
the system may stop: all readers finished, all requests sent, a process shut down,
nobody searching.

**Fairness.** Engine: weak fairness of every call and release in flight (a promise is resolved or
refused), of every worker (the loop polls for ever, and `restart: always` in `docker-compose.yml:35-38`
brings a dead one back), of expiring holds and of entries growing idle (Redis's clock runs). Clients
are never obliged to send anything and faults never obliged to happen. Cache: weak fairness of each
reader's steps. Application process: weak fairness of the message handler, of the heartbeat timer and the
watchdog, of each await of a shutdown (its promise is resolved or refused), and of the `close` event, which
`ws` emits after `terminate()` and, by its closing timer, after `close()`. No client is obliged to act or to
leave, no request to end, no signal to come, no connection to return.

**Symmetry** is used in `core_safety` and `cache` only: they check invariants and
step properties, and their modules treat calls, seats, workers and readers alike.

## 4. What the violations show

1. `first_deploy` – the group is created at `$` (`stream-consumer.worker.ts:71`). Orders appended before
   the first worker ever came up are never delivered, against the at-least-once claim of `:173`.
2. `released_twice` – `releaseSeat` deletes the lock, then frees *any* HELD row (`ticket.service.ts:267`).
   Another call can lock the seat and commit in between; its row is freed and a third call gets an
   order for the same seat. `SoldOnce` still holds: one of the two orders never settles.
3. `stranded_order` – commit and XADD (`:174`, `:224`) are not atomic, and nothing looks for PROCESSING
   orders that never reached the stream.
4. `booked_not_shown` – `worker-entrypoint.ts:21-31` never connects the Pub/Sub adapter; its publish throws,
   the error is logged, and no browser ever learns that a seat is SOLD.
5. `cache_waiters` – waiters give up after 8 × 25 ms while the winner may take 5 s.
6. `shutdown_hangs` – upgrades are accepted while `close()` awaits the adapter (`server.ts:37`). Such a client
   is told nothing, the heartbeat timer is gone, and `webSocketServer.close` waits for it before the ten-second
   watchdog (`:53`) is armed. `OnlyLatecomersDelay` is the other half: nothing else can keep the process alive,
   neither a request that never ends, nor a refused QUIT, nor a second signal.

## 5. Proofs

All theorems hold for every value of the constants allowed by the named assumptions
(`NoHoldAssumption`, `FiniteAssumption`, `BatchAssumption`, `FaultsAssumption`, `CacheAssumption`, ...),
that is for any number of calls, seats, workers, readers and faults, and any batch size.

**`TicketEngineProofs`.** `TypeCorrect` is inductive by itself. `SoldOnce` and `LedgerAgrees` are not:
whether `JobSettle` may sell depends on what the message in hand says, on where its order stands and on
the row's status. The inductive invariant is `EngineTypeOK` with `SaleInv`:

* `LedgerAgrees` – SOLD exactly when an order of the seat is BOOKED; HELD only with a PROCESSING order;
* `SoldOnce` – no two BOOKED orders of one seat;
* `OrdersPassedCreate` – a call has an order only once it is past its transaction, so a call persists at most once;
* `EntriesAreOrders` – every stream entry names an order that exists;
* `JobsFollowOrders` – every job names a delivered entry; one at `announce` or `ack` has a BOOKED order.

The argument: a settlement needs the row HELD, so the seat is not SOLD, so nobody has bought it
(`LedgerAgrees`). The lemmas `PersistKeepsLedger` and `SettleKeepsLedger` do that for the two
transactions, `SaleInvStep` goes through the actions, and `NoDoubleBooking` and `LedgerConsistent`
follow. The stale read of `settleOrder` is harmless because the guard is on the row
and not on what was read.

**`TicketEngineRefinement`.** `LedgerStep` says which steps touch the tables: a transaction of `createOrder`
(an `Accept` of `SeatSale`), a settlement (a `Sell`), and steps that change no order and no SOLD seat
(stutters). From it: `SalesAreFinal`, and `EngineImplementsSale`: the engine implements `SeatSale` under
the mapping in `TicketEngine!Sale`. `ReleasesAreOwn` is proved action by action.

**`TicketEngineDelivery`.** `StreamStep` bounds what a step does to the stream and the batches: entries
stay, only an entry with a BOOKED order leaves the PEL, what the group passes is pending.
`WorkRecoverable` follows, and `DeliveredAtLeastOnce` for a group that exists (`FirstDeploy = FALSE`, the
precondition that run `first_deploy` shows to be necessary). `DeliveredOnceGrouped` needs no such
assumption: once the group exists it passes no entry by, so a first deployment loses only what is older.
`ShownIsSold`: `seat.booked` is published only from a job at `announce`, whose order is BOOKED.

**`TicketEngineOrders`.** Without releases (`ReleasesSent = FALSE`) a seat has one order that waits or is
booked: the order's transaction needs the row AVAILABLE, and nothing makes a row AVAILABLE again. The
invariant says that an order's seat is HELD or SOLD, and does not mention holds: the Redis lock may lapse at
any time (`OneOrderWithoutReleases`). Run `released_twice` shows the condition to be necessary.
`AcceptedOrdersStay`: a call that answered 202 has an entry, and an entry is pending, undelivered or
booked, if the group exists.

`NoOrderMeanwhile` is about the check-then-act of `releaseSeat`: it looks for an order and acts up to three awaits
later. It follows from `ReleasesAfterCalls`: a release is sent only for a hold whose call has ended without an
order, and a call that has ended persists nothing any more (`CallProgress`). `StreamBounded` needs the
accounting `EntriesPaid`: each entry is paid for by a call that has been answered or by a lost reply. It
also justifies the range of `EntryIdles` in `Fairness`: no entry lies beyond it. `OrdersKeepTheirSeats`
(without releases) joins the invariant of `OneOrderPerSeat` with `LedgerAgrees`: the seat of a waiting order
is not AVAILABLE, and it is not SOLD because its buyer would be a second order.

**`SeatingMapCacheProofs`.** `CacheTypeOK` needs `ReadersWellFormed` (a reader about to store has a map; a
waiting reader has polls left). The invariant `CacheInv` ties an elected reader to the mutex while no mutex has
been outlived; from it `StampedeShield`, `CacheMovesForward`; `LateReleaseIsHarmless` is a step property.
`DatabaseIsShielded` needs accounting: loads done, plus readers that were outlived by their mutex and may
still load (`Outlived`), plus one load that is due when the map is gone or an owner is about to load (`Due`),
never exceed the budget of `LoadsBounded`. Each lapse, fault and overrun pays for the one load it can cause.
The refinement of `SeatingMapService` rests on `CacheInv` and on `VersionsInOrder`: what readers hold, and what is
cached, is never newer than the database, and what was answered was published. `ReadsMoveForward` has the
same invariant: while no mutex has been outlived, a hit is the newest map published and a load is at
least as new.

**`SlidingWindowProofs`.** `WindowInv` relates the sorted set to the log: a request that ran less than
`Window - MaxLag` ago is still a member, under its own id, and the key outlives it (`Window <= Ttl`). The last
request let through in a stretch therefore counted all the others let through in it, which gives
`LimitIsKept`; and a member that counted against a refused request ran at most `Window + MaxLag` before it,
which gives `RefusalsAreDue`. The lag is assumed to be below the window.
`QuietClientsAreServed` draws the conclusion a client cares about: who waits for the window and the lag
is let through by the next request.

**`AppServerProofs`.** `RoomInv` (types, `RoomsMatchStates`, `NothingLeaks`) is inductive only as a whole:
`removeFromRooms` walks the socket's own list, so it empties the rooms because the two views agree, and a
socket that is gone is in no room because every way out goes through it. `OrderInv` splits `InOrder` into what
a socket has, what is on its way, and the one before the other. `RoomsIsolate` and `MembersHear` are step
properties from these. The refinement of `SeatFeed` takes a socket's audience to be its list of events while it
is open, and forgets rooms, connections, heartbeats and shutdowns: a received event is a `Deliver` because the
room is exactly the audience (`RoomInv`) and everything sent before is older (`OrderInv`); every way a socket
ends is a `Leave`. `DoorsStayShut` says that nothing is let in once `close` has run, and that a shutdown beyond
it has no client left; with it `StoresOutliveClients`.

**`GeoSearchProofs`.** `SearchInv` follows the search over its three reads: hits are the nearest of the index,
an event that stayed open is among the rows if it has a hit, and the answer takes the nearest of the rows.
Between the reads tables and index change freely; an event that stayed open has a venue that exists because
of `onDelete: SetNull` (`GeoInv`).

**Only model-checked.** Liveness (`PublishedOrdersSettle`, `PendingDrains`, `OnlyAbortsStrand`,
`DeadSocketsLeave`, `OnlyLatecomersDelay`): properties under fairness and ENABLED are out of the prover's
reach. Every invariant and every step property that a passing run checks is proved.

## 6. What is not modelled

* Geo search: the validation of a query, which refuses it before anything is read; the two reply formats of
  `parseGeoResults`; distances are numbers, not rounded strings. That the index is out of date, and that a
  sync that read before a reseeding can write after it although `geo.service.ts:41` says that concurrent
  syncs converge, happens in the model; no property says how fresh the index must be.
* The polar coordinates and columns of seats, migrations, the static client.
* Diagnostics benchmarks: they call the modelled operations and delete locks
  and cache keys, which `HoldLapses` and `CacheLapses` cover; they are refused in production.
* The Lua loader, connections and configuration: start-up I/O. A script that is missing later
  (NOSCRIPT) is a fault of the step that runs it.
* Routes, error handler, headers, validation: 400 and 404 answers change nothing. `OrderStatus` FAILED is
  declared and never assigned, so the model leaves it out.
* A Redis that forgets (AOF with `everysec`), failover, and memory itself.
* Entries `parsePayload` would reject: `createOrder`, the only producer, writes none.
* In `TicketEngine`, `Publish` has one outcome, delivered or failed, for all processes; the way of an event
  through one process is `AppServer`, for events of any origin. What a browser misses between its map download
  and its subscription is not stated anywhere in the code.
* What a request does that a shutdown cuts short: `AbortCall` of `TicketEngine`, not part of `AppServer`.

## 7. Order of the work

Done, in this order: the engine core and its abstract sale; its proofs; the cache and its proofs; the
limiter; the rooms; the application process around them (adapter, requests, shutdown); the geo search; the
proofs of the remaining invariants; the abstract map service and the abstract feed with their refinements; the
release, the stream and the order of a shutdown.

Left, should the code or the questions grow:

1. Several application processes in one model, with the engine's `Publish` feeding the `feed` of each.
2. A Redis that loses the last second of its append-only file: which of the promises above survive.

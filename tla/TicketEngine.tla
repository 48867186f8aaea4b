---------------------------- MODULE TicketEngine ----------------------------
(***************************************************************************)
(* The ticket engine: the HTTP calls of services/ticket.service.ts and the *)
(* settlement workers of workers/stream-consumer.worker.ts, interleaved at *)
(* every await, over the Redis seat locks (SeatLock), the PostgreSQL rows  *)
(* (SeatLedger) and the order stream (OrderStream).                        *)
(*                                                                         *)
(* A Fault is whatever the environment does to a process or a connection:  *)
(* a crash or restart, a refused command, a reply lost on the way back and *)
(* the command sent again by ioredis.  At most MaxFaults happen.           *)
(***************************************************************************)
EXTENDS SeatLock, SeatLedger, OrderStream

CONSTANTS Kinds,             \* the requests clients send: "hold", "order"
          ReleasesSent,      \* do clients call POST /tickets/release?
          WorkerOnBackplane, \* is the worker process connected to Pub/Sub?
          MaxFaults          \* bound on environment faults

ASSUME KindsAssumption == Kinds \subseteq {"hold", "order"}
ASSUME SwitchAssumption ==
    ReleasesSent \in BOOLEAN /\ WorkerOnBackplane \in BOOLEAN
ASSUME FaultsAssumption == MaxFaults \in Nat

VARIABLES
    req,        \* req[c]: what call c asks for, [kind, seat]; never changes
    pc,         \* pc[c]: the await at which call c stands
    release,    \* release[h]: where the releaseSeat call for hold h stands
    shown,      \* shown[s]: the status in the last seat event Redis Pub/Sub
                \* fanned out to the browsers
    wpc,        \* wpc[w]: where the consumer loop of worker w stands
    jobs,       \* jobs[w]: the messages of w's batch still in processMessage
    faults      \* environment faults so far

vars == <<lock, seat, order, streamVars, req, pc, release, shown, wpc, jobs, faults>>

Request  == [kind : Kinds, seat : Seat]
CallPC   == {"read", "acquire", "persist", "announce", "append",
             "done", "rejected", "aborted"}
Finished == {"done", "rejected", "aborted"}
ReleasePC == {"idle", "unlock", "free", "announce"}
WorkerPC == {"init", "claim", "read", "work"}
JobStep  == {"load", "settle", "announce", "ack"}
Job      == [entry : Nat, step : JobStep]

Target(c)  == req[c].seat
IsOrder(c) == req[c].kind = "order"

EngineTypeOK ==
    /\ LockTypeOK
    /\ LedgerTypeOK
    /\ StreamTypeOK
    /\ req \in [Call -> Request]
    /\ pc \in [Call -> CallPC]
    /\ release \in [Call -> ReleasePC]
    /\ shown \in [Seat -> SeatStatus]
    /\ wpc \in [Worker -> WorkerPC]
    /\ jobs \in [Worker -> SUBSET Job]
    /\ faults \in 0..MaxFaults

Init ==
    /\ LockInit
    /\ LedgerInit
    /\ StreamInit
    /\ req \in [Call -> Request]
    /\ pc = [c \in Call |-> "read"]
    /\ release = [c \in Call |-> "idle"]
    /\ shown = [s \in Seat |-> "AVAILABLE"]
    /\ wpc = [w \in Worker |-> "init"]
    /\ jobs = [w \in Worker |-> {}]
    /\ faults = 0

Fault   == faults < MaxFaults /\ faults' = faults + 1
NoFault == UNCHANGED faults

lockVars    == lock
ledgerVars  == <<seat, order>>
workerVars  == <<wpc, jobs>>

Goto(c, next) == pc' = [pc EXCEPT ![c] = next]

\* publishSeatEvent: the event is fanned out, or the PUBLISH fails and the
\* failure is only logged.
Publish(s, status) ==
    \/ shown' = [shown EXCEPT ![s] = status] /\ NoFault
    \/ UNCHANGED shown /\ Fault

-----------------------------------------------------------------------------
(* holdSeat and createOrder.                                               *)

\* The database read: a SOLD seat is refused before Redis is asked.
ReadSeat(c) ==
    /\ pc[c] = "read"
    /\ Goto(c, IF seat[Target(c)] = "SOLD" THEN "rejected" ELSE "acquire")
    /\ NoFault
    /\ UNCHANGED <<lockVars, ledgerVars, streamVars, workerVars, req, release, shown>>

\* acquireSeatHold.  When the connection drops after the script ran, ioredis
\* sends it again, the second run finds the key and answers 0: the call is
\* refused while its own hold stays in Redis.
AcquireSeat(c) ==
    /\ pc[c] = "acquire"
    /\ \/ /\ AcquireHold(Target(c), c)
          /\ Goto(c, IF IsOrder(c) THEN "persist" ELSE "announce")
          /\ NoFault
       \/ /\ AcquireHold(Target(c), c)
          /\ Goto(c, "rejected")
          /\ Fault
       \/ /\ HoldTaken(Target(c))
          /\ Goto(c, "rejected")
          /\ NoFault
          /\ UNCHANGED lock
    /\ UNCHANGED <<ledgerVars, streamVars, workerVars, req, release, shown>>

\* createOrder's transaction.  A seat that is no longer AVAILABLE is a 409; the
\* hold the call took one step earlier is left in Redis.
CreateOrder(c) ==
    /\ pc[c] = "persist"
    /\ IF CanPersist(Target(c))
       THEN PersistOrder(c, Target(c)) /\ Goto(c, "announce")
       ELSE Goto(c, "rejected") /\ UNCHANGED ledgerVars
    /\ NoFault
    /\ UNCHANGED <<lockVars, streamVars, workerVars, req, release, shown>>

AnnounceHeld(c) ==
    /\ pc[c] = "announce"
    /\ Publish(Target(c), "HELD")
    /\ Goto(c, IF IsOrder(c) THEN "append" ELSE "done")
    /\ UNCHANGED <<lockVars, ledgerVars, streamVars, workerVars, req, release>>

\* (A faulty variant: createOrder retries the XADD until it has seen an answer.)
AppendOrderRetried(c) ==
    /\ pc[c] = "append"
    /\ XAdd(c)
    /\ Goto(c, "done") \/ UNCHANGED pc
    /\ NoFault
    /\ UNCHANGED <<lockVars, ledgerVars, workerVars, req, release, shown>>

\* createOrder's XADD; with its reply lost, ioredis sends it again and the
\* stream gets the order twice.
AppendOrder(c) ==
    /\ pc[c] = "append"
    /\ XAdd(c)
    /\ \/ Goto(c, "done") /\ NoFault
       \/ UNCHANGED pc /\ Fault
    /\ UNCHANGED <<lockVars, ledgerVars, workerVars, req, release, shown>>

\* The process dies, or the command at this await is refused and the call
\* throws.  Nothing undoes what the earlier steps did.
AbortCall(c) ==
    /\ pc[c] \notin Finished
    /\ Goto(c, "aborted")
    /\ Fault
    /\ UNCHANGED <<lockVars, ledgerVars, streamVars, workerVars, req, release, shown>>

-----------------------------------------------------------------------------
(* releaseSeat, for a hold whose id the client knows: holdSeat returned it *)
(* or createOrder announced it.  One release of a hold is in flight at a   *)
(* time; a refused one may be sent again.                                  *)

ReleaseGoto(h, next) == release' = [release EXCEPT ![h] = next]

\* (A faulty variant: the holdId is handed out before the order is committed.)
HoldKnownEarly(h) == pc[h] \in {"persist", "append", "done"}

HoldKnown(h) == pc[h] \in {"append", "done"}

ReleaseCheck(h) ==
    /\ ReleasesSent
    /\ release[h] = "idle" /\ HoldKnown(h)
    /\ order[h] = "NONE"
    /\ ReleaseGoto(h, "unlock")
    /\ NoFault
    /\ UNCHANGED <<lockVars, ledgerVars, streamVars, workerVars, req, pc, shown>>

\* The release script; a hold that is gone, or whose seat is somebody else's by
\* now, is a 409.  A deletion whose reply is lost is sent again and answers 0.
ReleaseUnlock(h) ==
    /\ release[h] = "unlock"
    /\ \/ /\ ReleaseHold(Target(h), h)
          /\ ReleaseGoto(h, "free")
          /\ NoFault
       \/ /\ ReleaseHold(Target(h), h)
          /\ ReleaseGoto(h, "idle")
          /\ Fault
       \/ /\ ~Owns(Target(h), h)
          /\ ReleaseGoto(h, "idle")
          /\ NoFault
          /\ UNCHANGED lock
    /\ UNCHANGED <<ledgerVars, streamVars, workerVars, req, pc, shown>>

ReleaseFree(h) ==
    /\ release[h] = "free"
    /\ FreeSeat(Target(h))
    /\ ReleaseGoto(h, "announce")
    /\ NoFault
    /\ UNCHANGED <<lockVars, streamVars, workerVars, req, pc, shown>>

ReleaseAnnounce(h) ==
    /\ release[h] = "announce"
    /\ Publish(Target(h), "AVAILABLE")
    /\ ReleaseGoto(h, "idle")
    /\ UNCHANGED <<lockVars, ledgerVars, streamVars, workerVars, req, pc>>

AbortRelease(h) ==
    /\ release[h] # "idle"
    /\ ReleaseGoto(h, "idle")
    /\ Fault
    /\ UNCHANGED <<lockVars, ledgerVars, streamVars, workerVars, req, pc, shown>>

-----------------------------------------------------------------------------
(* The consumer loop: claim, read, process the batch, again.               *)

WorkerGoto(w, next) == wpc' = [wpc EXCEPT ![w] = next]

NewJobs(E) == {[entry |-> e, step |-> "load"] : e \in E}

WorkerInit(w) ==
    /\ wpc[w] = "init"
    /\ CreateGroup
    /\ WorkerGoto(w, "claim")
    /\ NoFault
    /\ UNCHANGED <<lockVars, ledgerVars, jobs, req, pc, release, shown>>

WorkerClaim(w) ==
    /\ wpc[w] = "claim"
    /\ XAutoClaim
    /\ jobs' = [jobs EXCEPT ![w] = NewJobs(Claimable)]
    /\ WorkerGoto(w, "read")
    /\ NoFault
    /\ UNCHANGED <<lockVars, ledgerVars, req, pc, release, shown>>

\* An empty batch goes straight to the next poll.
WorkerRead(w) ==
    /\ wpc[w] = "read"
    /\ XReadGroup
    /\ jobs' = [jobs EXCEPT ![w] = @ \cup NewJobs(Readable)]
    /\ WorkerGoto(w, IF jobs'[w] = {} THEN "claim" ELSE "work")
    /\ NoFault
    /\ UNCHANGED <<lockVars, ledgerVars, req, pc, release, shown>>

\* Crash, restart, or a graceful shutdown, which exits without waiting for the
\* batch.  The container comes back with a new consumer name.
WorkerCrash(w) ==
    /\ wpc[w] # "init"
    /\ WorkerGoto(w, "init")
    /\ jobs' = [jobs EXCEPT ![w] = {}]
    /\ Fault
    /\ UNCHANGED <<lockVars, ledgerVars, streamVars, req, pc, release, shown>>

-----------------------------------------------------------------------------
(* processMessage, once per message of the batch, all of them concurrently.*)

OrderOf(j) == stream[j.entry]

Working(w, j, step) == wpc[w] = "work" /\ j \in jobs[w] /\ j.step = step

Step(w, j, next) ==
    /\ jobs' = [jobs EXCEPT ![w] = (@ \ {j}) \cup {[j EXCEPT !.step = next]}]
    /\ UNCHANGED wpc

\* The message is finished with; the last one of the batch ends Promise.all.
Finish(w, j) ==
    /\ jobs' = [jobs EXCEPT ![w] = @ \ {j}]
    /\ WorkerGoto(w, IF jobs[w] = {j} THEN "claim" ELSE "work")

\* (Faulty variants: the event goes out before the seat is sold; a BOOKED order
\* is skipped without the acknowledgement.)
JobLoadOptimistic(w, j) ==
    /\ Working(w, j, "load")
    /\ Step(w, j, "announce")
    /\ NoFault
    /\ UNCHANGED <<lockVars, ledgerVars, streamVars, req, pc, release, shown>>

JobLoadSkips(w, j) ==
    /\ Working(w, j, "load")
    /\ IF order[OrderOf(j)] = "BOOKED" THEN Finish(w, j) ELSE Step(w, j, "settle")
    /\ NoFault
    /\ UNCHANGED <<lockVars, ledgerVars, streamVars, req, pc, release, shown>>

\* settleOrder reads the order: BOOKED already means there is nothing to do.
JobLoad(w, j) ==
    /\ Working(w, j, "load")
    /\ Step(w, j, IF order[OrderOf(j)] = "BOOKED" THEN "announce" ELSE "settle")
    /\ NoFault
    /\ UNCHANGED <<lockVars, ledgerVars, streamVars, req, pc, release, shown>>

\* settleOrder's updates, on what it read earlier.  Without a HELD seat it
\* throws, and the message stays in the PEL.
JobSettle(w, j) ==
    /\ Working(w, j, "settle")
    /\ LET c == OrderOf(j) IN
       IF CanSettle(Target(c))
       THEN SettleOrder(c, Target(c)) /\ Step(w, j, "announce")
       ELSE Finish(w, j) /\ UNCHANGED ledgerVars
    /\ NoFault
    /\ UNCHANGED <<lockVars, streamVars, req, pc, release, shown>>

\* The seat.booked event.  In a process that never connected the adapter the
\* publish throws, and the error is only logged.
JobAnnounce(w, j) ==
    /\ Working(w, j, "announce")
    /\ IF WorkerOnBackplane
       THEN Publish(Target(OrderOf(j)), "SOLD")
       ELSE UNCHANGED shown /\ NoFault
    /\ Step(w, j, "ack")
    /\ UNCHANGED <<lockVars, ledgerVars, streamVars, req, pc, release>>

JobAck(w, j) ==
    /\ Working(w, j, "ack")
    /\ XAck(j.entry)
    /\ Finish(w, j)
    /\ NoFault
    /\ UNCHANGED <<lockVars, ledgerVars, req, pc, release, shown>>

\* A command of the message fails; the error is logged, the message stays in
\* the PEL until it is claimed again.
JobFail(w, j) ==
    /\ wpc[w] = "work" /\ j \in jobs[w]
    /\ Finish(w, j)
    /\ Fault
    /\ UNCHANGED <<lockVars, ledgerVars, streamVars, req, pc, release, shown>>

-----------------------------------------------------------------------------
(* Time.                                                                   *)

HoldLapses(s) ==
    /\ ExpireHold(s)
    /\ NoFault
    /\ UNCHANGED <<ledgerVars, streamVars, workerVars, req, pc, release, shown>>

EntryIdles(e) ==
    /\ PassIdleTime(e)
    /\ NoFault
    /\ UNCHANGED <<lockVars, ledgerVars, workerVars, req, pc, release, shown>>

-----------------------------------------------------------------------------
CallStep(c) ==
    \/ ReadSeat(c)
    \/ AcquireSeat(c)
    \/ CreateOrder(c)
    \/ AnnounceHeld(c)
    \/ AppendOrder(c)

ReleaseStep(h) ==
    \/ ReleaseUnlock(h)
    \/ ReleaseFree(h)
    \/ ReleaseAnnounce(h)

JobAction(w, j) ==
    \/ JobLoad(w, j)
    \/ JobSettle(w, j)
    \/ JobAnnounce(w, j)
    \/ JobAck(w, j)

WorkerStep(w) ==
    \/ WorkerInit(w)
    \/ WorkerClaim(w)
    \/ WorkerRead(w)
    \/ \E j \in jobs[w] : JobAction(w, j)

Crash ==
    \/ \E c \in Call : AbortCall(c)
    \/ \E h \in Call : AbortRelease(h)
    \/ \E w \in Worker : WorkerCrash(w)
    \/ \E w \in Worker : \E j \in jobs[w] : JobFail(w, j)

Next ==
    \/ \E c \in Call : CallStep(c)
    \/ \E h \in Call : ReleaseCheck(h) \/ ReleaseStep(h)
    \/ \E w \in Worker : WorkerStep(w)
    \/ \E s \in Seat : HoldLapses(s)
    \/ \E e \in pending : EntryIdles(e)
    \/ Crash

Spec == Init /\ [][Next]_vars
-----------------------------------------------------------------------------
(* Fairness.  Promises that are not refused settle, the loop polls forever  *)
(* and a crashed worker is restarted, Redis expires keys and lets entries   *)
(* grow idle.  Nothing makes a client send a release, and faults only are   *)
(* bounded, never required.                                                 *)

MaxEntries == Cardinality(Call) + MaxFaults

Fairness ==
    /\ \A c \in Call : WF_vars(CallStep(c)) /\ WF_vars(ReleaseStep(c))
    /\ \A w \in Worker : WF_vars(WorkerStep(w))
    /\ \A s \in Seat : WF_vars(HoldLapses(s))
    /\ \A e \in 1..MaxEntries : WF_vars(EntryIdles(e))

FairSpec == Spec /\ Fairness

-----------------------------------------------------------------------------
(* What the engine promises.                                               *)

Booked(s)  == {c \in Call : order[c] = "BOOKED" /\ Target(c) = s}
Ordered(s) == {c \in Call : order[c] # "NONE" /\ Target(c) = s}

\* Zero double-booking: however calls, releases, lapsing holds, redeliveries
\* and crashes interleave, no seat is ever booked by two orders.
SoldOnce ==
    \A c, d \in Call :
        order[c] = "BOOKED" /\ order[d] = "BOOKED" /\ Target(c) = Target(d) => c = d

\* The engine implements the abstract sale: orders and seats only ever move by
\* accepting an order for an unsold seat and by selling a seat once.
Sale == INSTANCE SeatSale WITH
            Order <- Call,
            claim <- [c \in Call |-> IF order[c] = "NONE" THEN {} ELSE {Target(c)}],
            buyer <- [s \in Seat |-> Booked(s)]

ImplementsSale == Sale!Spec

\* The two tables agree: a seat is SOLD exactly when an order for it is BOOKED,
\* and a seat is HELD only while an order for it is waiting to be settled.
LedgerAgrees ==
    \A s \in Seat :
        /\ seat[s] = "SOLD" <=> Booked(s) # {}
        /\ seat[s] = "HELD" => \E c \in Ordered(s) : order[c] = "PROCESSING"

\* At-least-once delivery: an entry the group has passed leaves the PEL only
\* when its order is BOOKED, whatever fails, crashes or is claimed meanwhile.
AtLeastOnce ==
    \A e \in 1..cursor : e \notin pending => order[stream[e]] = "BOOKED"

\* A message of a batch in work is in the PEL, or some worker has settled it:
\* a worker may die at any step and the order is still delivered again.
WorkIsRecoverable ==
    \A w \in Worker : \A j \in jobs[w] :
        j.entry \in pending \/ order[OrderOf(j)] = "BOOKED"

\* The browsers are never told SOLD of a seat that can still be sold.
ShownSoldIsSold == \A s \in Seat : shown[s] = "SOLD" => seat[s] = "SOLD"

\* A sale is final: no order, release or redelivery takes a seat out of SOLD or
\* an order out of BOOKED.
SoldIsFinal ==
    [][/\ \A s \in Seat : seat[s] = "SOLD" => seat'[s] = "SOLD"
       /\ \A c \in Call : order[c] = "BOOKED" => order'[c] = "BOOKED"]_vars

\* A release removes no hold but its own: when a step of a release of h changes
\* a lock, the lock held h.  A stale release never frees a newer hold.
OwnReleaseOnly ==
    [][\A h \in Call : release'[h] # release[h] =>
          \A s \in Seat : lock'[s] # lock[s] => lock[s] = h /\ lock'[s] = NoHold]_vars

\* Without releases, the locks and the conditional updates together admit one
\* order per seat, even though a hold can lapse under the call that took it.
OneOrderPerSeat == \A s \in Seat : Cardinality(Ordered(s)) <= 1

\* releaseSeat looks for an order first and acts several awaits later: none appears
\* for the hold in between, so a release never takes the lock of an order.
NoOrderMeanwhile == \A h \in Call : release[h] # "idle" => order[h] = "NONE"

\* Nothing trims the stream, but it does not fill up with copies either: each call
\* adds its order once, and once more for each reply that was lost.
StreamBounded == Len(stream) <= MaxEntries

\* Without releases no message is poison: an order that waits to be settled has its
\* seat, so a settlement is refused only when another worker has booked the order.
OrdersKeepTheirSeats ==
    \A c \in Call : order[c] = "PROCESSING" => seat[Target(c)] = "HELD"

\* An order the client was told about (202, PROCESSING) is either booked, or
\* some entry for it is still to be delivered or delivered and not acknowledged.
AcceptedNotLost ==
    \A c \in Call : pc[c] = "done" /\ IsOrder(c) =>
        \/ order[c] = "BOOKED"
        \/ \E e \in Entry : stream[e] = c /\ (e > cursor \/ e \in pending)

\* Every order that reached the stream is eventually booked, through worker
\* crashes, duplicate entries and failed acknowledgements.
PublishedOrdersSettle ==
    \A c \in Call : (\E e \in Entry : stream[e] = c) ~> order[c] = "BOOKED"

\* The PEL drains: in the end every delivery has been acknowledged.
PendingDrains == <>[](pending = {})

\* Every committed order is eventually settled.
AcceptedOrdersSettle ==
    \A c \in Call : order[c] = "PROCESSING" ~> order[c] # "PROCESSING"

\* Without releases an order is stranded only when its own call was cut short:
\* every other committed order is eventually booked.
OnlyAbortsStrand ==
    \A c \in Call : order[c] = "PROCESSING" ~> order[c] = "BOOKED" \/ pc[c] = "aborted"

\* A seat that has been sold is eventually shown as sold.
BookedIsShown == \A s \in Seat : seat[s] = "SOLD" ~> shown[s] = "SOLD"
=============================================================================

------------------------- MODULE TicketEngineProofs -------------------------
(***************************************************************************)
(* Proofs about TicketEngine, for any numbers of calls, seats, workers and *)
(* faults, any batch size and any mix of requests.                         *)
(***************************************************************************)
EXTENDS TicketEngine, TLAPS

\* Every variable keeps its type: among others, the PEL only holds delivered
\* entries and idle entries are in the PEL (readMessages, claimPendingMessages, XACK).
LEMMA TypeCorrect == Spec => []EngineTypeOK
<1> USE BatchAssumption, FaultsAssumption
<1>1. Init => EngineTypeOK
  BY DEF Init, EngineTypeOK, LockInit, LedgerInit, StreamInit, LockTypeOK, LedgerTypeOK,
         StreamTypeOK, SeatStatus, OrderStatus, CallPC, ReleasePC, WorkerPC
<1>2. EngineTypeOK /\ [Next]_vars => EngineTypeOK'
  <2> SUFFICES ASSUME EngineTypeOK, [Next]_vars
               PROVE  EngineTypeOK'
    OBVIOUS
  <2> USE DEF EngineTypeOK, LockTypeOK, LedgerTypeOK, StreamTypeOK, streamVars,
              lockVars, ledgerVars, workerVars, Fault, NoFault
  <2>a. \A c \in Call : Target(c) \in Seat
    BY DEF Target, Request
  <2>b. ASSUME NEW w \in Worker, NEW j \in jobs[w], NEW next \in JobStep, Step(w, j, next)
        PROVE  jobs' \in [Worker -> SUBSET Job] /\ wpc' = wpc
    <3>1. [j EXCEPT !.step = next] \in Job
      BY DEF Job
    <3>2. (jobs[w] \ {j}) \cup {[j EXCEPT !.step = next]} \in SUBSET Job
      BY <3>1
    <3> QED
      BY <2>b, <3>2 DEF Step
  <2>c. ASSUME NEW w \in Worker, NEW j \in jobs[w], Finish(w, j)
        PROVE  jobs' \in [Worker -> SUBSET Job] /\ wpc' \in [Worker -> WorkerPC]
    BY <2>c DEF Finish, WorkerGoto, WorkerPC
  <2>1. CASE UNCHANGED vars
    BY <2>1 DEF vars
  <2>2. ASSUME NEW c \in Call, ReadSeat(c)
        PROVE  EngineTypeOK'
    BY <2>2 DEF ReadSeat, Goto, CallPC
  <2>3. ASSUME NEW c \in Call, AcquireSeat(c)
        PROVE  EngineTypeOK'
    <3>1. lock' \in [Seat -> Call \cup {NoHold}]
      BY <2>3, <2>a DEF AcquireSeat, AcquireHold
    <3>2. pc' \in [Call -> CallPC]
      BY <2>3, Zenon DEF AcquireSeat, Goto, CallPC
    <3>3. faults' \in 0..MaxFaults
      BY <2>3 DEF AcquireSeat
    <3> QED
      BY <2>3, <3>1, <3>2, <3>3 DEF AcquireSeat
  <2>4. ASSUME NEW c \in Call, CreateOrder(c)
        PROVE  EngineTypeOK'
    BY <2>4 DEF CreateOrder, PersistOrder, Goto, CallPC, SeatStatus, OrderStatus
  <2>5. ASSUME NEW c \in Call, AnnounceHeld(c)
        PROVE  EngineTypeOK'
    BY <2>5 DEF AnnounceHeld, Publish, Goto, CallPC, SeatStatus, IsOrder
  <2>6. ASSUME NEW c \in Call, AppendOrder(c)
        PROVE  EngineTypeOK'
    <3>1. /\ stream' = Append(stream, c)
          /\ UNCHANGED <<lock, seat, order, group, cursor, pending, idle, req, release,
                         shown, wpc, jobs>>
          /\ pc' \in [Call -> CallPC]
          /\ faults' \in 0..MaxFaults
      BY <2>6 DEF AppendOrder, XAdd, Goto, CallPC
    <3>2. stream' \in Seq(Call) /\ Len(stream') = Len(stream) + 1
      BY <2>6, <3>1
    <3>3. StreamTypeOK'
      BY <3>1, <3>2
    <3> QED
      BY <3>1, <3>3
  <2>7. ASSUME NEW c \in Call, AbortCall(c)
        PROVE  EngineTypeOK'
    BY <2>7 DEF AbortCall, Goto, CallPC
  <2>8. ASSUME NEW h \in Call, ReleaseCheck(h)
        PROVE  EngineTypeOK'
    BY <2>8 DEF ReleaseCheck, ReleaseGoto, ReleasePC
  <2>9. ASSUME NEW h \in Call, ReleaseUnlock(h)
        PROVE  EngineTypeOK'
    BY <2>9 DEF ReleaseUnlock, ReleaseHold, ReleaseGoto, ReleasePC
  <2>10. ASSUME NEW h \in Call, ReleaseFree(h)
         PROVE  EngineTypeOK'
    BY <2>10 DEF ReleaseFree, FreeSeat, ReleaseGoto, ReleasePC, SeatStatus
  <2>11. ASSUME NEW h \in Call, ReleaseAnnounce(h)
         PROVE  EngineTypeOK'
    BY <2>11 DEF ReleaseAnnounce, Publish, ReleaseGoto, ReleasePC, SeatStatus
  <2>12. ASSUME NEW h \in Call, AbortRelease(h)
         PROVE  EngineTypeOK'
    BY <2>12 DEF AbortRelease, ReleaseGoto, ReleasePC
  <2>13. ASSUME NEW w \in Worker, WorkerInit(w)
         PROVE  EngineTypeOK'
    BY <2>13 DEF WorkerInit, CreateGroup, WorkerGoto, WorkerPC
  <2>14. ASSUME NEW w \in Worker, WorkerClaim(w)
         PROVE  EngineTypeOK'
    <3>0. Claimable \subseteq Nat
      <4>1. Claimable \subseteq idle
        BY DEF Claimable
      <4> QED
        BY <4>1
    <3>1. NewJobs(Claimable) \subseteq Job
      BY <3>0 DEF NewJobs, Job, JobStep
    <3> QED
      BY <2>14, <3>1 DEF WorkerClaim, XAutoClaim, WorkerGoto, WorkerPC
  <2>15. ASSUME NEW w \in Worker, WorkerRead(w)
         PROVE  EngineTypeOK'
    <3>1. NewJobs(Readable) \subseteq Job
      BY DEF NewJobs, Readable, Job, JobStep
    <3>2. /\ NewCursor \in cursor..Len(stream)
          /\ Readable \subseteq 1..NewCursor
      BY DEF NewCursor, Readable
    <3> QED
      BY <2>15, <3>1, <3>2 DEF WorkerRead, XReadGroup, WorkerGoto, WorkerPC
  <2>16. ASSUME NEW w \in Worker, WorkerCrash(w)
         PROVE  EngineTypeOK'
    BY <2>16 DEF WorkerCrash, WorkerGoto, WorkerPC
  <2>17. ASSUME NEW w \in Worker, NEW j \in jobs[w], JobLoad(w, j)
         PROVE  EngineTypeOK'
    BY <2>17, <2>b DEF JobLoad, JobStep
  <2>18. ASSUME NEW w \in Worker, NEW j \in jobs[w], JobSettle(w, j)
         PROVE  EngineTypeOK'
    <3>1. jobs' \in [Worker -> SUBSET Job] /\ wpc' \in [Worker -> WorkerPC]
      BY <2>18, <2>b, <2>c DEF JobSettle, JobStep
    <3>2. seat' \in [Seat -> SeatStatus] /\ order' \in [Call -> OrderStatus]
      BY <2>18 DEF JobSettle, SettleOrder, SeatStatus, OrderStatus
    <3> QED
      BY <2>18, <3>1, <3>2 DEF JobSettle
  <2>19. ASSUME NEW w \in Worker, NEW j \in jobs[w], JobAnnounce(w, j)
         PROVE  EngineTypeOK'
    BY <2>19, <2>b DEF JobAnnounce, Publish, JobStep, SeatStatus
  <2>20. ASSUME NEW w \in Worker, NEW j \in jobs[w], JobAck(w, j)
         PROVE  EngineTypeOK'
    BY <2>20, <2>c DEF JobAck, XAck
  <2>21. ASSUME NEW w \in Worker, NEW j \in jobs[w], JobFail(w, j)
         PROVE  EngineTypeOK'
    BY <2>21, <2>c DEF JobFail
  <2>22. ASSUME NEW s \in Seat, HoldLapses(s)
         PROVE  EngineTypeOK'
    BY <2>22 DEF HoldLapses, ExpireHold
  <2>23. ASSUME NEW e \in pending, EntryIdles(e)
         PROVE  EngineTypeOK'
    BY <2>23 DEF EntryIdles, PassIdleTime
  <2> QED
    BY <2>1, <2>2, <2>3, <2>4, <2>5, <2>6, <2>7, <2>8, <2>9, <2>10, <2>11, <2>12, <2>13,
       <2>14, <2>15, <2>16, <2>17, <2>18, <2>19, <2>20, <2>21, <2>22, <2>23
    DEF Next, CallStep, ReleaseStep, WorkerStep, JobAction, Crash
<1> QED
  BY <1>1, <1>2, PTL DEF Spec
-----------------------------------------------------------------------------
(* The inductive invariant behind the sale: the two tables agree, an order *)
(* row exists only for a call that passed its transaction, an entry only   *)
(* for a committed order, and a worker only acknowledges or announces what *)
(* is BOOKED.  Without it SoldOnce is not inductive: a PROCESSING order    *)
(* could stand next to a BOOKED one on a HELD seat.                        *)

OrdersPassedCreate ==
    \A c \in Call :
        /\ order[c] # "NONE" => pc[c] \in {"announce", "append", "done", "aborted"}
        /\ IsOrder(c) /\ pc[c] \in {"announce", "append", "done"} => order[c] # "NONE"
        /\ pc[c] \in {"persist", "append"} => IsOrder(c)

EntriesAreOrders == \A e \in Entry : order[stream[e]] # "NONE"

JobsFollowOrders ==
    \A w \in Worker : \A j \in jobs[w] :
        /\ j.entry \in 1..cursor
        /\ j.step \in {"announce", "ack"} => order[OrderOf(j)] = "BOOKED"

SaleInv ==
    /\ LedgerAgrees
    /\ SoldOnce
    /\ OrdersPassedCreate
    /\ EntriesAreOrders
    /\ JobsFollowOrders

\* The variables SaleInv reads.
saleVars == <<seat, order, req, pc, stream, cursor, jobs>>

\* createOrder's transaction moves one seat AVAILABLE -> HELD and adds one order
\* for it: the tables stay in agreement.
LEMMA PersistKeepsLedger ==
    ASSUME EngineTypeOK, LedgerAgrees, SoldOnce, NEW c \in Call, order[c] = "NONE",
           PersistOrder(c, Target(c)), UNCHANGED req
    PROVE  LedgerAgrees' /\ SoldOnce'
<1> USE DEF EngineTypeOK, LedgerTypeOK, Target
<1>1. Target(c) \in Seat
  BY DEF Request
<1>2. /\ seat' = [seat EXCEPT ![Target(c)] = "HELD"]
      /\ order' = [order EXCEPT ![c] = "PROCESSING"]
      /\ seat[Target(c)] = "AVAILABLE"
  BY DEF PersistOrder, CanPersist
<1>3. \A d \in Call : order'[d] = "BOOKED" <=> order[d] = "BOOKED"
  BY <1>2
<1>4. \A s \in Seat : Booked(s)' = Booked(s)
  BY <1>3 DEF Booked
<1>5. SoldOnce'
  BY <1>3 DEF SoldOnce
<1>6. ASSUME NEW s \in Seat
      PROVE  /\ seat'[s] = "SOLD" <=> Booked(s)' # {}
             /\ seat'[s] = "HELD" => \E d \in Ordered(s)' : order'[d] = "PROCESSING"
  <2>1. CASE s = Target(c)
    <3>1. Booked(s) = {}
      BY <1>2, <2>1 DEF LedgerAgrees
    <3>2. c \in Ordered(s)' /\ order'[c] = "PROCESSING"
      BY <1>2, <2>1 DEF Ordered
    <3> QED
      BY <1>1, <1>2, <1>4, <2>1, <3>1, <3>2
  <2>2. CASE s # Target(c)
    <3>1. seat'[s] = seat[s]
      BY <1>1, <1>2, <2>2
    <3>2. \A d \in Ordered(s) : order[d] = "PROCESSING" =>
              d \in Ordered(s)' /\ order'[d] = "PROCESSING"
      BY <1>2, <2>2 DEF Ordered
    <3> QED
      BY <1>4, <3>1, <3>2 DEF LedgerAgrees
  <2> QED
    BY <2>1, <2>2
<1> QED
  BY <1>5, <1>6 DEF LedgerAgrees

\* settleOrder's transaction moves one HELD seat to SOLD and one order to BOOKED:
\* the tables stay in agreement and the seat had no other buyer.
LEMMA SettleKeepsLedger ==
    ASSUME EngineTypeOK, LedgerAgrees, SoldOnce, NEW c \in Call,
           SettleOrder(c, Target(c)), UNCHANGED req
    PROVE  LedgerAgrees' /\ SoldOnce'
<1> USE DEF EngineTypeOK, LedgerTypeOK, Target
<1>1. Target(c) \in Seat
  BY DEF Request
<1>2. /\ seat' = [seat EXCEPT ![Target(c)] = "SOLD"]
      /\ order' = [order EXCEPT ![c] = "BOOKED"]
      /\ seat[Target(c)] = "HELD"
  BY DEF SettleOrder, CanSettle
<1>3. Booked(Target(c)) = {}
  BY <1>1, <1>2 DEF LedgerAgrees
<1>4. SoldOnce'
  BY <1>1, <1>2, <1>3 DEF SoldOnce, Booked
<1>5. ASSUME NEW s \in Seat
      PROVE  /\ seat'[s] = "SOLD" <=> Booked(s)' # {}
             /\ seat'[s] = "HELD" => \E d \in Ordered(s)' : order'[d] = "PROCESSING"
  <2>1. CASE s = Target(c)
    <3>1. c \in Booked(s)' /\ seat'[s] = "SOLD"
      BY <1>1, <1>2, <2>1 DEF Booked
    <3> QED
      BY <3>1
  <2>2. CASE s # Target(c)
    <3>1. seat'[s] = seat[s]
      BY <1>1, <1>2, <2>2
    <3>2. Booked(s)' = Booked(s)
      BY <1>2, <2>2 DEF Booked
    <3>3. \A d \in Ordered(s) : order[d] = "PROCESSING" =>
              d \in Ordered(s)' /\ order'[d] = "PROCESSING"
      BY <1>2, <2>2 DEF Ordered
    <3> QED
      BY <3>1, <3>2, <3>3 DEF LedgerAgrees
  <2> QED
    BY <2>1, <2>2
<1> QED
  BY <1>4, <1>5 DEF LedgerAgrees

\* Every step of the engine preserves SaleInv.
LEMMA SaleInvStep ==
    ASSUME EngineTypeOK, EngineTypeOK', SaleInv, [Next]_vars
    PROVE  SaleInv'
<1> USE DEF SaleInv, streamVars, lockVars, ledgerVars, workerVars
<1>a. ASSUME UNCHANGED saleVars
      PROVE  SaleInv'
  BY <1>a DEF saleVars, LedgerAgrees, SoldOnce, OrdersPassedCreate, EntriesAreOrders,
              JobsFollowOrders, Booked, Ordered, IsOrder, Target, Entry, OrderOf
<1>b. ASSUME UNCHANGED <<seat, order, req>>
      PROVE  LedgerAgrees' /\ SoldOnce'
  BY <1>b DEF LedgerAgrees, SoldOnce, Booked, Ordered, Target
<1>c. ASSUME UNCHANGED <<order, stream, cursor, jobs>>
      PROVE  EntriesAreOrders' /\ JobsFollowOrders'
  BY <1>c DEF EntriesAreOrders, JobsFollowOrders, Entry, OrderOf
<1>d. ASSUME UNCHANGED <<order, req, pc>>
      PROVE  OrdersPassedCreate'
  BY <1>d DEF OrdersPassedCreate, IsOrder
<1>e. ASSUME NEW w \in Worker, NEW j \in jobs[w]
      PROVE  /\ OrderOf(j) \in Call
             /\ j.entry \in Entry
             /\ order[OrderOf(j)] # "NONE"
  BY <1>e DEF JobsFollowOrders, EntriesAreOrders, Entry, OrderOf, EngineTypeOK, StreamTypeOK
<1>1. ASSUME NEW c \in Call, ReadSeat(c)
      PROVE  SaleInv'
  <2>1. UNCHANGED <<seat, order, req, stream, cursor, jobs>>
    BY <1>1 DEF ReadSeat
  <2>2. OrdersPassedCreate'
    BY <1>1 DEF ReadSeat, Goto, OrdersPassedCreate, IsOrder, EngineTypeOK, CallPC
  <2> QED
    BY <1>b, <1>c, <2>1, <2>2
<1>2. ASSUME NEW c \in Call, AcquireSeat(c)
      PROVE  SaleInv'
  <2>1. UNCHANGED <<seat, order, req, stream, cursor, jobs>>
    BY <1>2 DEF AcquireSeat
  <2>2. OrdersPassedCreate'
    BY <1>2 DEF AcquireSeat, Goto, OrdersPassedCreate, IsOrder, EngineTypeOK, CallPC
  <2> QED
    BY <1>b, <1>c, <2>1, <2>2
<1>3. ASSUME NEW c \in Call, CreateOrder(c)
      PROVE  SaleInv'
  <2>0. order[c] = "NONE" /\ IsOrder(c)
    BY <1>3 DEF CreateOrder, OrdersPassedCreate
  <2>1. CASE CanPersist(Target(c))
    <3>1. /\ PersistOrder(c, Target(c)) /\ Goto(c, "announce")
          /\ UNCHANGED <<req, stream, cursor, jobs>>
      BY <1>3, <2>1 DEF CreateOrder
    <3>2. LedgerAgrees' /\ SoldOnce'
      BY <2>0, <3>1, PersistKeepsLedger
    <3>3. order' = [order EXCEPT ![c] = "PROCESSING"]
      BY <3>1 DEF PersistOrder
    <3>4. OrdersPassedCreate'
      BY <2>0, <3>1, <3>3 DEF Goto, OrdersPassedCreate, IsOrder, EngineTypeOK, CallPC,
                              LedgerTypeOK
    <3>5. EntriesAreOrders'
      BY <2>0, <3>1, <3>3 DEF EntriesAreOrders, Entry, EngineTypeOK, LedgerTypeOK, StreamTypeOK
    <3>6. JobsFollowOrders'
      BY <2>0, <3>1, <3>3 DEF JobsFollowOrders, OrderOf, EngineTypeOK, LedgerTypeOK
    <3> QED
      BY <3>2, <3>4, <3>5, <3>6
  <2>2. CASE ~CanPersist(Target(c))
    <3>1. UNCHANGED <<seat, order, req, stream, cursor, jobs>> /\ Goto(c, "rejected")
      BY <1>3, <2>2 DEF CreateOrder
    <3>2. OrdersPassedCreate'
      BY <2>0, <3>1 DEF Goto, OrdersPassedCreate, IsOrder, EngineTypeOK, CallPC
    <3> QED
      BY <1>b, <1>c, <3>1, <3>2
  <2> QED
    BY <2>1, <2>2
<1>4. ASSUME NEW c \in Call, AnnounceHeld(c)
      PROVE  SaleInv'
  <2>1. UNCHANGED <<seat, order, req, stream, cursor, jobs>>
    BY <1>4 DEF AnnounceHeld
  <2>2. OrdersPassedCreate'
    BY <1>4 DEF AnnounceHeld, Goto, OrdersPassedCreate, IsOrder, EngineTypeOK, CallPC
  <2> QED
    BY <1>b, <1>c, <2>1, <2>2
<1>5. ASSUME NEW c \in Call, AppendOrder(c)
      PROVE  SaleInv'
  <2>1. UNCHANGED <<seat, order, req, cursor, jobs>> /\ stream' = Append(stream, c)
    BY <1>5 DEF AppendOrder, XAdd
  <2>2. order[c] # "NONE" /\ IsOrder(c)
    BY <1>5 DEF AppendOrder, OrdersPassedCreate
  <2>3. OrdersPassedCreate'
    BY <1>5, <2>2 DEF AppendOrder, Goto, OrdersPassedCreate, IsOrder, EngineTypeOK, CallPC
  <2>4. \A e \in Entry : e \in Entry' /\ stream'[e] = stream[e]
    BY <2>1 DEF Entry, EngineTypeOK, StreamTypeOK
  <2>5. EntriesAreOrders'
    BY <2>1, <2>2 DEF EntriesAreOrders, Entry, EngineTypeOK, StreamTypeOK
  <2>6. JobsFollowOrders'
    BY <2>1, <2>4, <1>e DEF JobsFollowOrders, OrderOf
  <2> QED
    BY <1>b, <2>1, <2>3, <2>5, <2>6
<1>6. ASSUME NEW c \in Call, AbortCall(c)
      PROVE  SaleInv'
  <2>1. UNCHANGED <<seat, order, req, stream, cursor, jobs>>
    BY <1>6 DEF AbortCall
  <2>2. OrdersPassedCreate'
    BY <1>6 DEF AbortCall, Finished, Goto, OrdersPassedCreate, IsOrder, EngineTypeOK, CallPC
  <2> QED
    BY <1>b, <1>c, <2>1, <2>2
<1>7. ASSUME NEW h \in Call, ReleaseFree(h)
      PROVE  SaleInv'
  <2>1. /\ UNCHANGED <<order, req, pc, stream, cursor, jobs>>
        /\ seat' = [seat EXCEPT ![Target(h)] = IF @ = "HELD" THEN "AVAILABLE" ELSE @]
    BY <1>7 DEF ReleaseFree, FreeSeat
  <2>2. \A s \in Seat : /\ seat'[s] = "SOLD" <=> seat[s] = "SOLD"
                        /\ seat'[s] = "HELD" => seat[s] = "HELD"
    BY <2>1 DEF EngineTypeOK, LedgerTypeOK
  <2>3. LedgerAgrees' /\ SoldOnce'
    BY <2>1, <2>2 DEF LedgerAgrees, SoldOnce, Booked, Ordered, Target
  <2> QED
    BY <1>c, <1>d, <2>1, <2>3
<1>8. ASSUME NEW w \in Worker, WorkerInit(w)
      PROVE  SaleInv'
  <2>1. UNCHANGED <<seat, order, req, pc, stream, jobs>> /\ cursor' \in cursor..Len(stream)
    BY <1>8 DEF WorkerInit, CreateGroup, EngineTypeOK, StreamTypeOK
  <2>2. EntriesAreOrders'
    BY <2>1 DEF EntriesAreOrders, Entry
  <2>3. JobsFollowOrders'
    BY <2>1 DEF JobsFollowOrders, OrderOf, EngineTypeOK, StreamTypeOK
  <2> QED
    BY <1>b, <1>d, <2>1, <2>2, <2>3
<1>9. ASSUME NEW w \in Worker, WorkerClaim(w)
      PROVE  SaleInv'
  <2>1. /\ UNCHANGED <<seat, order, req, pc, stream, cursor>>
        /\ jobs' = [jobs EXCEPT ![w] = NewJobs(Claimable)]
    BY <1>9 DEF WorkerClaim, XAutoClaim
  <2>2. Claimable \subseteq 1..cursor
    BY DEF Claimable, EngineTypeOK, StreamTypeOK
  <2>3. \A j \in NewJobs(Claimable) : j.entry \in 1..cursor /\ j.step = "load"
    BY <2>2 DEF NewJobs
  <2>4. JobsFollowOrders'
    BY <2>1, <2>3 DEF JobsFollowOrders, OrderOf, EngineTypeOK
  <2>5. EntriesAreOrders'
    BY <2>1 DEF EntriesAreOrders, Entry
  <2> QED
    BY <1>b, <1>d, <2>1, <2>4, <2>5
<1>10. ASSUME NEW w \in Worker, WorkerRead(w)
       PROVE  SaleInv'
  <2>1. /\ UNCHANGED <<seat, order, req, pc, stream>>
        /\ jobs' = [jobs EXCEPT ![w] = @ \cup NewJobs(Readable)]
        /\ cursor' = NewCursor
    BY <1>10 DEF WorkerRead, XReadGroup
  <2>2. Readable \subseteq 1..cursor' /\ cursor <= cursor' /\ cursor' \in Nat
    BY <2>1, BatchAssumption DEF Readable, NewCursor, EngineTypeOK, StreamTypeOK
  <2>3. \A j \in NewJobs(Readable) : j.entry \in 1..cursor' /\ j.step = "load"
    <3> TAKE j \in NewJobs(Readable)
    <3>1. PICK e \in Readable : j = [entry |-> e, step |-> "load"]
      BY DEF NewJobs
    <3> QED
      BY <3>1, <2>2
  <2>4. \A v \in Worker : \A j \in jobs[v] : j.entry \in 1..cursor'
    BY <2>2 DEF JobsFollowOrders, EngineTypeOK, StreamTypeOK
  <2>5. JobsFollowOrders'
    BY <2>1, <2>3, <2>4 DEF JobsFollowOrders, OrderOf, EngineTypeOK
  <2>6. EntriesAreOrders'
    BY <2>1 DEF EntriesAreOrders, Entry
  <2> QED
    BY <1>b, <1>d, <2>1, <2>5, <2>6
<1>11. ASSUME NEW w \in Worker, UNCHANGED <<seat, order, req, pc, stream, cursor>>,
              jobs' = [jobs EXCEPT ![w] = {}] \/ \E j \in jobs[w] : Finish(w, j)
       PROVE  SaleInv'
  <2>1. \A v \in Worker : jobs'[v] \subseteq jobs[v]
    BY <1>11 DEF Finish, EngineTypeOK
  <2>2. JobsFollowOrders'
    BY <1>11, <2>1 DEF JobsFollowOrders, OrderOf
  <2>3. EntriesAreOrders'
    BY <1>11 DEF EntriesAreOrders, Entry
  <2> QED
    BY <1>11, <1>b, <1>d, <2>2, <2>3
<1>12. ASSUME NEW w \in Worker, NEW j \in jobs[w], NEW next \in JobStep, Step(w, j, next),
              UNCHANGED <<stream, cursor>>,
              \A c \in Call : order[c] = "BOOKED" => order'[c] = "BOOKED",
              next \in {"announce", "ack"} => order'[OrderOf(j)] = "BOOKED"
       PROVE  JobsFollowOrders'
  <2> DEFINE k == [j EXCEPT !.step = next]
  <2>1. j \in Job
    BY DEF EngineTypeOK
  <2>2. k.entry = j.entry /\ k.step = next
    BY <2>1 DEF Job
  <2>3. \A v \in Worker : \A i \in jobs'[v] : i \in jobs[v] \/ i = k
    BY <1>12 DEF Step, EngineTypeOK
  <2>4. \A v \in Worker : \A i \in jobs[v] :
            /\ i.entry \in 1..cursor'
            /\ i.step \in {"announce", "ack"} => order'[OrderOf(i)'] = "BOOKED"
    BY <1>12, <1>e DEF JobsFollowOrders, OrderOf
  <2>5. /\ k.entry \in 1..cursor'
        /\ k.step \in {"announce", "ack"} => order'[OrderOf(k)'] = "BOOKED"
    BY <1>12, <2>2, <2>4 DEF OrderOf
  <2> HIDE DEF k
  <2> QED
    BY <2>3, <2>4, <2>5 DEF JobsFollowOrders
<1>13. ASSUME NEW w \in Worker, NEW j \in jobs[w], JobLoad(w, j)
       PROVE  SaleInv'
  <2>1. UNCHANGED <<seat, order, req, pc, stream, cursor>>
    BY <1>13 DEF JobLoad
  <2>2. JobsFollowOrders'
    BY <1>13, <1>12, <2>1 DEF JobLoad, JobStep
  <2>3. EntriesAreOrders'
    BY <2>1 DEF EntriesAreOrders, Entry
  <2> QED
    BY <1>b, <1>d, <2>1, <2>2, <2>3
<1>14. ASSUME NEW w \in Worker, NEW j \in jobs[w], JobSettle(w, j)
       PROVE  SaleInv'
  <2> DEFINE c == OrderOf(j)
  <2>0. c \in Call /\ order[c] # "NONE"
    BY <1>e
  <2>1. CASE CanSettle(Target(c))
    <3>1. /\ SettleOrder(c, Target(c)) /\ Step(w, j, "announce")
          /\ UNCHANGED <<req, pc, stream, cursor>>
      BY <1>14, <2>1 DEF JobSettle
    <3>2. order' = [order EXCEPT ![c] = "BOOKED"]
      BY <3>1 DEF SettleOrder
    <3> HIDE DEF c
    <3>3. LedgerAgrees' /\ SoldOnce'
      BY <2>0, <3>1, SettleKeepsLedger
    <3>4. \A d \in Call : /\ order[d] # "NONE" <=> order'[d] # "NONE"
                          /\ order[d] = "BOOKED" => order'[d] = "BOOKED"
      BY <2>0, <3>2 DEF EngineTypeOK, LedgerTypeOK
    <3>5. order'[c] = "BOOKED"
      BY <2>0, <3>2 DEF EngineTypeOK, LedgerTypeOK
    <3>6. OrdersPassedCreate'
      BY <3>1, <3>4 DEF OrdersPassedCreate, IsOrder
    <3>7. EntriesAreOrders'
      BY <3>1, <3>4 DEF EntriesAreOrders, Entry, EngineTypeOK, StreamTypeOK
    <3>8. JobsFollowOrders'
      BY <1>12, <3>1, <3>4, <3>5 DEF JobStep, c
    <3> QED
      BY <3>3, <3>6, <3>7, <3>8
  <2>2. CASE ~CanSettle(Target(c))
    <3>1. Finish(w, j) /\ UNCHANGED <<seat, order, req, pc, stream, cursor>>
      BY <1>14, <2>2 DEF JobSettle
    <3> QED
      BY <1>11, <3>1
  <2> QED
    BY <2>1, <2>2
<1>15. ASSUME NEW w \in Worker, NEW j \in jobs[w], JobAnnounce(w, j)
       PROVE  SaleInv'
  <2>1. UNCHANGED <<seat, order, req, pc, stream, cursor>> /\ Step(w, j, "ack")
    BY <1>15 DEF JobAnnounce
  <2>2. order[OrderOf(j)] = "BOOKED"
    BY <1>15 DEF JobAnnounce, Working, JobsFollowOrders
  <2>3. JobsFollowOrders'
    BY <1>12, <2>1, <2>2 DEF JobStep
  <2>4. EntriesAreOrders'
    BY <2>1 DEF EntriesAreOrders, Entry
  <2> QED
    BY <1>b, <1>d, <2>1, <2>3, <2>4
<1>16. CASE \/ UNCHANGED vars
            \/ \E h \in Call : \/ ReleaseCheck(h) \/ ReleaseUnlock(h)
                               \/ ReleaseAnnounce(h) \/ AbortRelease(h)
            \/ \E s \in Seat : HoldLapses(s)
            \/ \E e \in pending : EntryIdles(e)
  BY <1>16, <1>a DEF vars, saleVars, ReleaseCheck, ReleaseUnlock, ReleaseAnnounce,
                     AbortRelease, HoldLapses, EntryIdles, PassIdleTime
<1>17. ASSUME NEW w \in Worker, WorkerCrash(w)
       PROVE  SaleInv'
  BY <1>17, <1>11 DEF WorkerCrash
<1>18. ASSUME NEW w \in Worker, NEW j \in jobs[w], JobAck(w, j) \/ JobFail(w, j)
       PROVE  SaleInv'
  BY <1>18, <1>11 DEF JobAck, JobFail, XAck
<1> QED
  BY <1>1, <1>2, <1>3, <1>4, <1>5, <1>6, <1>7, <1>8, <1>9, <1>10, <1>13, <1>14, <1>15,
     <1>16, <1>17, <1>18
  DEF Next, CallStep, ReleaseStep, WorkerStep, JobAction, Crash

LEMMA SaleInvariant == Spec => []SaleInv
<1>1. Init => SaleInv
  BY DEF Init, SaleInv, LedgerInit, StreamInit, LedgerAgrees, SoldOnce, OrdersPassedCreate,
         EntriesAreOrders, JobsFollowOrders, Booked, Ordered, Entry
<1>2. EngineTypeOK /\ EngineTypeOK' /\ SaleInv /\ [Next]_vars => SaleInv'
  BY SaleInvStep
<1> QED
  BY <1>1, <1>2, TypeCorrect, PTL DEF Spec

\* Zero double-booking, for every number of calls, seats, workers and faults: the
\* Lua lock may lapse or be released at any time, and still no seat is BOOKED twice.
THEOREM NoDoubleBooking == Spec => []SoldOnce
BY SaleInvariant, PTL DEF SaleInv

\* Seat.status and Order.status never disagree about a sale.
THEOREM LedgerConsistent == Spec => []LedgerAgrees
BY SaleInvariant, PTL DEF SaleInv
=============================================================================

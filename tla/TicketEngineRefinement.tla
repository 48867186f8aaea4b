----------------------- MODULE TicketEngineRefinement -----------------------
(***************************************************************************)
(* TicketEngine implements SeatSale, and what that means for single steps: *)
(* a sale is final and a release touches no hold but its own.              *)
(***************************************************************************)
EXTENDS TicketEngineProofs

\* What one step may do to the two tables: a createOrder transaction, a settlement,
\* the update of a release that has got there, or nothing.
LEMMA LedgerStep ==
    ASSUME EngineTypeOK, SaleInv, [Next]_vars
    PROVE  /\ req' = req
           /\ \/ \E c \in Call : order[c] = "NONE" /\ PersistOrder(c, Target(c))
              \/ \E c \in Call : order[c] # "NONE" /\ SettleOrder(c, Target(c))
              \/ \E h \in Call : release[h] = "free" /\ FreeSeat(Target(h))
              \/ UNCHANGED <<seat, order>>
<1> USE DEF streamVars, lockVars, ledgerVars, workerVars
<1>1. CASE UNCHANGED vars
  BY <1>1 DEF vars
<1>2. ASSUME NEW c \in Call, CallStep(c)
      PROVE  req' = req /\ ((order[c] = "NONE" /\ PersistOrder(c, Target(c)))
                            \/ UNCHANGED <<seat, order>>)
  BY <1>2 DEF CallStep, ReadSeat, AcquireSeat, CreateOrder, AnnounceHeld, AppendOrder,
              SaleInv, OrdersPassedCreate
<1>3. ASSUME NEW h \in Call, ReleaseCheck(h) \/ ReleaseStep(h)
      PROVE  req' = req /\ ((release[h] = "free" /\ FreeSeat(Target(h)))
                            \/ UNCHANGED <<seat, order>>)
  BY <1>3 DEF ReleaseStep, ReleaseCheck, ReleaseUnlock, ReleaseFree, ReleaseAnnounce
<1>4. ASSUME NEW w \in Worker, NEW j \in jobs[w], JobAction(w, j)
      PROVE  /\ req' = req
             /\ \/ \E c \in Call : order[c] # "NONE" /\ SettleOrder(c, Target(c))
                \/ UNCHANGED <<seat, order>>
  <2>1. OrderOf(j) \in Call /\ order[OrderOf(j)] # "NONE"
    BY DEF SaleInv, JobsFollowOrders, EntriesAreOrders, Entry, OrderOf, EngineTypeOK,
           StreamTypeOK
  <2>2. CASE JobSettle(w, j)
    BY <2>1, <2>2 DEF JobSettle
  <2>3. CASE JobLoad(w, j) \/ JobAnnounce(w, j) \/ JobAck(w, j)
    BY <2>3 DEF JobLoad, JobAnnounce, JobAck
  <2> QED
    BY <1>4, <2>2, <2>3 DEF JobAction
<1>5. ASSUME NEW w \in Worker, WorkerInit(w) \/ WorkerClaim(w) \/ WorkerRead(w)
      PROVE  UNCHANGED <<req, seat, order>>
  BY <1>5 DEF WorkerInit, WorkerClaim, WorkerRead
<1>6. CASE (\E s \in Seat : HoldLapses(s)) \/ (\E e \in pending : EntryIdles(e)) \/ Crash
  BY <1>6 DEF HoldLapses, EntryIdles, Crash, AbortCall, AbortRelease, WorkerCrash, JobFail
<1> QED
  BY <1>1, <1>2, <1>3, <1>4, <1>5, <1>6 DEF Next, WorkerStep

\* Whatever a step does to the tables, SOLD stays SOLD and BOOKED stays BOOKED.
LEMMA SoldStays ==
    ASSUME EngineTypeOK, SaleInv, [Next]_vars
    PROVE  /\ \A s \in Seat : seat[s] = "SOLD" => seat'[s] = "SOLD"
           /\ \A c \in Call : order[c] = "BOOKED" => order'[c] = "BOOKED"
<1> USE DEF EngineTypeOK, LedgerTypeOK
<1>1. ASSUME NEW c \in Call, order[c] = "NONE", PersistOrder(c, Target(c))
      PROVE  /\ \A s \in Seat : seat[s] = "SOLD" => seat'[s] = "SOLD"
             /\ \A d \in Call : order[d] = "BOOKED" => order'[d] = "BOOKED"
  BY <1>1 DEF PersistOrder, CanPersist
<1>2. ASSUME NEW c \in Call, SettleOrder(c, Target(c))
      PROVE  /\ \A s \in Seat : seat[s] = "SOLD" => seat'[s] = "SOLD"
             /\ \A d \in Call : order[d] = "BOOKED" => order'[d] = "BOOKED"
  BY <1>2 DEF SettleOrder, CanSettle
<1>3. ASSUME NEW h \in Call, FreeSeat(Target(h))
      PROVE  /\ \A s \in Seat : seat[s] = "SOLD" => seat'[s] = "SOLD"
             /\ \A d \in Call : order[d] = "BOOKED" => order'[d] = "BOOKED"
  BY <1>3 DEF FreeSeat
<1> QED
  BY <1>1, <1>2, <1>3, LedgerStep

\* A sale is final: no release, late settlement or redelivery undoes it.
THEOREM SalesAreFinal == Spec => SoldIsFinal
<1>1. EngineTypeOK /\ SaleInv /\ [Next]_vars =>
          [/\ \A s \in Seat : seat[s] = "SOLD" => seat'[s] = "SOLD"
           /\ \A c \in Call : order[c] = "BOOKED" => order'[c] = "BOOKED"]_vars
  BY SoldStays
<1> QED
  BY <1>1, TypeCorrect, SaleInvariant, PTL DEF Spec, SoldIsFinal

\* A step of a release of h deletes the hold h or none: release_seat.lua compares the
\* hold before it deletes the key.
THEOREM ReleasesAreOwn == Spec => OwnReleaseOnly
<1> USE DEF streamVars, lockVars, ledgerVars, workerVars
<1>1. ASSUME EngineTypeOK, [Next]_vars, NEW h \in Call, release'[h] # release[h],
             NEW s \in Seat, lock'[s] # lock[s]
      PROVE  lock[s] = h /\ lock'[s] = NoHold
  <2>1. ASSUME NEW i \in Call, ReleaseUnlock(i)
        PROVE  lock[s] = h /\ lock'[s] = NoHold
    <3>1. i = h
      BY <1>1, <2>1 DEF ReleaseUnlock, ReleaseGoto, EngineTypeOK
    <3>2. ReleaseHold(Target(i), i)
      BY <1>1, <2>1 DEF ReleaseUnlock
    <3> QED
      BY <1>1, <3>1, <3>2 DEF ReleaseHold, Owns, EngineTypeOK, LockTypeOK
  <2>2. ASSUME NEW i \in Call,
               ReleaseCheck(i) \/ ReleaseFree(i) \/ ReleaseAnnounce(i) \/ AbortRelease(i)
        PROVE  FALSE
    BY <1>1, <2>2 DEF ReleaseCheck, ReleaseFree, ReleaseAnnounce, AbortRelease
  <2>3. CASE UNCHANGED vars
    BY <1>1, <2>3 DEF vars
  <2>4. ASSUME NEW c \in Call, CallStep(c) \/ AbortCall(c)
        PROVE  FALSE
    BY <1>1, <2>4 DEF CallStep, ReadSeat, AcquireSeat, CreateOrder, AnnounceHeld, AppendOrder,
                      AbortCall
  <2>5. ASSUME NEW w \in Worker, WorkerStep(w) \/ WorkerCrash(w)
        PROVE  FALSE
    BY <1>1, <2>5 DEF WorkerStep, WorkerInit, WorkerClaim, WorkerRead, WorkerCrash, JobAction,
                      JobLoad, JobSettle, JobAnnounce, JobAck
  <2>6. ASSUME NEW w \in Worker, NEW j \in jobs[w], JobFail(w, j)
        PROVE  FALSE
    BY <1>1, <2>6 DEF JobFail
  <2>7. CASE (\E t \in Seat : HoldLapses(t)) \/ (\E e \in pending : EntryIdles(e))
    BY <1>1, <2>7 DEF HoldLapses, EntryIdles
  <2> QED
    BY <1>1, <2>1, <2>2, <2>3, <2>4, <2>5, <2>6, <2>7 DEF Next, ReleaseStep, Crash
<1>2. EngineTypeOK /\ [Next]_vars =>
          [\A h \in Call : release'[h] # release[h] =>
              \A s \in Seat : lock'[s] # lock[s] => lock[s] = h /\ lock'[s] = NoHold]_vars
  BY <1>1
<1> QED
  BY <1>2, TypeCorrect, PTL DEF Spec, OwnReleaseOnly

-----------------------------------------------------------------------------
Claim == [c \in Call |-> IF order[c] = "NONE" THEN {} ELSE {Target(c)}]
Buyer == [s \in Seat |-> Booked(s)]

\* createOrder's transaction accepts an order for a seat nobody bought.
LEMMA PersistIsAccept ==
    ASSUME EngineTypeOK, SaleInv, req' = req, NEW c \in Call, order[c] = "NONE",
           PersistOrder(c, Target(c)), NEW t \in Seat, t = Target(c)
    PROVE  Sale!Accept(c, t)
<1> USE DEF EngineTypeOK, LedgerTypeOK
<1>1. /\ seat[t] = "AVAILABLE"
      /\ order' = [order EXCEPT ![c] = "PROCESSING"]
  BY DEF PersistOrder, CanPersist
<1>2. Claim[c] = {}
  BY DEF Claim
<1>3. Buyer[t] = {}
  BY <1>1 DEF Buyer, SaleInv, LedgerAgrees
<1>4. Claim' = [Claim EXCEPT ![c] = {t}]
  BY <1>1 DEF Claim, Target
<1>5. \A s \in Seat : Booked(s)' = Booked(s)
  BY <1>1 DEF Booked, Target
<1>6. Buyer' = Buyer
  BY <1>5 DEF Buyer
<1> QED
  BY <1>2, <1>3, <1>4, <1>6 DEF Sale!Accept, Claim, Buyer

\* settleOrder's transaction sells the seat of an accepted order, once.
LEMMA SettleIsSell ==
    ASSUME EngineTypeOK, SaleInv, req' = req, NEW c \in Call, order[c] # "NONE",
           SettleOrder(c, Target(c)), NEW t \in Seat, t = Target(c)
    PROVE  Sale!Sell(c, t)
<1> USE DEF EngineTypeOK, LedgerTypeOK
<1>1. /\ seat[t] = "HELD"
      /\ order' = [order EXCEPT ![c] = "BOOKED"]
  BY DEF SettleOrder, CanSettle
<1>2. t \in Claim[c]
  BY DEF Claim
<1>3. Booked(t) = {}
  BY <1>1 DEF SaleInv, LedgerAgrees
<1>4. Claim' = Claim
  BY <1>1 DEF Claim, Target
<1>5. \A s \in Seat : Booked(s)' = IF s = t THEN {c} ELSE Booked(s)
  BY <1>1, <1>3 DEF Booked, Target
<1>6. Buyer' = [Buyer EXCEPT ![t] = {c}]
  BY <1>5 DEF Buyer
<1> QED
  BY <1>2, <1>3, <1>4, <1>6 DEF Sale!Sell, Claim, Buyer

\* Every step of the engine is a step of the sale or leaves it alone.
LEMMA SaleStep ==
    ASSUME EngineTypeOK, SaleInv, [Next]_vars
    PROVE  [Sale!Next]_(Sale!vars)
<1>0. req' = req
  BY LedgerStep
<1>1. ASSUME NEW c \in Call, order[c] = "NONE", PersistOrder(c, Target(c))
      PROVE  Sale!Next
  <2>1. PICK t \in Seat : t = Target(c)
    BY DEF EngineTypeOK, Target, Request
  <2>2. Sale!Accept(c, t)
    BY <1>0, <1>1, <2>1, PersistIsAccept
  <2> QED
    BY <2>1, <2>2 DEF Sale!Next
<1>2. ASSUME NEW c \in Call, order[c] # "NONE", SettleOrder(c, Target(c))
      PROVE  Sale!Next
  <2>1. PICK t \in Seat : t = Target(c)
    BY DEF EngineTypeOK, Target, Request
  <2>2. Sale!Sell(c, t)
    BY <1>0, <1>2, <2>1, SettleIsSell
  <2> QED
    BY <2>1, <2>2 DEF Sale!Next
<1>3. ASSUME order' = order
      PROVE  UNCHANGED Sale!vars
  BY <1>0, <1>3 DEF Sale!vars, Booked, Target
<1>4. CASE \E h \in Call : FreeSeat(Target(h))
  BY <1>3, <1>4 DEF FreeSeat
<1> QED
  BY <1>1, <1>2, <1>3, <1>4, LedgerStep

\* The engine implements the abstract sale: locks, streams, retries and crashes are
\* all stuttering, and the two transactions are its only steps.
THEOREM EngineImplementsSale == Spec => ImplementsSale
<1>1. Init => Sale!Init
  <2> SUFFICES ASSUME Init PROVE Sale!Init
    OBVIOUS
  <2>1. \A c \in Call : order[c] = "NONE"
    BY DEF Init, LedgerInit
  <2>2. \A s \in Seat : Booked(s) = {}
    BY <2>1 DEF Booked
  <2> QED
    BY <2>1, <2>2 DEF Sale!Init
<1>2. EngineTypeOK /\ SaleInv /\ [Next]_vars => [Sale!Next]_(Sale!vars)
  BY SaleStep
<1> QED
  BY <1>1, <1>2, TypeCorrect, SaleInvariant, PTL DEF Spec, ImplementsSale, Sale!Spec
=============================================================================

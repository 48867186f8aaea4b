------------------------ MODULE TicketEngineDelivery ------------------------
(***************************************************************************)
(* What the stream guarantees: a delivered order is not forgotten before   *)
(* it is booked, and the browsers hear SOLD only of seats that are sold.   *)
(***************************************************************************)
EXTENDS TicketEngineRefinement

\* The consumer group exists: the precondition of at-least-once delivery, which a
\* first deployment does not meet.
GroupReady == group = TRUE

\* What a step may do to the stream and to the batches, as far as recovery cares:
\* entries stay; only an entry whose order is BOOKED leaves the PEL; a job is new and
\* pending, or was there before with its entry; what the group passes is pending.
StreamStep ==
    /\ Len(stream) <= Len(stream') /\ \A e \in Entry : stream'[e] = stream[e]
    /\ \A e \in pending : e \in pending' \/ order[stream[e]] = "BOOKED"
    /\ \A w \in Worker : \A j \in jobs'[w] :
          j.entry \in pending' \/ \E i \in jobs[w] : i.entry = j.entry
    /\ GroupReady => GroupReady' /\ \A e \in 1..cursor' : e \in 1..cursor \cup pending'

LEMMA StreamStepHolds ==
    ASSUME EngineTypeOK, SaleInv, [Next]_vars
    PROVE  StreamStep
<1> USE DEF streamVars, lockVars, ledgerVars, workerVars, GroupReady
<1>0. stream \in Seq(Call) /\ Len(stream) \in Nat /\ \A w \in Worker : jobs[w] \subseteq Job
  BY DEF EngineTypeOK, StreamTypeOK
<1>1. ASSUME UNCHANGED <<stream, group, cursor, pending, jobs>>
      PROVE  StreamStep
  BY <1>0, <1>1 DEF StreamStep
<1>2. ASSUME NEW c \in Call, CallStep(c)
      PROVE  StreamStep
  <2>1. CASE AppendOrder(c)
    <3>1. stream' = Append(stream, c) /\ UNCHANGED <<group, cursor, pending, jobs>>
      BY <2>1 DEF AppendOrder, XAdd
    <3>2. Len(stream) <= Len(stream') /\ \A e \in Entry : stream'[e] = stream[e]
      BY <1>0, <3>1 DEF Entry
    <3> QED
      BY <3>1, <3>2 DEF StreamStep
  <2>2. CASE ReadSeat(c) \/ AcquireSeat(c) \/ CreateOrder(c) \/ AnnounceHeld(c)
    BY <1>1, <2>2 DEF ReadSeat, AcquireSeat, CreateOrder, AnnounceHeld
  <2> QED
    BY <1>2, <2>1, <2>2 DEF CallStep
<1>3. ASSUME NEW h \in Call,
             ReleaseCheck(h) \/ ReleaseStep(h) \/ AbortRelease(h) \/ AbortCall(h)
      PROVE  StreamStep
  BY <1>1, <1>3 DEF ReleaseCheck, ReleaseStep, ReleaseUnlock, ReleaseFree, ReleaseAnnounce,
                    AbortRelease, AbortCall
<1>4. CASE (\E s \in Seat : HoldLapses(s)) \/ (\E e \in pending : EntryIdles(e))
           \/ UNCHANGED vars
  BY <1>1, <1>4 DEF HoldLapses, EntryIdles, PassIdleTime, vars
<1>12. ASSUME NEW w \in Worker, WorkerInit(w)
       PROVE  StreamStep
  <2>1. /\ UNCHANGED <<stream, pending, jobs>> /\ group' = TRUE
        /\ GroupReady => cursor' = cursor
    BY <1>12 DEF WorkerInit, CreateGroup
  <2> QED
    BY <1>0, <2>1 DEF StreamStep
<1>5. ASSUME NEW w \in Worker, WorkerClaim(w)
      PROVE  StreamStep
  <2>1. /\ UNCHANGED <<stream, group, cursor, pending>>
        /\ jobs' = [jobs EXCEPT ![w] = NewJobs(Claimable)]
    BY <1>5 DEF WorkerClaim, XAutoClaim
  <2>2. \A j \in NewJobs(Claimable) : j.entry \in pending'
    <3> TAKE j \in NewJobs(Claimable)
    <3>1. PICK e \in Claimable : j = [entry |-> e, step |-> "load"]
      BY DEF NewJobs
    <3>2. e \in pending
      BY DEF Claimable, EngineTypeOK, StreamTypeOK
    <3> QED
      BY <2>1, <3>1, <3>2
  <2> QED
    BY <1>0, <2>1, <2>2 DEF StreamStep, EngineTypeOK
<1>6. ASSUME NEW w \in Worker, WorkerRead(w)
      PROVE  StreamStep
  <2>1. /\ UNCHANGED <<stream, group>>
        /\ cursor' = NewCursor
        /\ pending' = pending \cup Readable
        /\ jobs' = [jobs EXCEPT ![w] = @ \cup NewJobs(Readable)]
    BY <1>6 DEF WorkerRead, XReadGroup
  <2>2. \A j \in NewJobs(Readable) : j.entry \in pending'
    <3> TAKE j \in NewJobs(Readable)
    <3>1. PICK e \in Readable : j = [entry |-> e, step |-> "load"]
      BY DEF NewJobs
    <3> QED
      BY <2>1, <3>1
  <2>3. \A e \in 1..cursor' : e \in 1..cursor \cup pending'
    BY <1>0, <2>1 DEF Readable, EngineTypeOK, StreamTypeOK
  <2> QED
    BY <1>0, <2>1, <2>2, <2>3 DEF StreamStep, EngineTypeOK
<1>7. ASSUME NEW w \in Worker, UNCHANGED <<stream, group, cursor, pending>>,
             jobs' = [jobs EXCEPT ![w] = {}] \/ \E j \in jobs[w] : Finish(w, j)
      PROVE  StreamStep
  <2>1. \A v \in Worker : jobs'[v] \subseteq jobs[v]
    BY <1>7 DEF Finish, EngineTypeOK
  <2> QED
    BY <1>0, <1>7, <2>1 DEF StreamStep
<1>8. ASSUME NEW w \in Worker, NEW j \in jobs[w], NEW next \in JobStep, Step(w, j, next),
             UNCHANGED <<stream, group, cursor, pending>>
      PROVE  StreamStep
  <2> DEFINE k == [j EXCEPT !.step = next]
  <2>1. k.entry = j.entry
    BY <1>0 DEF Job
  <2>2. \A v \in Worker : \A i \in jobs'[v] : i \in jobs[v] \/ (v = w /\ i = k)
    BY <1>8 DEF Step, EngineTypeOK
  <2> HIDE DEF k
  <2> QED
    BY <1>0, <1>8, <2>1, <2>2 DEF StreamStep
<1>9. ASSUME NEW w \in Worker, NEW j \in jobs[w], JobAction(w, j)
      PROVE  StreamStep
  <2>1. CASE JobLoad(w, j)
    BY <1>8, <2>1 DEF JobLoad, JobStep
  <2>2. CASE JobSettle(w, j)
    BY <1>7, <1>8, <2>2 DEF JobSettle, JobStep
  <2>3. CASE JobAnnounce(w, j)
    BY <1>8, <2>3 DEF JobAnnounce, JobStep
  <2>4. CASE JobAck(w, j)
    <3>1. j.step = "ack" /\ pending' = pending \ {j.entry}
          /\ UNCHANGED <<stream, group, cursor>>
      BY <2>4 DEF JobAck, Working, XAck
    <3>2. order[stream[j.entry]] = "BOOKED"
      BY <3>1 DEF SaleInv, JobsFollowOrders, OrderOf
    <3>3. \A v \in Worker : jobs'[v] \subseteq jobs[v]
      BY <2>4 DEF JobAck, Finish, EngineTypeOK
    <3> QED
      BY <1>0, <3>1, <3>2, <3>3 DEF StreamStep
  <2> QED
    BY <1>9, <2>1, <2>2, <2>3, <2>4 DEF JobAction
<1>10. ASSUME NEW w \in Worker, WorkerCrash(w)
       PROVE  StreamStep
  BY <1>7, <1>10 DEF WorkerCrash
<1>11. ASSUME NEW w \in Worker, NEW j \in jobs[w], JobFail(w, j)
       PROVE  StreamStep
  BY <1>7, <1>11 DEF JobFail
<1> QED
  BY <1>2, <1>3, <1>4, <1>5, <1>6, <1>9, <1>10, <1>11, <1>12 DEF Next, WorkerStep, Crash

\* A worker may die at any step and the order of every message it had in work is
\* BOOKED already or will be delivered again.
THEOREM WorkRecoverable == Spec => []WorkIsRecoverable
<1>1. Init => WorkIsRecoverable
  BY DEF Init, WorkIsRecoverable
<1>2. ASSUME EngineTypeOK, SaleInv, [Next]_vars, WorkIsRecoverable
      PROVE  WorkIsRecoverable'
  <2> SUFFICES ASSUME NEW w \in Worker, NEW j \in jobs'[w], j.entry \notin pending'
               PROVE  order'[OrderOf(j)'] = "BOOKED"
    BY DEF WorkIsRecoverable
  <2>1. StreamStep
    BY <1>2, StreamStepHolds
  <2>2. PICK i \in jobs[w] : i.entry = j.entry
    BY <2>1 DEF StreamStep
  <2>3. i.entry \in Entry /\ OrderOf(i) \in Call
    BY <1>2 DEF SaleInv, JobsFollowOrders, EntriesAreOrders, Entry, OrderOf, EngineTypeOK,
                StreamTypeOK
  <2>4. order[OrderOf(i)] = "BOOKED"
    BY <1>2, <2>1, <2>2 DEF WorkIsRecoverable, StreamStep, OrderOf
  <2>5. OrderOf(j)' = OrderOf(i)
    BY <2>1, <2>2, <2>3 DEF StreamStep, OrderOf
  <2> QED
    BY <1>2, <2>3, <2>4, <2>5, SoldStays
<1> QED
  BY <1>1, <1>2, TypeCorrect, SaleInvariant, PTL DEF Spec

\* At-least-once delivery, once the consumer group exists: an entry the group has
\* passed is pending until its order is BOOKED.
THEOREM DeliveredAtLeastOnce ==
    ASSUME FirstDeploy = FALSE
    PROVE  Spec => []AtLeastOnce
<1>1. Init => GroupReady /\ AtLeastOnce
  <2> SUFFICES ASSUME Init
               PROVE  GroupReady /\ AtLeastOnce
    OBVIOUS
  <2>1. GroupReady
    BY Zenon DEF Init, StreamInit, GroupReady
  <2>2. cursor = 0
    BY DEF Init, StreamInit
  <2>3. AtLeastOnce
    BY <2>2 DEF AtLeastOnce
  <2> QED
    BY <2>1, <2>3
<1>2. ASSUME EngineTypeOK, EngineTypeOK', SaleInv, [Next]_vars, GroupReady, AtLeastOnce
      PROVE  GroupReady' /\ AtLeastOnce'
  <2>1. StreamStep
    BY <1>2, StreamStepHolds
  <2>2. GroupReady'
    BY <1>2, <2>1 DEF StreamStep
  <2>3. ASSUME NEW e \in 1..cursor', e \notin pending'
        PROVE  order'[stream'[e]] = "BOOKED"
    <3>1. e \in 1..cursor
      BY <1>2, <2>1, <2>3 DEF StreamStep
    <3>2. e \in Entry /\ stream[e] \in Call
      BY <1>2, <3>1 DEF EngineTypeOK, StreamTypeOK, Entry
    <3>3. order[stream[e]] = "BOOKED"
      BY <1>2, <2>1, <2>3, <3>1 DEF AtLeastOnce, StreamStep
    <3>4. stream'[e] = stream[e]
      BY <2>1, <3>2 DEF StreamStep
    <3> QED
      BY <1>2, <3>2, <3>3, <3>4, SoldStays
  <2> QED
    BY <2>2, <2>3 DEF AtLeastOnce
<1> QED
  BY <1>1, <1>2, TypeCorrect, SaleInvariant, PTL DEF Spec

\* At-least-once delivery from the moment the group exists, a first deployment
\* included: it passes no entry by, and forgets none before the order is booked.
NothingPassedBy ==
    [][/\ \A e \in pending : e \in pending' \/ order[stream[e]] = "BOOKED"
       /\ group => group' /\ \A e \in 1..cursor' : e \in 1..cursor \cup pending']_vars

\* What run first_deploy loses are the entries older than the group, and only those:
\* XREADGROUP, XAUTOCLAIM, crashes and acknowledgements lose none afterwards.
THEOREM DeliveredOnceGrouped == Spec => NothingPassedBy
<1>1. EngineTypeOK /\ EngineTypeOK' /\ SaleInv /\ [Next]_vars
         => [/\ \A e \in pending : e \in pending' \/ order[stream[e]] = "BOOKED"
             /\ group => group' /\ \A e \in 1..cursor' : e \in 1..cursor \cup pending']_vars
  <2> SUFFICES ASSUME EngineTypeOK, EngineTypeOK', SaleInv, [Next]_vars
               PROVE  /\ \A e \in pending : e \in pending' \/ order[stream[e]] = "BOOKED"
                      /\ group => group' /\ \A e \in 1..cursor' : e \in 1..cursor \cup pending'
    OBVIOUS
  <2>1. StreamStep
    BY StreamStepHolds
  <2>2. group \in BOOLEAN /\ group' \in BOOLEAN
    BY DEF EngineTypeOK, StreamTypeOK
  <2> QED
    BY <2>1, <2>2 DEF StreamStep, GroupReady
<1> QED
  BY <1>1, TypeCorrect, SaleInvariant, PTL DEF Spec, NothingPassedBy

\* What a step may do to the browsers: it shows SOLD only of a seat that is sold.
LEMMA ShowStep ==
    ASSUME EngineTypeOK, SaleInv, [Next]_vars, NEW s \in Seat,
           shown'[s] = "SOLD", shown[s] # "SOLD"
    PROVE  seat[s] = "SOLD"
<1> USE DEF streamVars, lockVars, ledgerVars, workerVars, EngineTypeOK
<1>1. ASSUME NEW t \in Seat, NEW status \in {"AVAILABLE", "HELD"}, Publish(t, status)
      PROVE  FALSE
  BY <1>1 DEF Publish
<1>2. \A c \in Call : Target(c) \in Seat
  BY DEF Target, Request
<1>3. ASSUME NEW w \in Worker, NEW j \in jobs[w], JobAnnounce(w, j)
      PROVE  seat[s] = "SOLD"
  <2> DEFINE c == OrderOf(j)
  <2>1. c \in Call /\ order[c] = "BOOKED"
    BY <1>3 DEF JobAnnounce, Working, SaleInv, JobsFollowOrders, EntriesAreOrders, Entry,
                OrderOf, StreamTypeOK
  <2>2. Publish(Target(c), "SOLD")
    BY <1>3 DEF JobAnnounce
  <2>3. s = Target(c)
    BY <2>2 DEF Publish
  <2> HIDE DEF c
  <2>4. Booked(s) # {}
    BY <2>1, <2>3 DEF Booked
  <2> QED
    BY <2>4 DEF SaleInv, LedgerAgrees
<1>4. ASSUME UNCHANGED shown
      PROVE  FALSE
  BY <1>4
<1>5. ASSUME NEW c \in Call, CallStep(c) \/ ReleaseCheck(c) \/ ReleaseStep(c)
      PROVE  FALSE
  BY <1>1, <1>2, <1>4, <1>5
  DEF CallStep, ReadSeat, AcquireSeat, CreateOrder, AnnounceHeld, AppendOrder,
      ReleaseStep, ReleaseCheck, ReleaseUnlock, ReleaseFree, ReleaseAnnounce
<1>6. ASSUME NEW w \in Worker,
             \/ WorkerInit(w) \/ WorkerClaim(w) \/ WorkerRead(w)
             \/ \E j \in jobs[w] : JobLoad(w, j) \/ JobSettle(w, j) \/ JobAck(w, j)
      PROVE  FALSE
  BY <1>4, <1>6 DEF WorkerInit, WorkerClaim, WorkerRead, JobLoad, JobSettle, JobAck
<1>7. CASE \/ UNCHANGED vars \/ Crash
           \/ (\E t \in Seat : HoldLapses(t)) \/ (\E e \in pending : EntryIdles(e))
  BY <1>4, <1>7 DEF vars, HoldLapses, EntryIdles, Crash, AbortCall, AbortRelease,
                    WorkerCrash, JobFail
<1> QED
  BY <1>3, <1>5, <1>6, <1>7 DEF Next, WorkerStep, JobAction

\* The browsers are never told SOLD of a seat that can still be sold.
THEOREM ShownIsSold == Spec => []ShownSoldIsSold
<1>1. Init => ShownSoldIsSold
  BY DEF Init, ShownSoldIsSold
<1>2. ASSUME EngineTypeOK, SaleInv, [Next]_vars, ShownSoldIsSold
      PROVE  ShownSoldIsSold'
  BY <1>2, ShowStep, SoldStays DEF ShownSoldIsSold
<1> QED
  BY <1>1, <1>2, TypeCorrect, SaleInvariant, PTL DEF Spec
=============================================================================

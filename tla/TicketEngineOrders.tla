------------------------- MODULE TicketEngineOrders -------------------------
(***************************************************************************)
(* What becomes of an order a client was told about: it is the only one of *)
(* its seat while nobody sends releases, and it is in the stream, still to *)
(* be settled, until it is booked.                                         *)
(***************************************************************************)
EXTENDS TicketEngineDelivery, FiniteSetTheorems

\* Without releases no release is ever under way, and a seat that is AVAILABLE has
\* no order yet; so the transaction that makes an order makes the only one.
OneOrderInv ==
    /\ \A h \in Call : release[h] = "idle"
    /\ \A s \in Seat : seat[s] = "AVAILABLE" => Ordered(s) = {}
    /\ \A c, d \in Call :
          order[c] # "NONE" /\ order[d] # "NONE" /\ Target(c) = Target(d) => c = d

\* No step starts a release when ReleasesSent is FALSE.
LEMMA ReleasesStayIdle ==
    ASSUME EngineTypeOK, ReleasesSent = FALSE, [Next]_vars,
           \A h \in Call : release[h] = "idle"
    PROVE  release' = release
<1> USE DEF streamVars, lockVars, ledgerVars, workerVars
<1>1. CASE UNCHANGED vars
  BY <1>1 DEF vars
<1>2. ASSUME NEW c \in Call, CallStep(c) \/ AbortCall(c)
      PROVE  release' = release
  BY <1>2 DEF CallStep, ReadSeat, AcquireSeat, CreateOrder, AnnounceHeld, AppendOrder, AbortCall
<1>3. ASSUME NEW h \in Call, ReleaseCheck(h) \/ ReleaseStep(h) \/ AbortRelease(h)
      PROVE  FALSE
  BY <1>3 DEF ReleaseCheck, ReleaseStep, ReleaseUnlock, ReleaseFree, ReleaseAnnounce,
              AbortRelease
<1>4. ASSUME NEW w \in Worker, WorkerStep(w) \/ WorkerCrash(w)
      PROVE  release' = release
  BY <1>4 DEF WorkerStep, WorkerInit, WorkerClaim, WorkerRead, WorkerCrash, JobAction,
              JobLoad, JobSettle, JobAnnounce, JobAck
<1>5. ASSUME NEW w \in Worker, NEW j \in jobs[w], JobFail(w, j)
      PROVE  release' = release
  BY <1>5 DEF JobFail
<1>6. CASE (\E s \in Seat : HoldLapses(s)) \/ (\E e \in pending : EntryIdles(e))
  BY <1>6 DEF HoldLapses, EntryIdles
<1> QED
  BY <1>1, <1>2, <1>3, <1>4, <1>5, <1>6 DEF Next, Crash

LEMMA OneOrderInvStep ==
    ASSUME EngineTypeOK, SaleInv, ReleasesSent = FALSE, OneOrderInv, [Next]_vars
    PROVE  OneOrderInv'
<1> USE DEF OneOrderInv
<1>0. release' = release
  BY ReleasesStayIdle
<1>1. /\ req' = req
      /\ \A c \in Call : Target(c) \in Seat /\ Target(c)' = Target(c)
  BY LedgerStep DEF Target, EngineTypeOK, Request
<1>2. ASSUME NEW c \in Call, order[c] = "NONE", PersistOrder(c, Target(c))
      PROVE  OneOrderInv'
  <2>1. /\ seat' = [seat EXCEPT ![Target(c)] = "HELD"]
        /\ order' = [order EXCEPT ![c] = "PROCESSING"]
        /\ Ordered(Target(c)) = {}
    BY <1>1, <1>2 DEF PersistOrder, CanPersist
  <2>2. \A d \in Call : Target(d) = Target(c) => order[d] = "NONE"
    BY <2>1 DEF Ordered
  <2>3. \A d \in Call : d # c => order'[d] = order[d]
    BY <2>1 DEF EngineTypeOK, LedgerTypeOK
  <2>4. ASSUME NEW s \in Seat, seat'[s] = "AVAILABLE"
        PROVE  Ordered(s)' = {}
    <3>1. s # Target(c) /\ seat[s] = "AVAILABLE"
      BY <1>1, <2>1, <2>4 DEF EngineTypeOK, LedgerTypeOK
    <3> QED
      BY <1>1, <2>3, <3>1 DEF Ordered
  <2> QED
    BY <1>0, <1>1, <2>2, <2>3, <2>4
<1>3. ASSUME NEW c \in Call, order[c] # "NONE", SettleOrder(c, Target(c))
      PROVE  OneOrderInv'
  <2>1. \A d \in Call : order'[d] # "NONE" => order[d] # "NONE"
    BY <1>3 DEF SettleOrder, EngineTypeOK, LedgerTypeOK
  <2>2. \A s \in Seat : seat'[s] = "AVAILABLE" => seat[s] = "AVAILABLE"
    BY <1>3 DEF SettleOrder, EngineTypeOK, LedgerTypeOK
  <2> QED
    BY <1>0, <1>1, <2>1, <2>2 DEF Ordered
<1>4. CASE UNCHANGED <<seat, order>>
  BY <1>0, <1>1, <1>4 DEF Ordered
<1> QED
  BY <1>2, <1>3, <1>4, LedgerStep

LEMMA OneOrderInvariant ==
    ASSUME ReleasesSent = FALSE
    PROVE  Spec => []OneOrderInv
<1>1. Init => OneOrderInv
  BY DEF Init, OneOrderInv, LedgerInit, Ordered
<1>2. EngineTypeOK /\ SaleInv /\ OneOrderInv /\ [Next]_vars => OneOrderInv'
  BY OneOrderInvStep
<1> QED
  BY <1>1, <1>2, TypeCorrect, SaleInvariant, PTL DEF Spec

\* One order per seat while nobody sends releases, for any number of calls: holds
\* may lapse and be evicted as they like, the conditional update is enough.
THEOREM OneOrderWithoutReleases ==
    ASSUME ReleasesSent = FALSE
    PROVE  Spec => []OneOrderPerSeat
<1>1. OneOrderInv => OneOrderPerSeat
  <2> SUFFICES ASSUME OneOrderInv, NEW s \in Seat
               PROVE  Cardinality(Ordered(s)) <= 1
    BY DEF OneOrderPerSeat
  <2>1. CASE Ordered(s) = {}
    BY <2>1, FS_EmptySet
  <2>2. ASSUME NEW c \in Ordered(s)
        PROVE  Cardinality(Ordered(s)) <= 1
    <3>1. Ordered(s) = {c}
      BY <2>2 DEF Ordered, OneOrderInv
    <3>2. Cardinality({c}) = 1
      BY FS_Singleton
    <3> QED
      BY <3>1, <3>2
  <2> QED
    BY <2>1, <2>2
<1> QED
  BY <1>1, OneOrderInvariant, PTL

-----------------------------------------------------------------------------
\* An order call that has been answered put its order into the stream before.
AnsweredIsAppended ==
    \A c \in Call : pc[c] = "done" /\ IsOrder(c) => \E e \in Entry : stream[e] = c

\* createOrder answers only after its XADD, and entries stay.
LEMMA AnsweredStep ==
    ASSUME EngineTypeOK, EngineTypeOK', SaleInv, [Next]_vars, AnsweredIsAppended
    PROVE  AnsweredIsAppended'
<1> USE DEF streamVars, lockVars, ledgerVars, workerVars
<1>0. stream \in Seq(Call) /\ Len(stream) \in Nat /\ req' = req
  BY LedgerStep DEF EngineTypeOK, StreamTypeOK
<1>1. Len(stream) <= Len(stream') /\ \A e \in Entry : stream'[e] = stream[e]
  BY StreamStepHolds DEF StreamStep
<1>2. \A c \in Call : (\E e \in Entry : stream[e] = c) => \E e \in Entry' : stream'[e] = c
  <2>1. stream' \in Seq(Call)
    BY DEF EngineTypeOK, StreamTypeOK
  <2> QED
    BY <1>0, <1>1, <2>1 DEF Entry
<1>3. ASSUME NEW c \in Call, AppendOrder(c)
      PROVE  AnsweredIsAppended'
  <2>1. stream' = Append(stream, c)
    BY <1>3 DEF AppendOrder, XAdd
  <2>2. Len(stream') \in Entry' /\ stream'[Len(stream')] = c
    BY <1>0, <2>1 DEF Entry
  <2>3. \A d \in Call : d # c => pc'[d] = pc[d]
    BY <1>3 DEF AppendOrder, Goto, EngineTypeOK
  <2> QED
    BY <1>0, <1>2, <2>2, <2>3 DEF AnsweredIsAppended, IsOrder
<1>4. ASSUME \A c \in Call : pc'[c] = "done" /\ IsOrder(c) => pc[c] = "done"
      PROVE  AnsweredIsAppended'
  BY <1>0, <1>2, <1>4 DEF AnsweredIsAppended, IsOrder
<1>5. ASSUME NEW c \in Call,
             ReadSeat(c) \/ AcquireSeat(c) \/ CreateOrder(c) \/ AnnounceHeld(c) \/ AbortCall(c)
      PROVE  AnsweredIsAppended'
  BY <1>4, <1>5 DEF ReadSeat, AcquireSeat, CreateOrder, AnnounceHeld, AbortCall, Goto,
                    EngineTypeOK
<1>6. ASSUME UNCHANGED pc
      PROVE  AnsweredIsAppended'
  BY <1>4, <1>6
<1>7. ASSUME NEW h \in Call, ReleaseCheck(h) \/ ReleaseStep(h) \/ AbortRelease(h)
      PROVE  AnsweredIsAppended'
  BY <1>6, <1>7 DEF ReleaseCheck, ReleaseStep, ReleaseUnlock, ReleaseFree, ReleaseAnnounce,
                    AbortRelease
<1>8. ASSUME NEW w \in Worker, WorkerStep(w) \/ WorkerCrash(w)
      PROVE  AnsweredIsAppended'
  BY <1>6, <1>8 DEF WorkerStep, WorkerInit, WorkerClaim, WorkerRead, WorkerCrash, JobAction,
                    JobLoad, JobSettle, JobAnnounce, JobAck
<1>9. ASSUME NEW w \in Worker, NEW j \in jobs[w], JobFail(w, j)
      PROVE  AnsweredIsAppended'
  BY <1>6, <1>9 DEF JobFail
<1>10. CASE \/ UNCHANGED vars
            \/ (\E s \in Seat : HoldLapses(s)) \/ (\E e \in pending : EntryIdles(e))
  BY <1>6, <1>10 DEF vars, HoldLapses, EntryIdles
<1> QED
  BY <1>3, <1>5, <1>7, <1>8, <1>9, <1>10 DEF Next, CallStep, Crash

\* An accepted order is never lost once the consumer group exists: it is booked, or an
\* entry for it is still to be delivered or delivered and not acknowledged.
THEOREM AcceptedOrdersStay ==
    ASSUME FirstDeploy = FALSE
    PROVE  Spec => []AcceptedNotLost
<1>1. Init => AnsweredIsAppended
  BY DEF Init, AnsweredIsAppended
<1>2. EngineTypeOK /\ EngineTypeOK' /\ SaleInv /\ AnsweredIsAppended /\ [Next]_vars
          => AnsweredIsAppended'
  BY AnsweredStep
<1>3. EngineTypeOK /\ AnsweredIsAppended /\ AtLeastOnce => AcceptedNotLost
  <2> SUFFICES ASSUME EngineTypeOK, AnsweredIsAppended, AtLeastOnce,
                      NEW c \in Call, pc[c] = "done", IsOrder(c)
               PROVE  \/ order[c] = "BOOKED"
                      \/ \E e \in Entry : stream[e] = c /\ (e > cursor \/ e \in pending)
    BY DEF AcceptedNotLost
  <2>1. PICK e \in Entry : stream[e] = c
    BY DEF AnsweredIsAppended
  <2>2. CASE e > cursor \/ e \in pending
    BY <2>1, <2>2
  <2>3. CASE ~(e > cursor) /\ e \notin pending
    <3>1. e \in 1..cursor
      BY <2>3 DEF Entry, EngineTypeOK, StreamTypeOK
    <3> QED
      BY <2>1, <2>3, <3>1 DEF AtLeastOnce
  <2> QED
    BY <2>2, <2>3
<1>4. Spec => []AtLeastOnce
  BY DeliveredAtLeastOnce
<1> QED
  BY <1>1, <1>2, <1>3, <1>4, TypeCorrect, SaleInvariant, PTL DEF Spec
-----------------------------------------------------------------------------
\* What a step may do to the calls and the stream: a call that has ended stays so,
\* faults add up, and an entry is new only when its call is answered or a reply lost.
LEMMA CallProgress ==
    ASSUME EngineTypeOK, [Next]_vars
    PROVE  /\ \A c \in Call : pc[c] \in Finished => pc'[c] = pc[c]
           /\ faults' \in {faults, faults + 1}
           /\ \/ stream' = stream
              \/ \E c \in Call : /\ pc[c] = "append"
                                 /\ stream' = Append(stream, c)
                                 /\ pc'[c] = "done" \/ faults' = faults + 1
<1> USE DEF streamVars, lockVars, ledgerVars, workerVars, Fault, NoFault
<1>1. ASSUME NEW c \in Call,
             ReadSeat(c) \/ AcquireSeat(c) \/ CreateOrder(c) \/ AnnounceHeld(c) \/ AbortCall(c)
      PROVE  /\ stream' = stream /\ faults' \in {faults, faults + 1}
             /\ pc[c] \notin Finished
             /\ \A d \in Call : d # c => pc'[d] = pc[d]
  BY <1>1 DEF ReadSeat, AcquireSeat, CreateOrder, AnnounceHeld, AbortCall, Publish, Goto,
              Finished, EngineTypeOK
<1>2. ASSUME NEW c \in Call, AppendOrder(c)
      PROVE  /\ pc[c] = "append" /\ stream' = Append(stream, c)
             /\ (pc'[c] = "done" /\ faults' = faults) \/ (pc' = pc /\ faults' = faults + 1)
             /\ \A d \in Call : d # c => pc'[d] = pc[d]
  BY <1>2 DEF AppendOrder, XAdd, Goto, EngineTypeOK
<1>3. ASSUME NEW h \in Call, ReleaseCheck(h) \/ ReleaseStep(h) \/ AbortRelease(h)
      PROVE  UNCHANGED <<pc, stream>> /\ faults' \in {faults, faults + 1}
  BY <1>3 DEF ReleaseCheck, ReleaseStep, ReleaseUnlock, ReleaseFree, ReleaseAnnounce,
              AbortRelease, Publish
<1>4. ASSUME NEW w \in Worker, WorkerInit(w) \/ WorkerClaim(w) \/ WorkerRead(w) \/ WorkerCrash(w)
      PROVE  UNCHANGED <<pc, stream>> /\ faults' \in {faults, faults + 1}
  BY <1>4 DEF WorkerInit, CreateGroup, WorkerClaim, XAutoClaim, WorkerRead, XReadGroup,
              WorkerCrash
<1>5. ASSUME NEW w \in Worker, NEW j \in jobs[w], JobAction(w, j) \/ JobFail(w, j)
      PROVE  UNCHANGED <<pc, stream>> /\ faults' \in {faults, faults + 1}
  BY <1>5 DEF JobAction, JobLoad, JobSettle, JobAnnounce, JobAck, XAck, JobFail, Publish
<1>6. CASE \/ UNCHANGED vars
           \/ (\E s \in Seat : HoldLapses(s)) \/ (\E e \in pending : EntryIdles(e))
  BY <1>6 DEF vars, HoldLapses, EntryIdles, PassIdleTime
<1> QED
  BY <1>1, <1>2, <1>3, <1>4, <1>5, <1>6 DEF Next, CallStep, WorkerStep, Crash, Finished

\* The look-before-you-act of releaseSeat holds to its end: the hold belongs to a call
\* that has ended without an order, and only a call in its transaction gets one.
ReleasesAfterCalls ==
    \A h \in Call : release[h] # "idle" => pc[h] = "done" /\ order[h] = "NONE"

LEMMA ReleasesAfterCallsStep ==
    ASSUME EngineTypeOK, SaleInv, ReleasesAfterCalls, [Next]_vars
    PROVE  ReleasesAfterCalls'
<1> USE DEF ReleasesAfterCalls, streamVars, lockVars, ledgerVars, workerVars
<1>1. \A h \in Call : pc[h] = "done" /\ order[h] = "NONE"
                          => pc'[h] = "done" /\ order'[h] = "NONE"
  <2> SUFFICES ASSUME NEW h \in Call, pc[h] = "done", order[h] = "NONE"
               PROVE  pc'[h] = "done" /\ order'[h] = "NONE"
    OBVIOUS
  <2>1. pc'[h] = "done"
    BY CallProgress DEF Finished
  <2>2. ASSUME NEW c \in Call, CallStep(c) \/ AbortCall(c)
        PROVE  order'[h] = "NONE"
    BY <2>2 DEF CallStep, ReadSeat, AcquireSeat, CreateOrder, PersistOrder, AnnounceHeld,
                AppendOrder, AbortCall, EngineTypeOK, LedgerTypeOK
  <2>3. ASSUME NEW c \in Call, order[c] # "NONE", SettleOrder(c, Target(c))
        PROVE  order'[h] = "NONE"
    BY <2>3 DEF SettleOrder, EngineTypeOK, LedgerTypeOK
  <2>4. ASSUME NEW w \in Worker, NEW j \in jobs[w], JobAction(w, j) \/ JobFail(w, j)
        PROVE  order'[h] = "NONE"
    <3>1. OrderOf(j) \in Call /\ order[OrderOf(j)] # "NONE"
      BY DEF SaleInv, JobsFollowOrders, EntriesAreOrders, Entry, OrderOf, EngineTypeOK,
             StreamTypeOK
    <3>2. CASE JobSettle(w, j)
      BY <2>3, <3>1, <3>2 DEF JobSettle
    <3> QED
      BY <2>4, <3>2 DEF JobAction, JobLoad, JobAnnounce, JobAck, JobFail
  <2>5. ASSUME NEW w \in Worker,
               WorkerInit(w) \/ WorkerClaim(w) \/ WorkerRead(w) \/ WorkerCrash(w)
        PROVE  order'[h] = "NONE"
    BY <2>5 DEF WorkerInit, WorkerClaim, WorkerRead, WorkerCrash
  <2>6. ASSUME NEW c \in Call, ReleaseCheck(c) \/ ReleaseStep(c) \/ AbortRelease(c)
        PROVE  order'[h] = "NONE"
    BY <2>6 DEF ReleaseCheck, ReleaseStep, ReleaseUnlock, ReleaseFree, FreeSeat,
                ReleaseAnnounce, AbortRelease
  <2>7. CASE \/ UNCHANGED vars
             \/ (\E s \in Seat : HoldLapses(s)) \/ (\E e \in pending : EntryIdles(e))
    BY <2>7 DEF vars, HoldLapses, EntryIdles
  <2> QED
    BY <2>1, <2>2, <2>4, <2>5, <2>6, <2>7 DEF Next, WorkerStep, Crash
<1>2. ASSUME release' = release
      PROVE  ReleasesAfterCalls'
  BY <1>1, <1>2
<1>3. ASSUME NEW h \in Call, ReleaseCheck(h)
      PROVE  ReleasesAfterCalls'
  <2>1. pc[h] = "done" /\ order[h] = "NONE"
    BY <1>3 DEF ReleaseCheck, HoldKnown, SaleInv, OrdersPassedCreate
  <2>2. \A g \in Call : g # h => release'[g] = release[g]
    BY <1>3 DEF ReleaseCheck, ReleaseGoto, EngineTypeOK
  <2> QED
    BY <1>1, <2>1, <2>2
<1>4. ASSUME NEW h \in Call, ReleaseStep(h) \/ AbortRelease(h)
      PROVE  ReleasesAfterCalls'
  <2>1. release[h] # "idle" /\ \A g \in Call : g # h => release'[g] = release[g]
    BY <1>4 DEF ReleaseStep, ReleaseUnlock, ReleaseFree, ReleaseAnnounce, AbortRelease,
                ReleaseGoto, EngineTypeOK
  <2> QED
    BY <1>1, <2>1
<1>5. ASSUME NEW c \in Call, CallStep(c) \/ AbortCall(c)
      PROVE  release' = release
  BY <1>5 DEF CallStep, ReadSeat, AcquireSeat, CreateOrder, AnnounceHeld, AppendOrder, AbortCall
<1>6. ASSUME NEW w \in Worker, WorkerStep(w) \/ WorkerCrash(w)
      PROVE  release' = release
  BY <1>6 DEF WorkerStep, WorkerInit, WorkerClaim, WorkerRead, WorkerCrash, JobAction,
              JobLoad, JobSettle, JobAnnounce, JobAck
<1>7. ASSUME NEW w \in Worker, NEW j \in jobs[w], JobFail(w, j)
      PROVE  release' = release
  BY <1>7 DEF JobFail
<1>8. CASE \/ UNCHANGED vars
           \/ (\E s \in Seat : HoldLapses(s)) \/ (\E e \in pending : EntryIdles(e))
  BY <1>2, <1>8 DEF vars, HoldLapses, EntryIdles
<1> QED
  BY <1>2, <1>3, <1>4, <1>5, <1>6, <1>7, <1>8 DEF Next, Crash

\* releaseSeat's check for an order stays true while the release acts on it, although
\* nothing locks the row: a release never takes the hold or the seat of its own order.
THEOREM ReleaseChecksStay == Spec => []NoOrderMeanwhile
<1>1. Init => ReleasesAfterCalls
  BY DEF Init, ReleasesAfterCalls
<1>2. EngineTypeOK /\ SaleInv /\ ReleasesAfterCalls /\ [Next]_vars => ReleasesAfterCalls'
  BY ReleasesAfterCallsStep
<1>3. ReleasesAfterCalls => NoOrderMeanwhile
  BY DEF ReleasesAfterCalls, NoOrderMeanwhile
<1> QED
  BY <1>1, <1>2, <1>3, TypeCorrect, SaleInvariant, PTL DEF Spec

-----------------------------------------------------------------------------
Answered == {c \in Call : pc[c] = "done"}

\* Each entry is paid for by a call that has been answered, or by a lost reply.
EntriesPaid == Len(stream) <= Cardinality(Answered) + faults

LEMMA EntriesPaidStep ==
    ASSUME EngineTypeOK, EngineTypeOK', EntriesPaid, [Next]_vars
    PROVE  EntriesPaid'
<1>0. /\ stream \in Seq(Call) /\ Len(stream) \in Nat /\ faults \in Nat /\ faults' \in Nat
      /\ faults <= faults'
  BY CallProgress DEF EngineTypeOK, StreamTypeOK
<1>1. IsFiniteSet(Answered) /\ IsFiniteSet(Answered')
  BY FS_Subset, FiniteAssumption DEF Answered
<1>2. Cardinality(Answered) \in Nat /\ Cardinality(Answered') \in Nat
  BY <1>1, FS_CardinalityType
<1>3. Answered \subseteq Answered'
  BY CallProgress DEF Answered, Finished
<1>4. Cardinality(Answered) <= Cardinality(Answered')
  BY <1>1, <1>3, FS_Subset
<1>5. CASE stream' = stream
  BY <1>0, <1>2, <1>4, <1>5 DEF EntriesPaid
<1>6. ASSUME NEW c \in Call, pc[c] = "append", stream' = Append(stream, c),
             pc'[c] = "done" \/ faults' = faults + 1
      PROVE  EntriesPaid'
  <2>1. Len(stream') = Len(stream) + 1
    BY <1>0, <1>6
  <2>2. CASE faults' = faults + 1
    BY <1>0, <1>2, <1>4, <2>1, <2>2 DEF EntriesPaid
  <2>3. CASE pc'[c] = "done"
    <3>1. c \notin Answered /\ Answered \cup {c} \subseteq Answered'
      BY <1>3, <1>6, <2>3 DEF Answered
    <3>2. Cardinality(Answered \cup {c}) = Cardinality(Answered) + 1
      BY <1>1, <3>1, FS_AddElement
    <3>3. Cardinality(Answered) + 1 <= Cardinality(Answered')
      BY <1>1, <3>1, <3>2, FS_Subset
    <3> QED
      BY <1>0, <1>2, <2>1, <3>3 DEF EntriesPaid
  <2> QED
    BY <1>6, <2>2, <2>3
<1>7. CASE stream' # stream
  <2>1. PICK c \in Call : /\ pc[c] = "append"
                          /\ stream' = Append(stream, c)
                          /\ pc'[c] = "done" \/ faults' = faults + 1
    BY <1>7, CallProgress
  <2> QED
    BY <1>6, <2>1
<1> QED
  BY <1>5, <1>7

\* The stream holds one entry for each call and one for each fault at most: a fair
\* clock for that many entries (MaxEntries) is one for all of them.
THEOREM StreamStaysBounded == Spec => []StreamBounded
<1>1. Init => EntriesPaid
  <2> SUFFICES ASSUME Init PROVE EntriesPaid
    OBVIOUS
  <2>1. Answered = {} /\ Len(stream) = 0 /\ faults = 0
    BY DEF Init, StreamInit, Answered
  <2> QED
    BY <2>1, FS_EmptySet DEF EntriesPaid
<1>2. EngineTypeOK /\ EngineTypeOK' /\ EntriesPaid /\ [Next]_vars => EntriesPaid'
  BY EntriesPaidStep
<1>3. EngineTypeOK /\ EntriesPaid => StreamBounded
  <2> SUFFICES ASSUME EngineTypeOK, EntriesPaid PROVE StreamBounded
    OBVIOUS
  <2>1. Cardinality(Answered) <= Cardinality(Call)
    BY FS_Subset, FiniteAssumption DEF Answered
  <2>2. Cardinality(Answered) \in Nat /\ Cardinality(Call) \in Nat
    BY FS_Subset, FS_CardinalityType, FiniteAssumption DEF Answered
  <2>3. faults \in Nat /\ faults <= MaxFaults /\ MaxFaults \in Nat /\ Len(stream) \in Nat
    BY FaultsAssumption DEF EngineTypeOK, StreamTypeOK
  <2> QED
    BY <2>1, <2>2, <2>3 DEF EntriesPaid, StreamBounded, MaxEntries
<1> QED
  BY <1>1, <1>2, <1>3, TypeCorrect, PTL DEF Spec
-----------------------------------------------------------------------------
\* Without releases an order that waits has its seat: the seat is not AVAILABLE, for it
\* has an order, and not SOLD, for the order that bought it would be a second one.
THEOREM NoPoisonWithoutReleases ==
    ASSUME ReleasesSent = FALSE
    PROVE  Spec => []OrdersKeepTheirSeats
<1>1. EngineTypeOK /\ SaleInv /\ OneOrderInv => OrdersKeepTheirSeats
  <2> SUFFICES ASSUME EngineTypeOK, SaleInv, OneOrderInv, NEW c \in Call,
                      order[c] = "PROCESSING"
               PROVE  seat[Target(c)] = "HELD"
    BY DEF OrdersKeepTheirSeats
  <2>1. Target(c) \in Seat /\ seat[Target(c)] \in SeatStatus
    BY DEF EngineTypeOK, LedgerTypeOK, Target, Request
  <2>2. seat[Target(c)] # "AVAILABLE"
    BY <2>1 DEF OneOrderInv, Ordered
  <2>3. seat[Target(c)] # "SOLD"
    <3> SUFFICES ASSUME seat[Target(c)] = "SOLD" PROVE FALSE
      OBVIOUS
    <3>1. PICK d \in Call : order[d] = "BOOKED" /\ Target(d) = Target(c)
      BY <2>1 DEF SaleInv, LedgerAgrees, Booked
    <3> QED
      BY <3>1 DEF OneOrderInv
  <2> QED
    BY <2>1, <2>2, <2>3 DEF SeatStatus
<1> QED
  BY <1>1, OneOrderInvariant, TypeCorrect, SaleInvariant, PTL
=============================================================================

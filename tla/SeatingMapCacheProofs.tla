----------------------- MODULE SeatingMapCacheProofs ------------------------
(***************************************************************************)
(* Proofs about SeatingMapCache, for any number of readers and any bounds  *)
(* on what the environment does.                                           *)
(***************************************************************************)
EXTENDS SeatingMapCache, FiniteSetTheorems, TLAPS

\* What types need to be inductive: a reader about to store has a map, and the
\* waiting loop only goes round while it has attempts left.
ReadersWellFormed ==
    \A r \in Reader :
        /\ pc[r] = "store" => map[r] \in Version
        /\ pc[r] \in {"get", "lock"} => tries[r] = 0
        /\ pc[r] = "wait" => tries[r] < WaitAttempts

\* Every variable keeps its type: among others no reader polls the cache more than
\* WAIT_ATTEMPTS times, and what is cached is a version read from the database.
LEMMA CacheTypeCorrect == Spec => [](CacheTypeOK /\ ReadersWellFormed)
<1> USE CacheAssumption
<1>1. Init => CacheTypeOK /\ ReadersWellFormed
  BY DEF Init, CacheTypeOK, ReadersWellFormed, Version, ReaderPC
<1>2. CacheTypeOK /\ ReadersWellFormed /\ [Next]_vars => CacheTypeOK' /\ ReadersWellFormed'
  <2> SUFFICES ASSUME CacheTypeOK, ReadersWellFormed, [Next]_vars
               PROVE  CacheTypeOK' /\ ReadersWellFormed'
    OBVIOUS
  <2> USE DEF CacheTypeOK, ReadersWellFormed, Version, ReaderPC, environment, Goto, Fault
  <2>1. ASSUME NEW r \in Reader, GetMap(r)
        PROVE  CacheTypeOK' /\ ReadersWellFormed'
    BY <2>1 DEF GetMap, ReadCache
  <2>2. ASSUME NEW r \in Reader, AcquireMutex(r)
        PROVE  CacheTypeOK' /\ ReadersWellFormed'
    BY <2>2 DEF AcquireMutex
  <2>3. ASSUME NEW r \in Reader, Recheck(r)
        PROVE  CacheTypeOK' /\ ReadersWellFormed'
    BY <2>3 DEF Recheck, ReadCache
  <2>4. ASSUME NEW r \in Reader, LoadFromDatabase(r)
        PROVE  CacheTypeOK' /\ ReadersWellFormed'
    BY <2>4 DEF LoadFromDatabase
  <2>5. ASSUME NEW r \in Reader, StoreMap(r)
        PROVE  CacheTypeOK' /\ ReadersWellFormed'
    BY <2>5 DEF StoreMap
  <2>6. ASSUME NEW r \in Reader, ReleaseMutex(r)
        PROVE  CacheTypeOK' /\ ReadersWellFormed'
    BY <2>6 DEF ReleaseMutex
  <2>7. ASSUME NEW r \in Reader, WaitForMap(r)
        PROVE  CacheTypeOK' /\ ReadersWellFormed'
    <3>1. /\ tries[r] + 1 \in 0..WaitAttempts
          /\ tries' = [tries EXCEPT ![r] = tries[r] + 1]
      BY <2>7 DEF WaitForMap
    <3>2. pc'[r] = "wait" => tries'[r] < WaitAttempts
      BY <2>7, <3>1 DEF WaitForMap, ReadCache
    <3> QED
      BY <2>7, <3>1, <3>2 DEF WaitForMap, ReadCache
  <2>8. ASSUME NEW r \in Reader, CommandFails(r) \/ ReaderDies(r)
        PROVE  CacheTypeOK' /\ ReadersWellFormed'
    BY <2>8 DEF CommandFails, ReaderDies
  <2>9. CASE SeatsChange \/ CacheLapses \/ MutexExpires \/ UNCHANGED vars
    BY <2>9 DEF SeatsChange, CacheLapses, MutexExpires, vars
  <2> QED
    BY <2>1, <2>2, <2>3, <2>4, <2>5, <2>6, <2>7, <2>8, <2>9 DEF Next, ReaderStep
<1> QED
  BY <1>1, <1>2, PTL DEF Spec
-----------------------------------------------------------------------------
(* The shield.  While no hydrator has been outlived by its mutex, a reader *)
(* that is hydrating owns the mutex, so there is one of them, and the map  *)
(* it is about to store is at least as new as any that was cached before.  *)

CacheInv ==
    overruns = 0 =>
        /\ \A r \in Reader : pc[r] \in Electing => mutex = r
        /\ \A r \in Reader : pc[r] = "store" => newest <= map[r] /\ map[r] <= db
        /\ cache # NoMap => cache = newest
        /\ newest <= db

LEMMA CacheInvariant == Spec => []CacheInv
<1> USE CacheAssumption
<1>1. Init => CacheInv
  BY DEF Init, CacheInv, Electing
<1>2. CacheTypeOK /\ ReadersWellFormed /\ CacheInv /\ [Next]_vars => CacheInv'
  <2> SUFFICES ASSUME CacheTypeOK, ReadersWellFormed, CacheInv, [Next]_vars
               PROVE  CacheInv'
    OBVIOUS
  <2> USE DEF CacheTypeOK, ReadersWellFormed, CacheInv, Version, Electing, environment,
              Goto, Fault
  <2>1. ASSUME NEW r \in Reader, GetMap(r)
        PROVE  CacheInv'
    BY <2>1 DEF GetMap, ReadCache
  <2>2. ASSUME NEW r \in Reader, AcquireMutex(r)
        PROVE  CacheInv'
    BY <2>2 DEF AcquireMutex
  <2>3. ASSUME NEW r \in Reader, Recheck(r)
        PROVE  CacheInv'
    BY <2>3 DEF Recheck, ReadCache
  <2>4. ASSUME NEW r \in Reader, LoadFromDatabase(r)
        PROVE  CacheInv'
    BY <2>4 DEF LoadFromDatabase
  <2>5. ASSUME NEW r \in Reader, StoreMap(r)
        PROVE  CacheInv'
    BY <2>5 DEF StoreMap
  <2>6. ASSUME NEW r \in Reader, ReleaseMutex(r)
        PROVE  CacheInv'
    BY <2>6 DEF ReleaseMutex, OwnsMutex
  <2>7. ASSUME NEW r \in Reader, WaitForMap(r)
        PROVE  CacheInv'
    BY <2>7 DEF WaitForMap, ReadCache
  <2>8. ASSUME NEW r \in Reader, CommandFails(r) \/ ReaderDies(r)
        PROVE  CacheInv'
    BY <2>8 DEF CommandFails, ReaderDies
  <2>9. CASE SeatsChange
    BY <2>9 DEF SeatsChange
  <2>10. CASE CacheLapses
    BY <2>10 DEF CacheLapses
  <2>11. CASE MutexExpires
    BY <2>11 DEF MutexExpires
  <2>12. CASE UNCHANGED vars
    BY <2>12 DEF vars
  <2> QED
    BY <2>1, <2>2, <2>3, <2>4, <2>5, <2>6, <2>7, <2>8, <2>9, <2>10, <2>11, <2>12
    DEF Next, ReaderStep
<1> QED
  BY <1>1, <1>2, CacheTypeCorrect, PTL DEF Spec

\* One hydrator at a time, for any number of readers, as long as no mutex expires
\* under a reader that is still hydrating (a load longer than LOCK_TTL_MS).
THEOREM StampedeShield == Spec => []OneHydrator
<1>1. CacheInv => OneHydrator
  BY DEF CacheInv, OneHydrator, Hydrating
<1> QED
  BY <1>1, CacheInvariant, PTL

\* Under the same condition the cached map never goes back to an older version.
THEOREM CacheMovesForward == Spec => []CacheNeverRegresses
<1>1. CacheInv => CacheNeverRegresses
  BY DEF CacheInv, CacheNeverRegresses
<1> QED
  BY <1>1, CacheInvariant, PTL

\* Without any condition, a reader only ever deletes its own mutex: the
\* compare-and-delete script protects the next owner from a late release.
THEOREM LateReleaseIsHarmless == Spec => OwnMutexOnly
<1>1. CacheTypeOK /\ [Next]_vars =>
        [\A r \in Reader : pc[r] = "unlock" /\ pc'[r] # "unlock" /\ mutex' # mutex
              => mutex = r]_vars
  <2> SUFFICES ASSUME CacheTypeOK, [Next]_vars, NEW r \in Reader,
                      pc[r] = "unlock", pc'[r] # "unlock", mutex' # mutex
               PROVE  mutex = r
    OBVIOUS
  <2> USE DEF CacheTypeOK, Goto
  <2>1. ASSUME NEW q \in Reader, ReaderStep(q) \/ CommandFails(q) \/ ReaderDies(q)
        PROVE  q = r
    BY <2>1 DEF ReaderStep, GetMap, AcquireMutex, Recheck, LoadFromDatabase, StoreMap,
                ReleaseMutex, WaitForMap, ReadCache, CommandFails, ReaderDies
  <2>2. ReaderStep(r) \/ CommandFails(r) \/ ReaderDies(r)
    BY <2>1 DEF Next, vars, SeatsChange, CacheLapses, MutexExpires
  <2> QED
    BY <2>2 DEF ReaderStep, GetMap, AcquireMutex, Recheck, LoadFromDatabase, StoreMap,
                ReleaseMutex, OwnsMutex, WaitForMap, CommandFails, ReaderDies
<1> QED
  BY <1>1, CacheTypeCorrect, PTL DEF Spec, OwnMutexOnly

\* Type correctness of the cache and its readers: among others no reader polls more
\* than WAIT_ATTEMPTS times, and only versions of the database are cached.
THEOREM CacheTypesHold == Spec => []CacheTypeOK
BY CacheTypeCorrect, PTL

-----------------------------------------------------------------------------
(* The database work.  A load in prospect is charged before it happens:    *)
(* Outlived readers that may still load were charged when their mutex      *)
(* expired, and one more load is due when the map is gone and no owner is  *)
(* about to store it, or an owner is about to load.                        *)

Outlived == {r \in Reader : pc[r] \in {"recheck", "load"} /\ mutex # r}

OwnerAt(place) == \E r \in Reader : mutex = r /\ pc[r] = place

Due == IF OwnerAt("load") \/ (cache = NoMap /\ ~OwnerAt("store")) THEN 1 ELSE 0

Budget == 1 + lapses + overruns + faults

LoadInv ==
    /\ IsFiniteSet(Outlived)
    /\ loads + Cardinality(Outlived) + Due <= Budget

\* The parts of the sum are numbers, before a step and after it.
LEMMA PartsAreNumbers ==
    ASSUME CacheTypeOK
    PROVE  loads \in Int /\ Budget \in Int /\ Due \in Int /\ 0 <= Due /\ Due <= 1
BY CacheAssumption DEF CacheTypeOK, Budget, Due

LEMMA PartsAreNumbersNext ==
    ASSUME CacheTypeOK'
    PROVE  loads' \in Int /\ Budget' \in Int /\ Due' \in Int /\ 0 <= Due' /\ Due' <= 1
<1>1. lapses' \in Int /\ overruns' \in Int /\ faults' \in Int /\ loads' \in Int
  BY CacheAssumption DEF CacheTypeOK
<1>2. Budget' \in Int
  BY <1>1 DEF Budget
<1>3. Due' = 0 \/ Due' = 1
  BY DEF Due
<1> QED
  BY <1>1, <1>2, <1>3

\* The sum stays within the budget, if what a step adds to it is charged.
LEMMA StaysWithin ==
    ASSUME NEW l \in Int, NEW u \in Int, NEW d \in Int, NEW b \in Int,
           NEW m \in Int, NEW e \in Int, NEW c \in Int, l + u + d <= b
    PROVE  /\ m + e + b <= l + d + c => m + u + e <= c
           /\ m + e + b + 1 <= l + d + c => m + u + e <= c /\ m + (u + 1) + e <= c
           /\ m + e + b <= l + d + c + 1 => m + (u - 1) + e <= c
OBVIOUS

\* A step that outlives nobody must not use up more than it is charged.
LEMMA NobodyOutlived ==
    ASSUME CacheTypeOK, CacheTypeOK', LoadInv, Outlived' = Outlived,
           loads' + Due' + Budget <= loads + Due + Budget'
    PROVE  LoadInv'
<1>1. IsFiniteSet(Outlived) /\ loads + Cardinality(Outlived) + Due <= Budget
  BY DEF LoadInv
<1>2. IsFiniteSet(Outlived') /\ Cardinality(Outlived') = Cardinality(Outlived)
  BY <1>1
<1>3. loads \in Int /\ Due \in Int /\ Budget \in Int /\ Cardinality(Outlived) \in Int
  BY <1>1, PartsAreNumbers, FS_CardinalityType
<1>4. loads' \in Int /\ Due' \in Int /\ Budget' \in Int
  BY PartsAreNumbersNext
<1>5. loads' + Cardinality(Outlived') + Due' <= Budget'
  BY <1>1, <1>2, <1>3, <1>4, StaysWithin, Zenon
<1> QED
  BY <1>2, <1>5 DEF LoadInv

\* A reader that is outlived takes one load with it.
LEMMA OneMoreOutlived ==
    ASSUME CacheTypeOK, CacheTypeOK', LoadInv, NEW r, Outlived' = Outlived \cup {r},
           loads' + Due' + Budget + 1 <= loads + Due + Budget'
    PROVE  LoadInv'
<1>1. IsFiniteSet(Outlived) /\ loads + Cardinality(Outlived) + Due <= Budget
  BY DEF LoadInv
<1>2. IsFiniteSet(Outlived')
      /\ Cardinality(Outlived') \in {Cardinality(Outlived), Cardinality(Outlived) + 1}
  BY <1>1, FS_AddElement
<1>3. loads \in Int /\ Due \in Int /\ Budget \in Int /\ Cardinality(Outlived) \in Int
  BY <1>1, PartsAreNumbers, FS_CardinalityType
<1>4. loads' \in Int /\ Due' \in Int /\ Budget' \in Int
  BY PartsAreNumbersNext
<1>5. loads' + Cardinality(Outlived') + Due' <= Budget'
  BY <1>1, <1>2, <1>3, <1>4, StaysWithin, Zenon
<1> QED
  BY <1>2, <1>5 DEF LoadInv

\* An outlived reader that loads, or need not, gives its charge back.
LEMMA OneLessOutlived ==
    ASSUME CacheTypeOK, CacheTypeOK', LoadInv,
           NEW r \in Outlived, Outlived' = Outlived \ {r},
           loads' + Due' + Budget <= loads + Due + Budget' + 1
    PROVE  LoadInv'
<1>1. IsFiniteSet(Outlived) /\ loads + Cardinality(Outlived) + Due <= Budget
  BY DEF LoadInv
<1>2. IsFiniteSet(Outlived') /\ Cardinality(Outlived') = Cardinality(Outlived) - 1
  BY <1>1, FS_RemoveElement
<1>3. loads \in Int /\ Due \in Int /\ Budget \in Int /\ Cardinality(Outlived) \in Int
  BY <1>1, PartsAreNumbers, FS_CardinalityType
<1>4. loads' \in Int /\ Due' \in Int /\ Budget' \in Int
  BY PartsAreNumbersNext
<1>5. loads' + Cardinality(Outlived') + Due' <= Budget'
  BY <1>1, <1>2, <1>3, <1>4, StaysWithin, Zenon
<1> QED
  BY <1>2, <1>5 DEF LoadInv

\* What the steps below use up and are charged.
LEMMA Charges ==
    ASSUME NEW l \in Int, NEW d \in Int, NEW e \in Int, NEW b \in Int
    PROVE  /\ e <= d => l + e + b <= l + d + b
           /\ 0 <= d /\ e <= 1 => l + e + b <= l + d + (b + 1)
           /\ e <= d + 1 => l + e + b <= l + d + b + 1 /\ l + e + b <= l + d + (b + 1) + 1
OBVIOUS

\* Every step of a reader or its environment keeps to the budget.
LEMMA LoadInvStep ==
    ASSUME CacheTypeOK, CacheTypeOK', ReadersWellFormed, LoadInv, [Next]_vars
    PROVE  LoadInv'
<1> USE CacheAssumption DEF environment, Goto, Fault
<1>0. /\ pc \in [Reader -> ReaderPC] /\ cache \in Version \cup {NoMap} /\ NoMap \notin Version
      /\ loads \in Int /\ Budget \in Int
      /\ Due \in Int /\ 0 <= Due /\ Due <= 1
      /\ Due' \in Int /\ 0 <= Due' /\ Due' <= 1
      /\ lapses \in Int /\ overruns \in Int /\ faults \in Int
  <2>1. NoMap \notin Version
    BY DEF Version
  <2>2. lapses \in Int /\ overruns \in Int /\ faults \in Int
    BY DEF CacheTypeOK
  <2> QED
    BY <2>1, <2>2, PartsAreNumbers, PartsAreNumbersNext DEF CacheTypeOK
<1>1. ASSUME UNCHANGED <<loads, lapses, overruns, faults>>, Outlived' = Outlived, Due' <= Due
      PROVE  LoadInv'
  <2>1. Budget' = Budget
    BY <1>1 DEF Budget
  <2>2. loads' + Due' + Budget <= loads + Due + Budget'
    BY <1>0, <1>1, <2>1, Charges, Zenon
  <2> QED
    BY <1>1, <2>2, NobodyOutlived
<1>2. ASSUME loads' = loads, Outlived' = Outlived, Budget' = Budget + 1
      PROVE  LoadInv'
  <2>1. loads' + Due' + Budget <= loads + Due + Budget'
    BY <1>0, <1>2, Charges, Zenon
  <2> QED
    BY <1>2, <2>1, NobodyOutlived
<1>3. ASSUME loads' = loads, NEW r \in Outlived, Outlived' = Outlived \ {r},
             Due' <= Due + 1, Budget' \in {Budget, Budget + 1}
      PROVE  LoadInv'
  <2>1. loads' + Due' + Budget <= loads + Due + Budget' + 1
    BY <1>0, <1>3, Charges, Zenon
  <2> QED
    BY <1>3, <2>1, OneLessOutlived
<1>4. ASSUME NEW r \in Reader, GetMap(r) \/ WaitForMap(r)
      PROVE  LoadInv'
  <2>1. Outlived' = Outlived
    BY <1>0, <1>4 DEF GetMap, WaitForMap, ReadCache, Outlived
  <2>2. Due' = Due
    BY <1>0, <1>4 DEF GetMap, WaitForMap, ReadCache, Due, OwnerAt
  <2> QED
    BY <1>0, <1>1, <1>4, <2>1, <2>2 DEF GetMap, WaitForMap
<1>5. ASSUME NEW r \in Reader, AcquireMutex(r)
      PROVE  LoadInv'
  <2>1. Outlived' = Outlived
    BY <1>0, <1>5 DEF AcquireMutex, Outlived
  <2>2. Due' = Due
    BY <1>0, <1>5 DEF AcquireMutex, Due, OwnerAt
  <2>3. loads' = loads /\ (UNCHANGED <<lapses, overruns, faults>> \/ Budget' = Budget + 1)
    BY <1>0, <1>5 DEF AcquireMutex, Budget
  <2> QED
    BY <1>0, <1>1, <1>2, <2>1, <2>2, <2>3
<1>6. ASSUME NEW r \in Reader, Recheck(r)
      PROVE  LoadInv'
  <2>1. Due' <= Due
    BY <1>0, <1>6 DEF Recheck, ReadCache, Due, OwnerAt
  <2>2. UNCHANGED <<loads, lapses, overruns, faults, mutex>> /\ Budget' = Budget
    BY <1>6 DEF Recheck, Budget
  <2>3. CASE r \in Outlived /\ cache # NoMap
    <3>1. Outlived' = Outlived \ {r}
      BY <1>0, <1>6, <2>3 DEF Recheck, ReadCache, Outlived
    <3> QED
      BY <1>0, <1>3, <2>1, <2>2, <2>3, <3>1
  <2>4. CASE r \notin Outlived \/ cache = NoMap
    <3>1. Outlived' = Outlived
      BY <1>0, <1>6, <2>4 DEF Recheck, ReadCache, Outlived
    <3> QED
      BY <1>1, <2>1, <2>2, <3>1
  <2> QED
    BY <2>3, <2>4
<1>7. ASSUME NEW r \in Reader, LoadFromDatabase(r)
      PROVE  LoadInv'
  <2>1. loads' = loads + 1 /\ UNCHANGED <<mutex, cache>> /\ Budget' = Budget
    BY <1>7 DEF LoadFromDatabase, Budget
  <2>2. CASE mutex = r
    <3>1. Outlived' = Outlived
      BY <1>0, <1>7, <2>2 DEF LoadFromDatabase, Outlived
    <3>2. Due = 1 /\ Due' = 0
      BY <1>0, <1>7, <2>2 DEF LoadFromDatabase, Due, OwnerAt
    <3> QED
      BY <1>0, <2>1, <3>1, <3>2, NobodyOutlived
  <2>3. CASE mutex # r
    <3>1. r \in Outlived /\ Outlived' = Outlived \ {r}
      BY <1>0, <1>7, <2>3 DEF LoadFromDatabase, Outlived
    <3>2. Due' = Due
      BY <1>0, <1>7, <2>3 DEF LoadFromDatabase, Due, OwnerAt
    <3> QED
      BY <1>0, <2>1, <3>1, <3>2, OneLessOutlived
  <2> QED
    BY <2>2, <2>3
<1>8. ASSUME NEW r \in Reader, StoreMap(r)
      PROVE  LoadInv'
  <2>1. Outlived' = Outlived
    BY <1>0, <1>8 DEF StoreMap, Outlived
  <2>2. cache' # NoMap
    BY <1>0, <1>8 DEF StoreMap, ReadersWellFormed
  <2>3. Due' <= Due
    BY <1>0, <1>8, <2>2 DEF StoreMap, Due, OwnerAt
  <2> QED
    BY <1>1, <1>8, <2>1, <2>3 DEF StoreMap
<1>9. ASSUME NEW r \in Reader, ReleaseMutex(r)
      PROVE  LoadInv'
  <2>1. Outlived' = Outlived
    BY <1>0, <1>9 DEF ReleaseMutex, OwnsMutex, Outlived
  <2>2. Due' <= Due
    BY <1>0, <1>9 DEF ReleaseMutex, OwnsMutex, Due, OwnerAt
  <2> QED
    BY <1>1, <1>9, <2>1, <2>2 DEF ReleaseMutex
<1>10. ASSUME NEW r \in Reader, CommandFails(r) \/ ReaderDies(r)
       PROVE  LoadInv'
  <2>1. loads' = loads /\ Budget' = Budget + 1
    BY <1>0, <1>10 DEF CommandFails, ReaderDies, Budget
  <2>2. CASE r \in Outlived
    <3>1. Outlived' = Outlived \ {r}
      BY <1>0, <1>10, <2>2 DEF CommandFails, ReaderDies, Outlived
    <3> QED
      BY <1>0, <1>3, <2>1, <2>2, <3>1
  <2>3. CASE r \notin Outlived
    <3>1. Outlived' = Outlived
      BY <1>0, <1>10, <2>3 DEF CommandFails, ReaderDies, Outlived
    <3> QED
      BY <1>2, <2>1, <3>1
  <2> QED
    BY <2>2, <2>3
<1>11. CASE SeatsChange \/ UNCHANGED vars
  <2>1. UNCHANGED <<loads, lapses, overruns, faults, Outlived, Due>>
    BY <1>11 DEF SeatsChange, vars, Outlived, Due, OwnerAt
  <2> QED
    BY <1>0, <1>1, <2>1
<1>12. CASE CacheLapses
  <2>1. loads' = loads /\ Outlived' = Outlived /\ Budget' = Budget + 1
    BY <1>0, <1>12 DEF CacheLapses, Outlived, Budget
  <2> QED
    BY <1>2, <2>1
<1>13. CASE MutexExpires
  <2>1. loads' = loads /\ pc' = pc /\ cache' = cache /\ mutex' = NoOwner /\ mutex \in Reader
    BY <1>13 DEF MutexExpires, CacheTypeOK
  <2>2. CASE pc[mutex] \in Electing
    <3>1. Budget' = Budget + 1
      BY <1>0, <1>13, <2>2 DEF MutexExpires, Budget
    <3>2. CASE pc[mutex] = "store"
      <4>1. Outlived' = Outlived
        BY <2>1, <3>2 DEF Outlived
      <4> QED
        BY <1>2, <2>1, <3>1, <4>1
    <3>3. CASE pc[mutex] # "store"
      <4>1. Outlived' = Outlived \cup {mutex}
        BY <2>1, <2>2, <3>3 DEF Outlived, Electing
      <4>2. Due' <= Due
        BY <1>0, <2>1, <2>2, <3>3 DEF Due, OwnerAt, Electing
      <4> QED
        BY <1>0, <2>1, <3>1, <4>1, <4>2, OneMoreOutlived
    <3> QED
      BY <3>2, <3>3
  <2>3. CASE pc[mutex] \notin Electing
    <3>1. UNCHANGED <<lapses, overruns, faults>>
      BY <1>13, <2>3 DEF MutexExpires
    <3>2. Outlived' = Outlived
      BY <2>1, <2>3 DEF Outlived, Electing
    <3>3. Due' <= Due
      BY <1>0, <2>1, <2>3 DEF Due, OwnerAt, Electing
    <3> QED
      BY <1>1, <2>1, <3>1, <3>2, <3>3
  <2> QED
    BY <2>2, <2>3
<1> QED
  BY <1>4, <1>5, <1>6, <1>7, <1>8, <1>9, <1>10, <1>11, <1>12, <1>13 DEF Next, ReaderStep

\* However many readers come and whenever they come, the database is asked for the
\* map once, once more each time the cached map goes away, and once for each fault
\* and each mutex that expires under its owner.
THEOREM DatabaseIsShielded == Spec => []LoadsBounded
<1>1. Init => LoadInv
  <2> SUFFICES ASSUME Init PROVE LoadInv
    OBVIOUS
  <2>1. Outlived = {}
    BY DEF Init, Outlived
  <2>2. loads = 0 /\ Budget = 1 /\ Due \in {0, 1}
    BY DEF Init, Budget, Due
  <2> QED
    BY <2>1, <2>2, FS_EmptySet DEF LoadInv
<1>2. CacheTypeOK /\ CacheTypeOK' /\ ReadersWellFormed /\ LoadInv /\ [Next]_vars => LoadInv'
  BY LoadInvStep
<1>3. CacheTypeOK /\ LoadInv => LoadsBounded
  <2> SUFFICES ASSUME CacheTypeOK, LoadInv PROVE LoadsBounded
    OBVIOUS
  <2>1. loads \in Int /\ Budget \in Int /\ Due \in Int /\ 0 <= Due
    BY PartsAreNumbers
  <2>2. Cardinality(Outlived) \in Nat
    BY FS_CardinalityType DEF LoadInv
  <2> QED
    BY <2>1, <2>2 DEF LoadInv, LoadsBounded, Budget
<1> QED
  BY <1>1, <1>2, <1>3, CacheTypeCorrect, PTL DEF Spec
-----------------------------------------------------------------------------
(* The abstract map service.  A version is read from the database, then    *)
(* cached, then returned: each stage is bounded by the one before, whether *)
(* or not a loader comes late.                                             *)

VersionsInOrder ==
    /\ newest <= db
    /\ cache # NoMap => cache <= newest
    /\ \A r \in Reader : map[r] # NoMap => map[r] <= db
    /\ \A r \in Reader : pc[r] \in {"unlock", "done"} /\ map[r] # NoMap => map[r] <= newest
    /\ \A r \in Reader : pc[r] = "done" => map[r] # NoMap

LEMMA VersionsStayInOrder == Spec => []VersionsInOrder
<1> USE CacheAssumption
<1>1. Init => VersionsInOrder
  BY DEF Init, VersionsInOrder
<1>2. CacheTypeOK /\ ReadersWellFormed /\ VersionsInOrder /\ [Next]_vars => VersionsInOrder'
  <2> SUFFICES ASSUME CacheTypeOK, ReadersWellFormed, VersionsInOrder, [Next]_vars
               PROVE  VersionsInOrder'
    OBVIOUS
  <2> USE DEF CacheTypeOK, ReadersWellFormed, VersionsInOrder, Version, environment, Goto, Fault
  <2>1. ASSUME NEW r \in Reader, GetMap(r) \/ Recheck(r) \/ WaitForMap(r)
        PROVE  VersionsInOrder'
    BY <2>1 DEF GetMap, Recheck, WaitForMap, ReadCache
  <2>2. ASSUME NEW r \in Reader, AcquireMutex(r) \/ ReaderDies(r)
        PROVE  VersionsInOrder'
    BY <2>2 DEF AcquireMutex, ReaderDies
  <2>3. ASSUME NEW r \in Reader, LoadFromDatabase(r)
        PROVE  VersionsInOrder'
    BY <2>3 DEF LoadFromDatabase
  <2>4. ASSUME NEW r \in Reader, StoreMap(r)
        PROVE  VersionsInOrder'
    BY <2>4 DEF StoreMap
  <2>5. ASSUME NEW r \in Reader, ReleaseMutex(r)
        PROVE  VersionsInOrder'
    BY <2>5 DEF ReleaseMutex
  <2>6. ASSUME NEW r \in Reader, CommandFails(r)
        PROVE  VersionsInOrder'
    BY <2>6 DEF CommandFails, Electing
  <2>7. CASE SeatsChange \/ CacheLapses \/ MutexExpires \/ UNCHANGED vars
    BY <2>7 DEF SeatsChange, CacheLapses, MutexExpires, vars
  <2> QED
    BY <2>1, <2>2, <2>3, <2>4, <2>5, <2>6, <2>7 DEF Next, ReaderStep
<1> QED
  BY <1>1, <1>2, CacheTypeCorrect, PTL DEF Spec

\* What every reader has been answered with.
Answers == [r \in Reader |-> IF pc[r] = "done" THEN map[r] ELSE NoMap]

\* A cache read takes the map published last, unless a loader came late; on a hit
\* at `done` it is the answer.
LEMMA CacheReadIsHit ==
    ASSUME CacheTypeOK, CacheInv, VersionsInOrder, NEW r \in Reader, pc[r] \notin Ended,
           NEW hit \in {"done", "unlock"}, NEW miss \in ReaderPC \ {"done"},
           ReadCache(r, hit, miss), UNCHANGED <<db, newest, overruns>>
    PROVE  [Service!Next]_(Service!vars)
<1> USE CacheAssumption DEF CacheTypeOK, Goto, Ended, Version
<1>1. CASE cache = NoMap
  <2>1. map' = map /\ Answers' = Answers
    BY <1>1 DEF ReadCache, Answers
  <2> QED
    BY <2>1 DEF Service!vars, Answers
<1>2. CASE cache # NoMap
  <2>1. cache \in 0..newest /\ (overruns > 0 \/ cache = newest)
    BY <1>2 DEF CacheInv, VersionsInOrder
  <2>2. Answers[r] = NoMap /\ map' = [map EXCEPT ![r] = cache]
    BY <1>2 DEF ReadCache, Answers
  <2>3. Answers' \in {Answers, [Answers EXCEPT ![r] = cache]}
    <3>1. CASE hit = "done"
      BY <1>2, <3>1 DEF ReadCache, Answers
    <3>2. CASE hit = "unlock"
      BY <1>2, <3>2 DEF ReadCache, Answers
    <3> QED
      BY <3>1, <3>2
  <2>4. Service!Hit(r)
    BY <2>1, <2>2, <2>3 DEF Service!Hit, Service!Takes, Answers
  <2> QED
    BY <2>4 DEF Service!Next
<1> QED
  BY <1>1, <1>2

\* Every step of the shield is a step of the map service or leaves it alone.
LEMMA ServiceStep ==
    ASSUME CacheTypeOK, ReadersWellFormed, CacheInv, VersionsInOrder, [Next]_vars
    PROVE  [Service!Next]_(Service!vars)
<1> USE CacheAssumption DEF CacheTypeOK, environment, Goto, Fault
<1>1. ASSUME NEW r \in Reader, GetMap(r) \/ Recheck(r) \/ WaitForMap(r)
      PROVE  [Service!Next]_(Service!vars)
  <2>1. /\ pc[r] \notin Ended
        /\ UNCHANGED <<db, newest, overruns>>
        /\ \E hit \in {"done", "unlock"}, miss \in ReaderPC \ {"done"} : ReadCache(r, hit, miss)
    BY <1>1 DEF GetMap, Recheck, WaitForMap, Ended, ReaderPC
  <2> QED
    BY <2>1, CacheReadIsHit
<1>2. ASSUME NEW r \in Reader, AcquireMutex(r) \/ ReaderDies(r)
      PROVE  UNCHANGED Service!vars
  <2>1. Answers' = Answers
    BY <1>2 DEF AcquireMutex, ReaderDies, Answers, Ended
  <2> QED
    BY <1>2, <2>1 DEF AcquireMutex, ReaderDies, Service!vars, Answers
<1>3. ASSUME NEW r \in Reader, LoadFromDatabase(r)
      PROVE  Service!Load(r)
  <2>1. Answers' = Answers /\ Answers[r] = NoMap
    BY <1>3 DEF LoadFromDatabase, Answers
  <2> QED
    BY <1>3, <2>1 DEF LoadFromDatabase, Service!Load, Service!Takes, Answers
<1>4. ASSUME NEW r \in Reader, StoreMap(r)
      PROVE  Service!Publish(r)
  <2>1. Answers' = Answers /\ map[r] # NoMap
    BY <1>4 DEF StoreMap, Answers, ReadersWellFormed, Version
  <2> QED
    BY <1>4, <2>1 DEF StoreMap, Service!Publish, Answers
<1>5. ASSUME NEW r \in Reader, ReleaseMutex(r), map[r] = NoMap
      PROVE  UNCHANGED Service!vars
  <2>1. Answers' = Answers
    BY <1>5 DEF ReleaseMutex, Answers
  <2> QED
    BY <1>5, <2>1 DEF ReleaseMutex, Service!vars, Answers
<1>6. ASSUME NEW r \in Reader, ReleaseMutex(r), map[r] # NoMap
      PROVE  Service!Answer(r)
  <2>1. Answers[r] = NoMap /\ map[r] <= newest
    BY <1>6 DEF ReleaseMutex, Answers, VersionsInOrder
  <2>2. Answers' = [Answers EXCEPT ![r] = map[r]]
    BY <1>6 DEF ReleaseMutex, Answers
  <2> QED
    BY <1>6, <2>1, <2>2 DEF ReleaseMutex, Service!Answer, Answers
<1>7. ASSUME NEW r \in Reader, CommandFails(r)
      PROVE  Service!GiveUp(r)
  <2>1. Answers' = Answers /\ Answers[r] = NoMap
    BY <1>7 DEF CommandFails, Answers, Electing
  <2> QED
    BY <1>7, <2>1 DEF CommandFails, Service!GiveUp, Service!Takes, Answers
<1>8. CASE SeatsChange
  BY <1>8 DEF SeatsChange, Service!Next, Service!SeatsChange
<1>9. CASE MutexExpires
  BY <1>9 DEF MutexExpires, Service!Next, Service!ComesLate, Service!vars
<1>10. CASE CacheLapses \/ UNCHANGED vars
  BY <1>10 DEF CacheLapses, vars, Service!vars
<1> QED
  BY <1>1, <1>2, <1>3, <1>4, <1>5, <1>6, <1>7, <1>8, <1>9, <1>10
  DEF Next, ReaderStep, Service!Next

\* The stampede shield implements the map service for any number of readers: the
\* mutex, the second look, the waiting loop, lapses and crashes are stuttering or
\* a reader that gives up.
THEOREM CacheImplementsService == Spec => ImplementsMapService
<1>1. Init => Service!Init
  BY DEF Init, Service!Init
<1>2. CacheTypeOK /\ ReadersWellFormed /\ CacheInv /\ VersionsInOrder /\ [Next]_vars
        => [Service!Next]_(Service!vars)
  BY ServiceStep
<1> QED
  BY <1>1, <1>2, CacheTypeCorrect, CacheInvariant, VersionsStayInOrder, PTL
  DEF Spec, ImplementsMapService, Service!Spec

\* No caller is shown a map older than one that was returned before it took its own:
\* an answer was cached before it was given, the cache only moves forward, and so
\* does the database behind it.
THEOREM AnswersMoveForward == Spec => ReadsMoveForward
<1>1. CacheTypeOK /\ CacheInv /\ VersionsInOrder /\ [Next]_vars =>
        [\A r, q \in Reader :
            overruns' = 0 /\ map'[r] \notin {map[r], NoMap} /\ pc[q] = "done"
               => map[q] <= map'[r]]_vars
  <2> SUFFICES ASSUME CacheTypeOK, CacheInv, VersionsInOrder, [Next]_vars,
                      NEW r \in Reader, NEW q \in Reader,
                      overruns' = 0, map'[r] \notin {map[r], NoMap}, pc[q] = "done"
               PROVE  map[q] <= map'[r]
    OBVIOUS
  <2> USE CacheAssumption DEF CacheTypeOK, Version, environment, Goto, Fault
  <2>1. /\ map[q] \in Version /\ map[q] <= newest
        /\ newest <= db
    BY DEF VersionsInOrder
  <2>2. overruns = 0
    BY DEF Next, ReaderStep, GetMap, AcquireMutex, Recheck, LoadFromDatabase, StoreMap,
           ReleaseMutex, WaitForMap, CommandFails, ReaderDies, SeatsChange, CacheLapses,
           MutexExpires, vars
  <2>3. \/ map'[r] = db
        \/ map'[r] = cache
    BY DEF Next, ReaderStep, GetMap, AcquireMutex, Recheck, LoadFromDatabase, StoreMap,
           ReleaseMutex, WaitForMap, ReadCache, CommandFails, ReaderDies, SeatsChange,
           CacheLapses, MutexExpires, vars
  <2>4. map'[r] = cache => cache = newest
    BY <2>2 DEF CacheInv
  <2> QED
    BY <2>1, <2>3, <2>4
<1> QED
  BY <1>1, CacheTypeCorrect, CacheInvariant, VersionsStayInOrder, PTL DEF Spec, ReadsMoveForward
=============================================================================

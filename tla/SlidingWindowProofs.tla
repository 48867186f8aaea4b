------------------------ MODULE SlidingWindowProofs -------------------------
(***************************************************************************)
(* Proofs about SlidingWindow, for any window, limit, time to live, lag    *)
(* below the window, and any numbers of requests and ticks.                *)
(***************************************************************************)
EXTENDS SlidingWindow, FiniteSetTheorems, TLAPS

\* Elements with distinct ids, each of which has one of the same id in T, are no
\* more than T has.
LEMMA CountById ==
    ASSUME NEW S, NEW T, IsFiniteSet(T),
           \A x \in S : \E y \in T : y.id = x.id,
           \A x, y \in S : x.id = y.id => x = y
    PROVE  IsFiniteSet(S) /\ Cardinality(S) <= Cardinality(T)
<1> DEFINE f == [x \in S |-> CHOOSE y \in T : y.id = x.id]
<1>1. \A x \in S : f[x] \in T /\ f[x].id = x.id
  OBVIOUS
<1>2. f \in [S -> T]
  BY <1>1
<1>3. \A x, y \in S : f[x] = f[y] => x = y
  BY <1>1
<1>4. f \in Injection(S, T)
  BY <1>2, <1>3 DEF Injection, IsInjective
<1> QED
  BY <1>4, FS_Injection, FS_CardinalityType

\* What the sorted set still knows of the log: the ids of the requests; a request
\* that runs is a member until Window less the lag is over, and the key outlives it;
\* a member is no older and no newer than its request.
WindowInv ==
    /\ WindowTypeOK
    /\ IsFiniteSet(log) /\ IsFiniteSet(zset)
    /\ \A r \in log : r.id < Sent /\ r.run <= now
    /\ \A r, q \in log : r.id = q.id => r = q
    /\ \A m, n \in zset : m.id = n.id => m = n
    /\ \A m \in zset : \E r \in log : r.id = m.id /\ m.score <= r.run
    /\ \A r \in log : now < r.run + (Window - MaxLag) =>
          /\ \E m \in zset : m.id = r.id /\ r.run <= m.score + MaxLag
          /\ r.run + Ttl <= deadline

LEMMA SentIsNat ==
    ASSUME WindowInv PROVE Sent \in Nat
BY FS_CardinalityType DEF WindowInv, Sent

\* A request is logged once more, under a new id.
LEMMA RequestKeepsTypes ==
    ASSUME WindowInv, NEW lag \in 0..MaxLag, Request(lag)
    PROVE  WindowTypeOK'
<1> USE WindowAssumption, SentIsNat
<1>1. Sent \in 0..MaxSent /\ now \in 0..MaxTime /\ now - lag \in 0..MaxTime
  BY DEF Request, WindowInv, WindowTypeOK
<1>2. [id |-> Sent, score |-> now - lag] \in Member
  BY <1>1 DEF Member
<1>3. zset' \subseteq Member
  BY <1>2 DEF Request, WindowInv, WindowTypeOK
<1>4. \A a \in BOOLEAN : [id |-> Sent, run |-> now, allowed |-> a] \in Answer
  BY <1>1 DEF Answer
<1>5. log' \subseteq Answer
  <2> DEFINE count == Cardinality({m \in zset : ~Expired(m, now - lag)}
                                  \cup {[id |-> Sent, score |-> now - lag]})
  <2>1. log' = log \cup {[id |-> Sent, run |-> now, allowed |-> Admits(count)]}
    BY DEF Request
  <2> HIDE DEF count
  <2>2. Admits(count) \in BOOLEAN
    BY DEF Admits
  <2> QED
    BY <1>4, <2>1, <2>2 DEF WindowInv, WindowTypeOK
<1>6. now' \in 0..MaxTime /\ deadline' \in 0..(MaxTime + Ttl) /\ now' < deadline'
  BY <1>1 DEF Request
<1> QED
  BY <1>3, <1>5, <1>6 DEF WindowTypeOK

\* The script: what it prunes does not count any more, and what it adds is the new
\* request.
LEMMA RequestKeepsWindowInv ==
    ASSUME WindowInv, NEW lag \in 0..MaxLag, Request(lag)
    PROVE  WindowInv'
<1> USE WindowAssumption
<1> DEFINE stamp == now - lag
           kept  == {m \in zset : ~Expired(m, stamp)}
           new   == [id |-> Sent, score |-> stamp]
           entry == [id |-> Sent, run |-> now, allowed |-> Admits(Cardinality(kept \cup {new}))]
<1>1. /\ zset' = kept \cup {new} /\ log' = log \cup {entry}
      /\ now' = now /\ deadline' = now + Ttl
  BY DEF Request
<1>2. /\ new.id = Sent /\ new.score = stamp /\ entry.id = Sent /\ entry.run = now
      /\ stamp \in Nat /\ stamp <= now /\ now <= stamp + MaxLag /\ now \in Nat
  BY DEF Request, WindowInv, WindowTypeOK
<1>3. WindowTypeOK'
  BY RequestKeepsTypes
<1>4. Sent \in Nat /\ \A r \in log : r.id # Sent /\ r.id \in Nat
  BY SentIsNat DEF WindowInv, WindowTypeOK, Answer
<1>5. \A m \in zset : m.id # Sent
  BY <1>4 DEF WindowInv
<1>6. IsFiniteSet(log') /\ IsFiniteSet(zset') /\ Sent' = Sent + 1
  <2>1. IsFiniteSet(kept)
    BY FS_Subset DEF WindowInv
  <2>2. entry \notin log
    BY <1>2, <1>4
  <2> HIDE DEF kept, new, entry
  <2> QED
    BY <1>1, <2>1, <2>2, FS_AddElement DEF WindowInv, Sent
<1>7. \A r \in log' : r.id < Sent' /\ r.run <= now'
  BY <1>1, <1>2, <1>4, <1>6 DEF WindowInv
<1>8. \A r, q \in log' : r.id = q.id => r = q
  BY <1>1, <1>2, <1>4 DEF WindowInv
<1>9. \A m, n \in zset' : m.id = n.id => m = n
  BY <1>1, <1>2, <1>5 DEF WindowInv
<1>10. \A m \in zset' : \E r \in log' : r.id = m.id /\ m.score <= r.run
  BY <1>1, <1>2 DEF WindowInv
<1>11. ASSUME NEW r \in log', now' < r.run + (Window - MaxLag)
       PROVE  /\ \E m \in zset' : m.id = r.id /\ r.run <= m.score + MaxLag
              /\ r.run + Ttl <= deadline'
  <2>1. CASE r = entry
    <3>1. new \in zset' /\ new.id = r.id /\ r.run = now
      BY <1>1, <1>2, <2>1
    <3>2. r.run <= new.score + MaxLag /\ r.run + Ttl <= deadline'
      BY <1>1, <1>2, <3>1
    <3> HIDE DEF new
    <3> QED
      BY <3>1, <3>2
  <2>2. CASE r \in log
    <3>1. r.run \in Nat /\ r.run <= now
      BY <2>2 DEF WindowInv, WindowTypeOK, Answer
    <3>2. PICK m \in zset : m.id = r.id /\ r.run <= m.score + MaxLag
      BY <1>1, <1>11, <2>2 DEF WindowInv
    <3>3. m.score \in Nat
      BY <3>2 DEF WindowInv, WindowTypeOK, Member
    <3>4. ~Expired(m, stamp)
      BY <1>1, <1>2, <1>11, <3>1, <3>2, <3>3 DEF Expired
    <3> QED
      BY <1>1, <1>2, <3>1, <3>2, <3>4
  <2> QED
    BY <1>1, <2>1, <2>2
<1> HIDE DEF stamp, kept, new, entry
<1> QED
  BY <1>3, <1>6, <1>7, <1>8, <1>9, <1>10, <1>11 DEF WindowInv

\* Time: a key whose deadline has come only knew of requests that do not count.
LEMMA TickKeepsWindowInv ==
    ASSUME WindowInv, Tick
    PROVE  WindowInv'
<1> USE WindowAssumption DEF Tick
<1>1. now \in Nat /\ now' = now + 1 /\ UNCHANGED <<deadline, log, Sent>>
  BY DEF WindowInv, WindowTypeOK, Sent
<1>2. zset' \in {zset, {}} /\ (zset' # {} => now' < deadline)
  BY DEF WindowInv, WindowTypeOK
<1>3. WindowTypeOK'
  BY <1>1, <1>2 DEF WindowInv, WindowTypeOK
<1>4. IsFiniteSet(zset')
  BY <1>2, FS_EmptySet DEF WindowInv
<1>5. ASSUME NEW r \in log, now' < r.run + (Window - MaxLag)
      PROVE  zset' = zset
  <2>1. r.run \in Nat /\ deadline \in Nat
    BY DEF WindowInv, WindowTypeOK, Answer
  <2>2. now < r.run + (Window - MaxLag)
    BY <1>1, <1>5, <2>1
  <2>3. r.run + Ttl <= deadline
    BY <2>2 DEF WindowInv
  <2> QED
    BY <1>1, <1>5, <2>1, <2>3
<1>6. \A r \in log : r.run \in Nat
  BY DEF WindowInv, WindowTypeOK, Answer
<1> QED
  BY <1>1, <1>2, <1>3, <1>4, <1>5, <1>6 DEF WindowInv

\* The invariant holds of every reachable state.
LEMMA WindowInvariant == Spec => []WindowInv
<1>1. Init => WindowInv
  BY WindowAssumption, FS_EmptySet DEF Init, WindowInv, WindowTypeOK
<1>2. WindowInv /\ [Next]_vars => WindowInv'
  <2>1. WindowInv /\ UNCHANGED vars => WindowInv'
    BY DEF WindowInv, WindowTypeOK, Sent, vars
  <2> QED
    BY <2>1, RequestKeepsWindowInv, TickKeepsWindowInv DEF Next
<1> QED
  BY <1>1, <1>2, PTL DEF Spec

-----------------------------------------------------------------------------
\* Type correctness of the limiter; among others Redis has dropped the key when its
\* deadline has come.
THEOREM WindowTypeCorrect == Spec => []WindowTypeOK
<1>1. WindowInv => WindowTypeOK
  BY DEF WindowInv
<1> QED
  BY <1>1, WindowInvariant, PTL

LetThrough(t) == {r \in RunWithin(t, Window - MaxLag) : r.allowed}

\* One script that runs: all that were let through in a stretch it is the last of
\* are members when it counts.
LEMMA RequestKeepsLimit ==
    ASSUME WindowInv, LimitHolds, NEW lag \in 0..MaxLag, Request(lag), NEW t \in 0..now
    PROVE  Cardinality(LetThrough(t)') <= Limit
<1> USE WindowAssumption
<1> DEFINE stamp == now - lag
           added == {m \in zset : ~Expired(m, stamp)} \cup {[id |-> Sent, score |-> stamp]}
           entry == [id |-> Sent, run |-> now, allowed |-> Admits(Cardinality(added))]
<1>1. zset' = added /\ log' = log \cup {entry} /\ now' = now
  BY DEF Request
<1>2. WindowInv'
  BY RequestKeepsWindowInv
<1>3. Cardinality(LetThrough(t)) <= Limit
  BY DEF LimitHolds, LetThrough
<1>4. CASE entry \notin LetThrough(t)'
  <2>1. LetThrough(t)' = LetThrough(t)
    BY <1>1, <1>4 DEF LetThrough, RunWithin
  <2> QED
    BY <1>3, <2>1
<1>5. CASE entry \in LetThrough(t)'
  <2>1. Admits(Cardinality(zset')) /\ now < t + (Window - MaxLag)
    BY <1>1, <1>5 DEF LetThrough, RunWithin
  <2>2. ASSUME NEW r \in LetThrough(t)'
        PROVE  \E m \in zset' : m.id = r.id
    <3>1. r \in log' /\ t <= r.run /\ r.run \in Nat /\ t \in Nat /\ now \in Nat
      BY <1>2, <2>2 DEF LetThrough, RunWithin, WindowInv, WindowTypeOK, Answer
    <3>2. now' < r.run + (Window - MaxLag)
      BY <1>1, <2>1, <3>1
    <3> QED
      BY <1>2, <3>1, <3>2 DEF WindowInv
  <2>3. \A r, q \in LetThrough(t)' : r.id = q.id => r = q
    BY <1>2 DEF WindowInv, LetThrough, RunWithin
  <2>4. IsFiniteSet(zset')
    BY <1>2 DEF WindowInv
  <2>5. IsFiniteSet(LetThrough(t)') /\ Cardinality(LetThrough(t)') <= Cardinality(zset')
    BY <2>2, <2>3, <2>4, CountById
  <2>6. Cardinality(zset') \in Nat /\ Cardinality(LetThrough(t)') \in Nat
    BY <2>4, <2>5, FS_CardinalityType
  <2> QED
    BY <2>1, <2>5, <2>6 DEF Admits
<1> QED
  BY <1>4, <1>5

\* The limit holds, for every window, limit and lag below the window: in no stretch
\* of Window less MaxLag does Redis let more than Limit requests through.
THEOREM LimitIsKept == Spec => []LimitHolds
<1> USE WindowAssumption
<1>1. Init => LimitHolds
  <2> SUFFICES ASSUME Init, NEW t \in 0..now
               PROVE  Cardinality(LetThrough(t)) <= Limit
    BY DEF LimitHolds, LetThrough
  <2>1. LetThrough(t) = {}
    BY DEF Init, LetThrough, RunWithin
  <2> QED
    BY <2>1, FS_EmptySet
<1>2. WindowInv /\ LimitHolds /\ [Next]_vars => LimitHolds'
  <2> SUFFICES ASSUME WindowInv, LimitHolds, [Next]_vars, NEW t \in (0..now)'
               PROVE  Cardinality(LetThrough(t)') <= Limit
    BY DEF LimitHolds, LetThrough
  <2>0. now \in Nat /\ \A r \in log : r.run \in Nat /\ r.run <= now
    BY DEF WindowInv, WindowTypeOK, Answer
  <2>1. ASSUME NEW lag \in 0..MaxLag, Request(lag)
        PROVE  Cardinality(LetThrough(t)') <= Limit
    <3>1. t \in 0..now
      BY <2>1 DEF Request
    <3> QED
      BY <2>1, <3>1, RequestKeepsLimit
  <2>2. CASE Tick \/ UNCHANGED vars
    <3>1. LetThrough(t)' = LetThrough(t)
      BY <2>2 DEF Tick, vars, LetThrough, RunWithin
    <3>2. CASE t \in 0..now
      BY <3>1, <3>2 DEF LimitHolds, LetThrough
    <3>3. CASE t \notin 0..now
      <4>1. \A r \in log : ~(t <= r.run)
        BY <2>0, <2>2, <3>3 DEF Tick, vars
      <4>2. LetThrough(t) = {}
        BY <4>1 DEF LetThrough, RunWithin
      <4> QED
        BY <3>1, <4>2, FS_EmptySet
    <3> QED
      BY <3>2, <3>3
  <2> QED
    BY <2>1, <2>2 DEF Next
<1> QED
  BY <1>1, <1>2, WindowInvariant, PTL DEF Spec

Earlier(r) == {q \in log : q.id < r.id /\ r.run < q.run + Window + MaxLag}

\* Nobody is refused without a cause: Limit requests before the refused one are
\* at most Window plus MaxLag older than it.
THEOREM RefusalsAreDue == Spec => []RefusalHasCause
<1> USE WindowAssumption
<1>1. Init => RefusalHasCause
  BY DEF Init, RefusalHasCause
<1>2. WindowInv /\ RefusalHasCause /\ [Next]_vars => RefusalHasCause'
  <2> SUFFICES ASSUME WindowInv, RefusalHasCause, [Next]_vars, NEW r \in log', ~r.allowed
               PROVE  Cardinality(Earlier(r)') >= Limit
    BY DEF RefusalHasCause, Earlier
  <2>1. CASE UNCHANGED log
    BY <2>1 DEF RefusalHasCause, Earlier
  <2>2. ASSUME NEW lag \in 0..MaxLag, Request(lag)
        PROVE  Cardinality(Earlier(r)') >= Limit
    <3> DEFINE stamp == now - lag
               kept  == {m \in zset : ~Expired(m, stamp)}
               new   == [id |-> Sent, score |-> stamp]
               entry == [id |-> Sent, run |-> now, allowed |-> Admits(Cardinality(kept \cup {new}))]
    <3>1. log' = log \cup {entry}
      BY <2>2 DEF Request
    <3>2. Sent \in Nat /\ \A q \in log : q.id < Sent /\ q.id \in Nat /\ q.run \in Nat
      BY SentIsNat DEF WindowInv, WindowTypeOK, Answer
    <3>3. Earlier(r)' = Earlier(r)
      BY <3>1, <3>2 DEF Earlier
    <3>4. CASE r \in log
      BY <3>3, <3>4 DEF RefusalHasCause, Earlier
    <3>5. CASE r = entry
      <4>1. IsFiniteSet(kept) /\ IsFiniteSet(Earlier(r))
        BY FS_Subset DEF WindowInv, Earlier
      <4>2. Cardinality(kept) >= Limit
        <5>1. ~Admits(Cardinality(kept \cup {new}))
          BY <3>5
        <5> HIDE DEF kept, new
        <5>2. Cardinality(kept) \in Nat
          BY <4>1, FS_CardinalityType
        <5>3. Cardinality(kept \cup {new}) \in {Cardinality(kept), Cardinality(kept) + 1}
          BY <4>1, FS_AddElement
        <5> QED
          BY <5>1, <5>2, <5>3 DEF Admits
      <4>3. ASSUME NEW m \in kept
            PROVE  \E q \in Earlier(r) : q.id = m.id
        <5>1. PICK q \in log : q.id = m.id /\ m.score <= q.run
          BY DEF WindowInv
        <5>2. m.score \in Nat /\ now \in Nat /\ q.run \in Nat /\ stamp < m.score + Window
          BY <3>2 DEF WindowInv, WindowTypeOK, Member, Expired
        <5>3. now < q.run + Window + MaxLag
          BY <5>1, <5>2
        <5> QED
          BY <3>2, <3>5, <5>1, <5>3 DEF Earlier
      <4>4. \A m, n \in kept : m.id = n.id => m = n
        BY DEF WindowInv
      <4>5. Cardinality(kept) <= Cardinality(Earlier(r))
        <5> HIDE DEF kept
        <5> QED
          BY <4>1, <4>3, <4>4, CountById
      <4>6. Cardinality(kept) \in Nat /\ Cardinality(Earlier(r)) \in Nat
        BY <4>1, FS_CardinalityType
      <4> HIDE DEF kept
      <4> QED
        BY <3>3, <4>2, <4>5, <4>6
    <3> QED
      BY <3>1, <3>4, <3>5
  <2> QED
    BY <2>1, <2>2 DEF Next, Tick, vars
<1> QED
  BY <1>1, <1>2, WindowInvariant, PTL DEF Spec

\* The way back for a client that was refused: a request that finds none of the
\* client's requests within Window plus MaxLag before it is let through.
QuietClientIsServed ==
    [][\A r \in log' \ log : (\A q \in log : q.run + Window + MaxLag <= now) => r.allowed]_vars

\* A client that was told 429 and waits as long as Retry-After says, and the lag,
\* is served by the next request, although refused requests are recorded as well.
THEOREM QuietClientsAreServed == Spec => QuietClientIsServed
<1> USE WindowAssumption
<1>1. ASSUME WindowInv, WindowInv', RefusalHasCause', Next,
             NEW r \in log' \ log, \A q \in log : q.run + Window + MaxLag <= now
      PROVE  r.allowed
  <2> SUFFICES ASSUME ~r.allowed
               PROVE  FALSE
    OBVIOUS
  <2>1. PICK lag \in 0..MaxLag : Request(lag)
    BY <1>1 DEF Next, Tick
  <2>2. r.run = now /\ log' \subseteq log \cup {r}
    BY <1>1, <2>1 DEF Request
  <2>3. Earlier(r)' = {}
    <3> SUFFICES ASSUME NEW q \in Earlier(r)'
                 PROVE  FALSE
      OBVIOUS
    <3>1. q \in log' /\ q.id < r.id /\ r.run < q.run + Window + MaxLag
      BY DEF Earlier
    <3>2. r.id \in Nat /\ q \in Answer
      BY <1>1, <3>1 DEF WindowInv, WindowTypeOK, Answer
    <3>3. q # r
      BY <3>1, <3>2
    <3>4. now \in Nat /\ q.run \in Nat
      BY <1>1, <3>2 DEF WindowInv, WindowTypeOK, Answer
    <3> QED
      BY <1>1, <2>2, <3>1, <3>3, <3>4
  <2>4. Cardinality(Earlier(r)') >= Limit
    BY <1>1 DEF RefusalHasCause, Earlier
  <2> QED
    BY <2>3, <2>4, FS_EmptySet
<1>2. WindowInv /\ WindowInv' /\ RefusalHasCause' /\ [Next]_vars
         => [\A r \in log' \ log :
                (\A q \in log : q.run + Window + MaxLag <= now) => r.allowed]_vars
  BY <1>1 DEF vars
<1> QED
  BY <1>2, WindowInvariant, RefusalsAreDue, PTL DEF Spec, QuietClientIsServed
=============================================================================

-------------------------- MODULE GeoSearchProofs ---------------------------
(***************************************************************************)
(* Proofs about GeoSearch, for any fixtures, any number of venues, servers *)
(* and seedings, and any limit and overfetch.                              *)
(***************************************************************************)
EXTENDS GeoSearch, FiniteSetTheorems, TLAPS

\* Coordinates of some venues.
Located(f) == DOMAIN f \subseteq Venue /\ \A v \in DOMAIN f : f[v] \in Nat

\* The types, and what the seed relies on when it creates events: their venues.
GeoInv ==
    /\ Located(place) /\ Located(index) /\ Located(hits) /\ Located(inRange)
    /\ DOMAIN todo = Syncer /\ \A p \in Syncer : Located(todo[p])
    /\ DOMAIN home \subseteq Event
    /\ \A e \in DOMAIN home : home[e] \in DOMAIN place \cup {NoVenue}
    /\ over \subseteq DOMAIN home
    /\ seeding \in {"idle", "venues", "create", "events", "demo", "sync"}
    /\ seeding \in {"events", "demo", "sync"} => DOMAIN place = Venue
    /\ seeds \in 0..MaxSeeds
    /\ pc \in {"idle", "events", "venues", "answered"}

\* The search: its hits are the nearest of the index, as many as COUNT admits; what
\* stayed open is open now, so once it is among the rows it can be answered; and an
\* event that the answer passes over has a hit, and is farther away, or has none.
SearchInv ==
    /\ DOMAIN hits \subseteq DOMAIN inRange /\ \A v \in DOMAIN hits : hits[v] = inRange[v]
    /\ \A x \in DOMAIN hits, y \in DOMAIN inRange \ DOMAIN hits : inRange[x] <= inRange[y]
    /\ Cardinality(DOMAIN hits) = Lesser(Count, Cardinality(DOMAIN inRange))
    /\ steady \subseteq Homes(Open)
    /\ \A m \in steady : m[2] \in DOMAIN inRange
    /\ rows \subseteq Event \X DOMAIN hits
    /\ answer \subseteq rows
    /\ pc \in {"events", "venues"} => answer = {}
    /\ pc = "venues" => \A m \in steady : m[2] \in DOMAIN hits => m \in rows
    /\ pc = "answered" => \A m \in steady \ answer : m[2] \in DOMAIN hits =>
          /\ Cardinality(answer) = Limit
          /\ \A r \in answer : hits[r[2]] <= hits[m[2]]

\* What is open is an event at a venue of the table.
LEMMA OpenAtVenue ==
    ASSUME GeoInv, NEW r \in Homes(Open)
    PROVE  r \in Event \X Venue /\ r[2] \in DOMAIN place
<1>1. PICK e \in Open : r = <<e, home[e]>>
  BY DEF Homes
<1>2. e \in Event /\ home[e] \in DOMAIN place /\ home[e] \in Venue
  BY <1>1 DEF Open, GeoInv, Located
<1> QED
  BY <1>1, <1>2

\* The invariant is about these types.
LEMMA GeoTypes ==
    ASSUME GeoInv, SearchInv
    PROVE  GeoTypeOK
<1>1. rows \subseteq Event \X Venue /\ answer \subseteq Event \X Venue
  BY DEF GeoInv, SearchInv, Located
<1>2. steady \subseteq Event \X Venue
  BY OpenAtVenue DEF SearchInv
<1> QED
  BY <1>1, <1>2 DEF GeoInv, GeoTypeOK, Located

\* The tables, the syncs and the search keep their types.
LEMMA GeoInvStep ==
    ASSUME GeoInv, [Next]_vars
    PROVE  GeoInv'
<1> USE GeoAssumption DEF GeoInv, Located, tableVars, syncVars, searchVars, Event, SeedGoto
<1>1. CASE \E e \in Event : EventEnds(e)
  BY <1>1 DEF EventEnds
<1>2. CASE SeedDeletesEvents
  BY <1>2 DEF SeedDeletesEvents
<1>3. CASE SeedDeletesVenues
  BY <1>3 DEF SeedDeletesVenues, Nothing
<1>4. CASE SeedCreatesVenues
  <2>1. place' \in [Venue -> Nat] /\ UNCHANGED <<home, over, seeds, index, todo, hits, inRange, pc>>
        /\ seeding' = "events"
    BY <1>4 DEF SeedCreatesVenues
  <2> QED
    BY <2>1
<1>5. CASE SeedCreatesEvents
  BY <1>5 DEF SeedCreatesEvents
<1>6. CASE SeedUpsertsDemo
  BY <1>6 DEF SeedUpsertsDemo
<1>7. CASE SeedDies
  BY <1>7 DEF SeedDies
<1>8. ASSUME NEW p \in Syncer, SyncReads(p)
      PROVE  GeoInv'
  BY <1>8 DEF SyncReads
<1>9. ASSUME NEW p \in Syncer, NEW v \in Venue, SyncWrites(p, v)
      PROVE  GeoInv'
  BY <1>9 DEF SyncWrites
<1>10. ASSUME NEW p \in Syncer, SyncDies(p)
       PROVE  GeoInv'
  BY <1>10 DEF SyncDies, Nothing
<1>11. CASE SearchIndex
  <2> DEFINE C == {v \in DOMAIN index : index[v] <= Radius}
  <2>1. PICK S \in SUBSET C : hits' = [v \in S |-> index[v]]
    BY <1>11 DEF SearchIndex, GeoHits, Nearest
  <2>2. inRange' = [v \in C |-> index[v]] /\ pc' \in {"answered", "events"}
        /\ UNCHANGED <<tableVars, syncVars>>
    BY <1>11 DEF SearchIndex
  <2> QED
    BY <2>1, <2>2
<1>12. CASE SearchEvents \/ SearchVenues
  BY <1>12 DEF SearchEvents, SearchVenues
<1>13. CASE UNCHANGED vars
  BY <1>13 DEF vars
<1> QED
  BY <1>1, <1>2, <1>3, <1>4, <1>5, <1>6, <1>7, <1>8, <1>9, <1>10, <1>11, <1>12, <1>13
  DEF Next, TableStep, SyncStep, SearchStep

-----------------------------------------------------------------------------
\* GEOSEARCH starts a search afresh.
LEMMA SearchIndexStarts ==
    ASSUME GeoInv, SearchInv, SearchIndex
    PROVE  SearchInv'
<1> DEFINE C == {v \in DOMAIN index : index[v] <= Radius}
           Dist(v) == index[v]
<1>1. PICK S \in GeoHits(C) : hits' = [v \in S |-> index[v]]
  BY DEF SearchIndex
<1>2. /\ S \in SUBSET C
      /\ Cardinality(S) = Lesser(Count, Cardinality(C))
      /\ \A x \in S, y \in C \ S : index[x] <= index[y]
  BY <1>1 DEF GeoHits, Nearest
<1>3. /\ inRange' = [v \in C |-> index[v]]
      /\ steady' = {r \in Homes(Open) : r[2] \in C}
      /\ rows' = {} /\ answer' = {}
      /\ UNCHANGED <<home, over>>
      /\ pc' = IF hits' = Nothing THEN "answered" ELSE "events"
  BY DEF SearchIndex, tableVars
<1>4. DOMAIN hits' = S /\ DOMAIN inRange' = C
  BY <1>1, <1>3
<1>5. \A v \in S : hits'[v] = inRange'[v] /\ inRange'[v] = index[v]
  BY <1>1, <1>2, <1>3
<1>6. \A y \in C : inRange'[y] = index[y]
  BY <1>3
<1>7. steady' \subseteq Homes(Open)'
  BY <1>3 DEF Homes, Open
<1>8. pc' = "answered" => DOMAIN hits' = {}
  BY <1>3 DEF Nothing
<1>9. Cardinality(DOMAIN hits') = Lesser(Count, Cardinality(DOMAIN inRange'))
  BY <1>2, <1>4
<1>10. Lesser(Count, Cardinality(DOMAIN inRange))' = Lesser(Count, Cardinality(DOMAIN inRange'))
  BY DEF Lesser, Count
<1>11. pc' # "venues"
  BY <1>3
<1> HIDE DEF C
<1> QED
  BY <1>2, <1>3, <1>4, <1>5, <1>6, <1>7, <1>8, <1>9, <1>10, <1>11 DEF SearchInv

\* The rows hold everything that stayed open and has a hit.
LEMMA SearchEventsKeeps ==
    ASSUME GeoInv, SearchInv, SearchEvents
    PROVE  SearchInv'
<1>1. /\ pc = "events" /\ pc' = "venues"
      /\ rows' = {r \in Homes(Open) : r[2] \in DOMAIN hits}
      /\ UNCHANGED <<home, over, hits, answer, inRange, steady>>
  BY DEF SearchEvents, tableVars
<1>2. answer' = {}
  BY <1>1 DEF SearchInv
<1>3. rows' \subseteq Event \X DOMAIN hits
  <2> SUFFICES ASSUME NEW r \in Homes(Open), r[2] \in DOMAIN hits
               PROVE  r \in Event \X DOMAIN hits
    BY <1>1
  <2> QED
    BY OpenAtVenue
<1>4. steady' \subseteq Homes(Open)'
  BY <1>1 DEF SearchInv, Homes, Open
<1>5. \A m \in steady' : m[2] \in DOMAIN hits' => m \in rows'
  BY <1>1 DEF SearchInv
<1>6. Cardinality(DOMAIN hits)' = Lesser(Count, Cardinality(DOMAIN inRange))'
  BY <1>1 DEF SearchInv, Lesser, Count
<1> QED
  BY <1>1, <1>2, <1>3, <1>4, <1>5, <1>6 DEF SearchInv

\* All that stayed open and has a hit competes for the answer.
LEMMA SearchVenuesAnswers ==
    ASSUME GeoInv, SearchInv, SearchVenues
    PROVE  SearchInv'
<1> DEFINE K == {r \in rows : r[2] \in DOMAIN place}
           Dist(r) == hits[r[2]]
<1>1. /\ pc = "venues" /\ pc' = "answered"
      /\ answer' \in Nearest(Limit, K, Dist)
      /\ UNCHANGED <<home, over, hits, rows, inRange, steady>>
  BY DEF SearchVenues, tableVars
<1>2. /\ answer' \in SUBSET K
      /\ Cardinality(answer') = Lesser(Limit, Cardinality(K))
      /\ \A x \in answer', y \in K \ answer' : hits[x[2]] <= hits[y[2]]
  BY <1>1 DEF Nearest
<1>3. IsFiniteSet(K)
  <2>1. IsFiniteSet(Event)
    BY GeoAssumption, FS_AddElement DEF Event
  <2>2. IsFiniteSet(Event \X Venue)
    BY <2>1, GeoAssumption, FS_Product
  <2>3. K \subseteq Event \X Venue
    BY DEF SearchInv, GeoInv, Located
  <2> HIDE DEF K
  <2> QED
    BY <2>2, <2>3, FS_Subset
<1>4. ASSUME NEW m \in steady \ answer', m[2] \in DOMAIN hits
      PROVE  /\ Cardinality(answer') = Limit
             /\ \A r \in answer' : hits[r[2]] <= hits[m[2]]
  <2>1. m \in K
    <3>1. m \in rows /\ m \in Homes(Open)
      BY <1>1, <1>4 DEF SearchInv
    <3> QED
      BY <3>1, OpenAtVenue
  <2> HIDE DEF K
  <2>2. Cardinality(answer') # Cardinality(K)
    BY <1>2, <1>3, <1>4, <2>1, FS_Subset
  <2>3. Cardinality(answer') = Limit
    BY <1>2, <2>2 DEF Lesser
  <2> QED
    BY <1>2, <1>4, <2>1, <2>3
<1>5. answer' \subseteq rows'
  BY <1>1, <1>2
<1>6. steady' \subseteq Homes(Open)'
  BY <1>1 DEF SearchInv, Homes, Open
<1>7. Cardinality(DOMAIN hits)' = Lesser(Count, Cardinality(DOMAIN inRange))'
  BY <1>1 DEF SearchInv, Lesser, Count
<1> HIDE DEF K
<1> QED
  BY <1>1, <1>4, <1>5, <1>6, <1>7 DEF SearchInv

\* A step of the tables only ends what was steady.
LEMMA OthersKeepSearch ==
    ASSUME SearchInv, UNCHANGED searchVars,
           \/ steady' = steady \cap Homes(Open)'
           \/ UNCHANGED <<home, over, steady>>
    PROVE  SearchInv'
<1>1. UNCHANGED <<pc, hits, rows, answer, inRange>>
  BY DEF searchVars
<1>2. steady' \subseteq steady /\ steady' \subseteq Homes(Open)'
  BY DEF SearchInv, Homes, Open
<1>3. Cardinality(DOMAIN hits)' = Lesser(Count, Cardinality(DOMAIN inRange))'
  BY <1>1 DEF SearchInv, Lesser, Count
<1> QED
  BY <1>1, <1>2, <1>3 DEF SearchInv

LEMMA SearchInvStep ==
    ASSUME GeoInv, SearchInv, [Next]_vars
    PROVE  SearchInv'
<1>1. CASE TableStep /\ Track
  <2>1. UNCHANGED searchVars
    BY <1>1 DEF TableStep, EventEnds, SeedDeletesEvents, SeedDeletesVenues, SeedCreatesVenues,
                SeedCreatesEvents, SeedUpsertsDemo, SeedDies
  <2> QED
    BY <1>1, <2>1, OthersKeepSearch DEF Track
<1>2. ASSUME NEW p \in Syncer, SyncStep(p)
      PROVE  SearchInv'
  <2>1. UNCHANGED <<searchVars, home, over, steady>>
    BY <1>2 DEF SyncStep, SyncReads, SyncWrites, SyncDies, tableVars
  <2> QED
    BY <2>1, OthersKeepSearch
<1>3. CASE SearchStep
  BY <1>3, SearchIndexStarts, SearchEventsKeeps, SearchVenuesAnswers DEF SearchStep
<1>4. CASE UNCHANGED vars
  BY <1>4, OthersKeepSearch DEF vars, tableVars
<1> QED
  BY <1>1, <1>2, <1>3, <1>4 DEF Next

\* Both invariants hold of every reachable state.
LEMMA GeoInvariant == Spec => [](GeoInv /\ SearchInv)
<1>1. Init => GeoInv
  <2> SUFFICES ASSUME Init PROVE GeoInv
    OBVIOUS
  <2>1. place \in [Venue -> Nat] /\ index = place
    BY GeoAssumption DEF Init
  <2> QED
    BY GeoAssumption, <2>1 DEF Init, GeoInv, Located, Nothing, Event
<1>2. Init => SearchInv
  <2> SUFFICES ASSUME Init PROVE SearchInv
    OBVIOUS
  <2>1. DOMAIN hits = {} /\ DOMAIN inRange = {} /\ rows = {} /\ answer = {} /\ steady = {}
        /\ pc = "idle"
    BY DEF Init, Nothing
  <2>2. Count \in Nat
    BY GeoAssumption DEF Count, Lesser
  <2>3. Cardinality(DOMAIN hits) = Lesser(Count, Cardinality(DOMAIN inRange))
    BY <2>1, <2>2, FS_EmptySet DEF Lesser
  <2> QED
    BY <2>1, <2>3 DEF SearchInv
<1>3. GeoInv /\ SearchInv /\ [Next]_vars => (GeoInv /\ SearchInv)'
  BY GeoInvStep, SearchInvStep
<1> QED
  BY <1>1, <1>2, <1>3, PTL DEF Spec

-----------------------------------------------------------------------------
\* Type correctness; among others an event that has a venue has one that exists,
\* because deleting a venue sets the venueId of its events to null.
THEOREM GeoTypeCorrect == Spec => []GeoTypeOK
BY GeoInvariant, GeoTypes, PTL

\* The nearest come first, for every fixture, limit and overfetch and whatever is
\* seeded, indexed or ends between the three reads of a search.
THEOREM NearestAreFirst == Spec => []NearestFirst
<1>1. GeoInv /\ SearchInv => NearestFirst
  <2> SUFFICES ASSUME GeoInv, SearchInv, NEW m \in Missed, NEW r \in answer
               PROVE  inRange[r[2]] <= inRange[m[2]]
    BY DEF NearestFirst
  <2>1. pc = "answered" /\ m \in steady \ answer /\ m[2] \in DOMAIN inRange
    BY DEF Missed, SearchInv
  <2>2. r[2] \in DOMAIN hits /\ hits[r[2]] = inRange[r[2]]
    BY DEF SearchInv
  <2>3. CASE m[2] \in DOMAIN hits
    BY <2>1, <2>2, <2>3 DEF SearchInv
  <2>4. CASE m[2] \notin DOMAIN hits
    BY <2>1, <2>2, <2>4 DEF SearchInv
  <2> QED
    BY <2>3, <2>4
<1> QED
  BY <1>1, GeoInvariant, PTL

\* A short answer is complete, but for events with COUNT other venues as near.
THEOREM ShortAnswersAreComplete == Spec => []ShortAnswerIsComplete
<1>1. GeoInv /\ SearchInv => ShortAnswerIsComplete
  <2> SUFFICES ASSUME GeoInv, SearchInv, Cardinality(answer) < Limit, NEW m \in Missed
               PROVE  Cardinality({v \in DOMAIN inRange \ {m[2]} :
                                        inRange[v] <= inRange[m[2]]}) >= Count
    BY DEF ShortAnswerIsComplete
  <2> DEFINE nearer == {v \in DOMAIN inRange \ {m[2]} : inRange[v] <= inRange[m[2]]}
  <2>1. pc = "answered" /\ m \in steady \ answer /\ m[2] \in DOMAIN inRange
    BY DEF Missed, SearchInv
  <2>2. Limit \in Nat /\ Count \in Nat
    BY GeoAssumption DEF Count, Lesser
  <2>3. m[2] \notin DOMAIN hits
    BY <2>1, <2>2 DEF SearchInv
  <2>4. DOMAIN hits \subseteq nearer
    BY <2>1, <2>3 DEF SearchInv
  <2>5. IsFiniteSet(DOMAIN inRange) /\ DOMAIN hits \in SUBSET DOMAIN inRange
    BY GeoAssumption, FS_Subset DEF GeoInv, Located, SearchInv
  <2>6. Cardinality(DOMAIN hits) = Count
    <3>1. Cardinality(DOMAIN hits) # Cardinality(DOMAIN inRange)
      BY <2>1, <2>3, <2>5, FS_Subset
    <3> QED
      BY <3>1 DEF SearchInv, Lesser
  <2>7. IsFiniteSet(nearer)
    BY <2>5, FS_Subset
  <2> HIDE DEF nearer
  <2>8. Cardinality(DOMAIN hits) <= Cardinality(nearer) /\ Cardinality(nearer) \in Nat
    BY <2>4, <2>7, FS_Subset, FS_CardinalityType
  <2> QED
    BY <2>2, <2>6, <2>8 DEF nearer
<1> QED
  BY <1>1, GeoInvariant, PTL
=============================================================================

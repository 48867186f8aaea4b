------------------------------ MODULE GeoSearch ------------------------------
(***************************************************************************)
(* The search for nearby events (services/geo.service.ts): the GEO index   *)
(* in Redis, the processes that fill it from the venues table when they    *)
(* start, the seed script (prisma/seed.ts) that replaces venues and events *)
(* meanwhile, and one search that reads Redis once and PostgreSQL twice.   *)
(*                                                                         *)
(* All searches ask from one point, so a coordinate is its distance from   *)
(* there.  The seed gives each venue an event, named by the venue here, and*)
(* the demo event to the first venue.                                      *)
(***************************************************************************)
EXTENDS Naturals, FiniteSets

CONSTANTS Venue, Primary,   \* the venues of the fixture; the first of them
          Demo, NoVenue,    \* the demo event; a venueId that is null
          Server,           \* application processes
          Seeder,           \* the seed script, which fills the index as well
          Fixtures,         \* the coordinates different releases seed
          Radius, Limit,    \* of the search
          Overfetch,        \* venues asked for per event wanted (4)
          MaxCount,         \* MAX_SEARCH_LIMIT
          MaxSeeds          \* bound on the runs of the seed script

ASSUME GeoAssumption ==
    /\ IsFiniteSet(Venue)
    /\ Primary \in Venue /\ NoVenue \notin Venue /\ Demo \notin Venue
    /\ Seeder \notin Server
    /\ Fixtures \subseteq [Venue -> Nat]
    /\ {Radius, Limit, Overfetch, MaxCount} \subseteq Nat \ {0}
    /\ MaxSeeds \in Nat

Event  == Venue \cup {Demo}
Syncer == Server \cup {Seeder}

VARIABLES
    place,     \* the venues table: coordinates of the venues that exist
    home,      \* the events table: venueId of the events that exist
    over,      \* events that are past or inactive
    seeding,   \* where the seed script stands
    seeds,     \* its runs so far
    index,     \* the GEO set: coordinates of its members
    todo,      \* todo[p]: what the sync of p has read and not written yet
    pc,        \* where the search stands
    hits,      \* the venues GEOSEARCH answered, with their distances
    rows,      \* the events found in the table, with their venueId
    answer,    \* those the search returns
    inRange,   \* history: every indexed venue within the radius, at GEOSEARCH
    steady     \* history: the events of these venues (with their venueId) that
               \* could be returned ever since

tableVars  == <<place, home, over, seeding, seeds>>
syncVars   == <<index, todo>>
searchVars == <<pc, hits, rows, answer, inRange>>
vars == <<tableVars, syncVars, searchVars, steady>>

GeoTypeOK ==
    /\ \A f \in {place, index, hits, inRange} \cup {todo[p] : p \in Syncer} :
          DOMAIN f \subseteq Venue /\ \A v \in DOMAIN f : f[v] \in Nat
    /\ DOMAIN todo = Syncer
    /\ DOMAIN home \subseteq Event
    /\ \A e \in DOMAIN home : home[e] \in DOMAIN place \cup {NoVenue}
    /\ over \subseteq DOMAIN home
    /\ {rows, answer, steady} \subseteq SUBSET (Event \X Venue)
    /\ seeding \in {"idle", "venues", "create", "events", "demo", "sync"}
    /\ seeds \in 0..MaxSeeds
    /\ pc \in {"idle", "events", "venues", "answered"}

Nothing == [v \in {} |-> 0]

\* An earlier release was seeded and indexed.
Init ==
    /\ place \in Fixtures
    /\ home = [e \in Event |-> IF e = Demo THEN Primary ELSE e]
    /\ over = {}
    /\ seeding = "idle" /\ seeds = 0
    /\ index = place
    /\ todo = [p \in Syncer |-> Nothing]
    /\ pc = "idle"
    /\ hits = Nothing /\ inRange = Nothing
    /\ rows = {} /\ answer = {} /\ steady = {}

\* The events a search may return: active, in the future, at a known venue.
Open == {e \in DOMAIN home \ over : home[e] # NoVenue}
Homes(E) == {<<e, home[e]>> : e \in E}

\* (history) After each step of the tables: what stayed open, at the same venue.
Track == steady' = steady \cap Homes(Open)'

-----------------------------------------------------------------------------
(* The tables.                                                             *)

EventEnds(e) ==
    /\ e \in DOMAIN home \ over
    /\ over' = over \cup {e}
    /\ UNCHANGED <<place, home, seeding, seeds, syncVars, searchVars>>

SeedGoto(from, to) == seeding = from /\ seeding' = to

SeedDeletesEvents ==
    /\ seeds < MaxSeeds
    /\ seeds' = seeds + 1
    /\ SeedGoto("idle", "venues")
    /\ home' = [e \in DOMAIN home \cap {Demo} |-> home[e]]
    /\ over' = over \cap {Demo}
    /\ UNCHANGED <<place, syncVars, searchVars>>

\* (A faulty variant: the relation has no onDelete rule.)
SeedDeletesVenuesOnly ==
    /\ SeedGoto("venues", "create")
    /\ place' = Nothing
    /\ UNCHANGED <<home, over, seeds, syncVars, searchVars>>

\* Venue.events is onDelete: SetNull; the index keeps its members.
SeedDeletesVenues ==
    /\ SeedGoto("venues", "create")
    /\ place' = Nothing
    /\ home' = [e \in DOMAIN home |-> NoVenue]
    /\ UNCHANGED <<over, seeds, syncVars, searchVars>>

SeedCreatesVenues ==
    /\ SeedGoto("create", "events")
    /\ place' \in Fixtures
    /\ UNCHANGED <<home, over, seeds, syncVars, searchVars>>

SeedCreatesEvents ==
    /\ SeedGoto("events", "demo")
    /\ home' = [e \in DOMAIN home \cup Venue |-> IF e = Demo THEN home[e] ELSE e]
    /\ UNCHANGED <<place, over, seeds, syncVars, searchVars>>

SeedUpsertsDemo ==
    /\ SeedGoto("demo", "sync")
    /\ home' = [e \in DOMAIN home \cup {Demo} |-> IF e = Demo THEN Primary ELSE home[e]]
    /\ over' = over \ {Demo}
    /\ UNCHANGED <<place, seeds, syncVars, searchVars>>

\* The script dies between two statements; it can be run again.
SeedDies ==
    /\ seeding # "idle"
    /\ seeding' = "idle"
    /\ UNCHANGED <<place, home, over, seeds, syncVars, searchVars>>

-----------------------------------------------------------------------------
(* syncVenuesToGeoIndex.                                                   *)

\* findMany, when a server starts or at the end of the seed.
SyncReads(p) ==
    /\ todo[p] = Nothing
    /\ todo' = [todo EXCEPT ![p] = place]
    /\ IF p = Seeder THEN SeedGoto("sync", "idle") ELSE UNCHANGED seeding
    /\ UNCHANGED <<place, home, over, seeds, index, searchVars, steady>>

\* One GEOADD of the pipeline, which is no transaction.
SyncWrites(p, v) ==
    /\ v \in DOMAIN todo[p]
    /\ index' = [w \in DOMAIN index \cup {v} |-> IF w = v THEN todo[p][v] ELSE index[w]]
    /\ todo' = [todo EXCEPT ![p] = [w \in DOMAIN @ \ {v} |-> @[w]]]
    /\ UNCHANGED <<tableVars, searchVars, steady>>

\* The process dies with the rest of the pipeline unsent.
SyncDies(p) ==
    /\ todo[p] # Nothing
    /\ todo' = [todo EXCEPT ![p] = Nothing]
    /\ UNCHANGED <<tableVars, index, searchVars, steady>>

-----------------------------------------------------------------------------
(* searchNearbyEvents.                                                     *)

Lesser(a, b) == IF a < b THEN a ELSE b

\* The k nearest of the candidates C: which of several at one distance is open.
Nearest(k, C, dist(_)) ==
    {S \in SUBSET C :
        /\ Cardinality(S) = Lesser(k, Cardinality(C))
        /\ \A x \in S, y \in C \ S : dist(x) <= dist(y)}

Count == Lesser(Overfetch * Limit, MaxCount)

\* (Faulty variants: no overfetch, which leaves the filters nothing to fall back
\* on; COUNT n ANY, the first ones Redis comes across.)
GeoHitsLimit(C) == LET Dist(v) == index[v] IN Nearest(Limit, C, Dist)

GeoHitsAny(C) == {S \in SUBSET C : Cardinality(S) = Lesser(Count, Cardinality(C))}

GeoHits(C) == LET Dist(v) == index[v] IN Nearest(Count, C, Dist)

\* GEOSEARCH ... ASC COUNT; without a hit the answer is empty.
SearchIndex ==
    LET C == {v \in DOMAIN index : index[v] <= Radius} IN
    /\ pc \in {"idle", "answered"}
    /\ \E S \in GeoHits(C) : hits' = [v \in S |-> index[v]]
    /\ inRange' = [v \in C |-> index[v]]
    /\ steady' = {r \in Homes(Open) : r[2] \in C}
    /\ pc' = IF hits' = Nothing THEN "answered" ELSE "events"
    /\ rows' = {} /\ answer' = {}
    /\ UNCHANGED <<tableVars, syncVars>>

\* event.findMany, its first query.
SearchEvents ==
    /\ pc = "events"
    /\ rows' = {r \in Homes(Open) : r[2] \in DOMAIN hits}
    /\ pc' = "venues"
    /\ UNCHANGED <<tableVars, syncVars, hits, answer, inRange, steady>>

\* Its second query, for the included venues: one that was deleted meanwhile is
\* null and filtered out; then sort and slice.
SearchVenues ==
    LET Dist(r) == hits[r[2]] IN
    /\ pc = "venues"
    /\ answer' \in Nearest(Limit, {r \in rows : r[2] \in DOMAIN place}, Dist)
    /\ pc' = "answered"
    /\ UNCHANGED <<tableVars, syncVars, hits, rows, inRange, steady>>

-----------------------------------------------------------------------------
TableStep ==
    \/ \E e \in Event : EventEnds(e)
    \/ SeedDeletesEvents
    \/ SeedDeletesVenues
    \/ SeedCreatesVenues
    \/ SeedCreatesEvents
    \/ SeedUpsertsDemo
    \/ SeedDies

SyncStep(p) ==
    \/ SyncReads(p)
    \/ \E v \in Venue : SyncWrites(p, v)
    \/ SyncDies(p)

SearchStep == SearchIndex \/ SearchEvents \/ SearchVenues

Next ==
    \/ TableStep /\ Track
    \/ \E p \in Syncer : SyncStep(p)
    \/ SearchStep

Spec == Init /\ [][Next]_vars

-----------------------------------------------------------------------------
Missed == IF pc = "answered" THEN steady \ answer ELSE {}

\* The nearest come first: no event that could be returned all through the search
\* is passed over for one that the index puts farther away, whatever is seeded,
\* indexed or ends meanwhile and although GEOSEARCH is cut off at COUNT.
NearestFirst ==
    \A m \in Missed, r \in answer : inRange[r[2]] <= inRange[m[2]]

\* A search that returns fewer events than asked for is complete: it passes over an
\* event only if COUNT other venues of the index are as near, ghosts included.
ShortAnswerIsComplete ==
    Cardinality(answer) < Limit =>
        \A m \in Missed :
            Cardinality({v \in DOMAIN inRange \ {m[2]} : inRange[v] <= inRange[m[2]]}) >= Count
=============================================================================

-------------------------- MODULE SeatingMapCache ---------------------------
(***************************************************************************)
(* The cache-aside seating map of services/stampede.service.ts: one event, *)
(* its map in Redis under a 60 s TTL, a SET NX PX mutex that elects the    *)
(* reader who loads it from PostgreSQL, and readers interleaved at every   *)
(* await of getSeatingMapWithMetrics.  A map is abstracted to the version  *)
(* of the database it was read from.                                       *)
(***************************************************************************)
EXTENDS Naturals

CONSTANTS Reader,        \* one call of getSeatingMapWithMetrics each; the UUID
                         \* token a reader locks with is named by the reader
          NoMap,         \* no such cache key, or nothing read yet
          NoOwner,       \* no such mutex key
          WaitAttempts,  \* polls of a reader that lost the election (8)
          MaxVersion,    \* bound on changes of the seats in the database
          MaxLapses,     \* bound on cache entries expired, evicted or cleared
          MaxOverruns,   \* bound on mutexes that expire before their owner has stored
          MaxFaults      \* bound on crashed readers and failed commands

ASSUME CacheAssumption ==
    /\ NoMap \notin Nat
    /\ NoOwner \notin Reader
    /\ WaitAttempts \in Nat \ {0}
    /\ {MaxVersion, MaxLapses, MaxOverruns, MaxFaults} \subseteq Nat

VARIABLES
    db,        \* version of the seating map in PostgreSQL
    cache,     \* version at event:seating-map:<id>, or NoMap
    mutex,     \* owner of lock:event:seating-map:<id>, or NoOwner
    pc,        \* pc[r]: the await at which reader r stands
    map,       \* map[r]: the map r has in hand, and returns when it is done
    tries,     \* tries[r]: polls r has made while waiting
    loads,     \* database loads so far
    newest,    \* the newest version that was ever cached (history)
    lapses, overruns, faults   \* what the environment did so far

vars == <<db, cache, mutex, pc, map, tries, loads, newest, lapses, overruns, faults>>

Version  == 0..MaxVersion
ReaderPC == {"get", "lock", "recheck", "load", "store", "unlock", "wait", "done", "failed"}
Ended    == {"done", "failed"}
Electing == {"recheck", "load", "store"}   \* elected, and not finished hydrating

CacheTypeOK ==
    /\ db \in Version
    /\ cache \in Version \cup {NoMap}
    /\ mutex \in Reader \cup {NoOwner}
    /\ pc \in [Reader -> ReaderPC]
    /\ map \in [Reader -> Version \cup {NoMap}]
    /\ tries \in [Reader -> 0..WaitAttempts]
    /\ loads \in Nat
    /\ newest \in Version
    /\ lapses \in 0..MaxLapses
    /\ overruns \in 0..MaxOverruns
    /\ faults \in 0..MaxFaults

Init ==
    /\ db = 0
    /\ cache = NoMap
    /\ mutex = NoOwner
    /\ pc = [r \in Reader |-> "get"]
    /\ map = [r \in Reader |-> NoMap]
    /\ tries = [r \in Reader |-> 0]
    /\ loads = 0
    /\ newest = 0
    /\ lapses = 0
    /\ overruns = 0
    /\ faults = 0

environment == <<lapses, overruns, faults>>

Goto(r, next) == pc' = [pc EXCEPT ![r] = next]

\* readCachedMap: on a hit r takes the cached map and goes on at `hit`.
ReadCache(r, hit, miss) ==
    /\ map' = [map EXCEPT ![r] = IF cache = NoMap THEN @ ELSE cache]
    /\ Goto(r, IF cache = NoMap THEN miss ELSE hit)

-----------------------------------------------------------------------------
GetMap(r) ==
    /\ pc[r] = "get"
    /\ ReadCache(r, "done", "lock")
    /\ UNCHANGED <<db, cache, mutex, tries, loads, newest, environment>>

Fault == faults < MaxFaults /\ faults' = faults + 1

\* (A faulty variant: SET key token PX 5000, without the NX.)
AcquireMutexAlways(r) ==
    /\ pc[r] = "lock"
    /\ mutex' = r
    /\ Goto(r, "recheck")
    /\ UNCHANGED <<db, cache, map, tries, loads, newest, environment>>

\* acquireMutex: SET key token PX 5000 NX.  When its reply is lost ioredis sends
\* it again, the key is there, and r waits for an owner that does not exist.
AcquireMutex(r) ==
    /\ pc[r] = "lock"
    /\ \/ /\ mutex = NoOwner
          /\ mutex' = r
          /\ Goto(r, "recheck")
          /\ UNCHANGED faults
       \/ /\ mutex = NoOwner
          /\ mutex' = r
          /\ Goto(r, "wait")
          /\ Fault
       \/ /\ mutex # NoOwner
          /\ Goto(r, "wait")
          /\ UNCHANGED <<mutex, faults>>
    /\ UNCHANGED <<db, cache, map, tries, loads, newest, lapses, overruns>>

\* (A faulty variant: the winner loads without looking again.)
RecheckNever(r) ==
    /\ pc[r] = "recheck"
    /\ Goto(r, "load")
    /\ UNCHANGED <<db, cache, mutex, map, tries, loads, newest, environment>>

\* The winner looks again: the map may have been cached since it missed.
Recheck(r) ==
    /\ pc[r] = "recheck"
    /\ ReadCache(r, "unlock", "load")
    /\ UNCHANGED <<db, cache, mutex, tries, loads, newest, environment>>

LoadFromDatabase(r) ==
    /\ pc[r] = "load"
    /\ map' = [map EXCEPT ![r] = db]
    /\ loads' = loads + 1
    /\ Goto(r, "store")
    /\ UNCHANGED <<db, cache, mutex, tries, newest, environment>>

\* SET key map EX 60, whatever is there.
StoreMap(r) ==
    /\ pc[r] = "store"
    /\ cache' = map[r]
    /\ newest' = IF map[r] > newest THEN map[r] ELSE newest
    /\ Goto(r, "unlock")
    /\ UNCHANGED <<db, mutex, map, tries, loads, environment>>

\* (A faulty variant: a plain DEL.)
OwnsAnyMutex(r) == mutex # NoOwner

\* release_mutex.lua compares the token before it deletes the key.
OwnsMutex(r) == mutex = r

\* releaseMutex, in the finally block: after a hit, a store or a failed command.
ReleaseMutex(r) ==
    /\ pc[r] = "unlock"
    /\ mutex' = IF OwnsMutex(r) THEN NoOwner ELSE mutex
    /\ Goto(r, IF map[r] = NoMap THEN "failed" ELSE "done")
    /\ UNCHANGED <<db, cache, map, tries, loads, newest, environment>>

\* (A faulty variant: the loop polls once too often.)
WaitForMapOnceMore(r) ==
    /\ pc[r] = "wait"
    /\ ReadCache(r, "done", IF tries[r] = WaitAttempts THEN "failed" ELSE "wait")
    /\ tries' = [tries EXCEPT ![r] = @ + 1]
    /\ UNCHANGED <<db, cache, mutex, loads, newest, environment>>

\* One turn of the waiting loop: sleep 25 ms, read the cache, give up at last.
WaitForMap(r) ==
    /\ pc[r] = "wait"
    /\ ReadCache(r, "done", IF tries[r] + 1 = WaitAttempts THEN "failed" ELSE "wait")
    /\ tries' = [tries EXCEPT ![r] = @ + 1]
    /\ UNCHANGED <<db, cache, mutex, loads, newest, environment>>

-----------------------------------------------------------------------------
(* The environment.                                                        *)

\* (A faulty variant: the error is logged and the loaded map returned all the same.)
CommandFailsQuietly(r) ==
    /\ pc[r] \in Electing
    /\ Goto(r, "unlock")
    /\ Fault
    /\ UNCHANGED <<db, cache, mutex, map, tries, loads, newest, lapses, overruns>>

\* A command inside the try block fails: the finally block still runs, and the
\* caller gets the error, not the map.
CommandFails(r) ==
    /\ pc[r] \in Electing
    /\ map' = [map EXCEPT ![r] = NoMap]
    /\ Goto(r, "unlock")
    /\ Fault
    /\ UNCHANGED <<db, cache, mutex, tries, loads, newest, lapses, overruns>>

\* The process dies, a command outside the try block fails, or the release does
\* (NOSCRIPT, which releaseMutex does not retry): a mutex it held stays.
ReaderDies(r) ==
    /\ pc[r] \notin Ended
    /\ Goto(r, "failed")
    /\ Fault
    /\ UNCHANGED <<db, cache, mutex, map, tries, loads, newest, lapses, overruns>>

\* A seat of the event is held, sold or freed; nobody tells the cache.
SeatsChange ==
    /\ db < MaxVersion
    /\ db' = db + 1
    /\ UNCHANGED <<cache, mutex, pc, map, tries, loads, newest, environment>>

\* The cache key expires, is evicted, or is cleared by a diagnostics call.
CacheLapses ==
    /\ cache # NoMap
    /\ lapses < MaxLapses
    /\ cache' = NoMap
    /\ lapses' = lapses + 1
    /\ UNCHANGED <<db, mutex, pc, map, tries, loads, newest, overruns, faults>>

\* PX 5000 runs out: behind an owner that is gone, or under one still hydrating.
MutexExpires ==
    /\ mutex # NoOwner
    /\ mutex' = NoOwner
    /\ IF pc[mutex] \in Electing
       THEN overruns < MaxOverruns /\ overruns' = overruns + 1
       ELSE UNCHANGED overruns
    /\ UNCHANGED <<db, cache, pc, map, tries, loads, newest, lapses, faults>>

ReaderStep(r) ==
    \/ GetMap(r)
    \/ AcquireMutex(r)
    \/ Recheck(r)
    \/ LoadFromDatabase(r)
    \/ StoreMap(r)
    \/ ReleaseMutex(r)
    \/ WaitForMap(r)

Next ==
    \/ \E r \in Reader : ReaderStep(r) \/ CommandFails(r) \/ ReaderDies(r)
    \/ SeatsChange
    \/ CacheLapses
    \/ MutexExpires

Spec == Init /\ [][Next]_vars

FairSpec == Spec /\ \A r \in Reader : WF_vars(ReaderStep(r))

-----------------------------------------------------------------------------
Hydrating == {r \in Reader : pc[r] \in Electing}

\* The stampede shield: one reader at a time is elected to load the map, as long
\* as no owner outlives its mutex.
OneHydrator == overruns = 0 => \A r, q \in Hydrating : r = q

\* The shield bounds the database work: one load, one more for each time the
\* cached map goes away, and one for each time a loader fails or is outlived.
LoadsBounded == loads <= 1 + lapses + overruns + faults

\* Cached maps never go back in time: what is cached is the newest map that was
\* ever cached, unless a loader that lost its mutex stores late.
CacheNeverRegresses == overruns = 0 /\ cache # NoMap => cache = newest

\* A reader that finishes late never deletes the mutex of a newer owner.
OwnMutexOnly ==
    [][\A r \in Reader : pc[r] = "unlock" /\ pc'[r] # "unlock" /\ mutex' # mutex => mutex = r]_vars

\* The shield implements the abstract map service: whatever a reader is answered
\* with was read from the database once and offered to the others, and as long as
\* no loader comes late nobody takes a map older than the one published last.
Service == INSTANCE SeatingMapService WITH
               current <- db,
               published <- newest,
               hand <- map,
               answer <- [r \in Reader |-> IF pc[r] = "done" THEN map[r] ELSE NoMap],
               late <- overruns > 0

ImplementsMapService == Service!Spec

\* What one caller has been shown, no later caller sees undone: a reader that takes
\* a map takes one at least as new as every answer given so far, whether it comes
\* from the cache or from the database, unless a loader comes late.
ReadsMoveForward ==
    [][\A r, q \in Reader :
          overruns' = 0 /\ map'[r] \notin {map[r], NoMap} /\ pc[q] = "done"
             => map[q] <= map'[r]]_vars

\* A reader that loses the election gets the map the winner caches.
WaitersAreServed == \A r \in Reader : pc[r] = "wait" ~> pc[r] = "done"
=============================================================================

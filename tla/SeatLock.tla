------------------------------ MODULE SeatLock ------------------------------
(***************************************************************************)
(* The Redis seat locks (services/redis-lock.service.ts and the two Lua    *)
(* scripts it runs).  Each script is one atomic Redis command.  The value  *)
(* of a lock is abstracted to the holdId in it: the status in it is always *)
(* HELD, and the userId only ever travels together with the holdId.        *)
(***************************************************************************)
EXTENDS TicketBase

VARIABLE lock       \* lock[s]: the holdId stored at seat:<event>:<s>, or NoHold

LockTypeOK == lock \in [Seat -> Call \cup {NoHold}]

LockInit == lock = [s \in Seat |-> NoHold]

HoldTaken(s) == lock[s] # NoHold

\* atomic_seat_lock.lua, the branch that answers 1: GET finds no key, SET ... EX.
AcquireHold(s, h) ==
    /\ ~HoldTaken(s)
    /\ lock' = [lock EXCEPT ![s] = h]

\* (A faulty script that only asks whether the seat is held at all.)
OwnsAnything(s, h) == HoldTaken(s)

Owns(s, h) == lock[s] = h

\* release_seat.lua, the branch that deletes: only the exact hold.
ReleaseHold(s, h) ==
    /\ Owns(s, h)
    /\ lock' = [lock EXCEPT ![s] = NoHold]

\* The key goes away without anybody asking: its EX 600 ran out, or Redis
\* evicted it (maxmemory-policy volatile-lru takes keys that carry a TTL).
ExpireHold(s) ==
    /\ HoldTaken(s)
    /\ lock' = [lock EXCEPT ![s] = NoHold]
=============================================================================

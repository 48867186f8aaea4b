--------------------------- MODULE SlidingWindow ----------------------------
(***************************************************************************)
(* The sliding-window rate limiter (middlewares/rateLimiter.ts and the one *)
(* atomic script sliding_window.lua), for one client: the Redis sorted set *)
(* under the client's key, and the requests of the client over time.       *)
(*                                                                         *)
(* A request is stamped by Date.now() of the node it arrives at, and the   *)
(* script runs in Redis later.  The reference clock is that of the fastest *)
(* node: a stamp lags behind it by up to MaxLag, the nodes' clock skew and *)
(* the delay on the way together.  Redis's own clock only measures the     *)
(* duration of EXPIRE.                                                     *)
(***************************************************************************)
EXTENDS Naturals, FiniteSets

CONSTANTS Window,     \* windowMs
          Limit,      \* maxRequests
          Ttl,        \* EXPIRE of the key, windowMs rounded up to seconds
          MaxLag,     \* how far a stamp may lag behind the reference clock
          MaxTime,    \* bound on the clock
          MaxSent     \* bound on the requests of the client

ASSUME WindowAssumption ==
    /\ {Window, Limit, Ttl} \subseteq Nat \ {0}
    /\ {MaxLag, MaxTime, MaxSent} \subseteq Nat
    /\ Window <= Ttl
    /\ MaxLag < Window

VARIABLES
    now,       \* the reference clock
    zset,      \* the members of the sorted set: score and a unique id
    deadline,  \* when the key expires, if zset is not empty
    log        \* history: every request, when its script ran, its answer

vars == <<now, zset, deadline, log>>

Sent   == Cardinality(log)
Member == [id : 0..MaxSent, score : 0..MaxTime]
Answer == [id : 0..MaxSent, run : 0..MaxTime, allowed : BOOLEAN]

WindowTypeOK ==
    /\ now \in 0..MaxTime
    /\ zset \subseteq Member
    /\ deadline \in 0..(MaxTime + Ttl)
    /\ log \subseteq Answer
    /\ zset # {} => now < deadline

Init ==
    /\ now = 0
    /\ zset = {}
    /\ deadline = 0
    /\ log = {}

\* (Faulty variants: nothing is ever removed; a window one tick short.)
ExpiredNever(m, stamp) == FALSE
ExpiredEarly(m, stamp) == m.score + Window <= stamp + 1

\* ZREMRANGEBYSCORE key 0 (now - window): both ends included.
Expired(m, stamp) == m.score + Window <= stamp

\* (A faulty variant: the request itself is not counted.)
AdmitsOneMore(count) == count <= Limit + 1

Admits(count) == count <= Limit

\* sliding_window.lua: prune, ZADD the request whatever the answer will be,
\* EXPIRE, ZCARD.  A refused request counts against the client as well.
Request(lag) ==
    LET stamp == now - lag
        kept  == {m \in zset : ~Expired(m, stamp)}
        added == kept \cup {[id |-> Sent, score |-> stamp]}
    IN  /\ Sent < MaxSent
        /\ lag <= now
        /\ zset' = added
        /\ deadline' = now + Ttl
        /\ log' = log \cup {[id |-> Sent, run |-> now,
                             allowed |-> Admits(Cardinality(added))]}
        /\ UNCHANGED now

\* (A faulty variant: the key has no EXPIRE.)
TickKeepsKey ==
    /\ now < MaxTime
    /\ now' = now + 1
    /\ UNCHANGED <<zset, deadline, log>>

\* Time passes, and Redis drops the key when its deadline has come.
Tick ==
    /\ now < MaxTime
    /\ now' = now + 1
    /\ zset' = IF deadline <= now + 1 THEN {} ELSE zset
    /\ UNCHANGED <<deadline, log>>

Next == Tick \/ \E lag \in 0..MaxLag : Request(lag)

Spec == Init /\ [][Next]_vars

-----------------------------------------------------------------------------
RunWithin(from, length) == {r \in log : from <= r.run /\ r.run < from + length}

\* The limit holds: of the requests that reach Redis in any stretch of Window less
\* MaxLag, at most Limit are let through.  Lagging stamps shrink the window by the
\* lag, never more; an expired key never forgets a request that still counts.
LimitHolds ==
    \A t \in 0..now :
        Cardinality({r \in RunWithin(t, Window - MaxLag) : r.allowed}) <= Limit

\* A 429 always has a cause: at least Limit earlier requests ran within Window plus
\* MaxLag before it.  So a client that stays quiet for the Retry-After it is told
\* (the window, plus the lag) is let through again.
RefusalHasCause ==
    \A r \in log : ~r.allowed =>
        Cardinality({q \in log : q.id < r.id /\ r.run < q.run + Window + MaxLag}) >= Limit
=============================================================================

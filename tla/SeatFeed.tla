------------------------------ MODULE SeatFeed ------------------------------
(***************************************************************************)
(* What a browser may rely on when it listens to seat events, with no      *)
(* connection, room or heartbeat in sight: a published event reaches all   *)
(* the members of its audience at once or none of them, after everything   *)
(* older and at most once.  A browser joins an audience by itself, and may *)
(* be taken out of it at any time.                                         *)
(***************************************************************************)
EXTENDS Naturals, Sequences

CONSTANTS Socket, Event

VARIABLES feed,       \* the events published, oldest first
          members,    \* members[s]: the events s is in the audience of
          got         \* got[s]: the positions of the feed s was sent

vars == <<feed, members, got>>

Init ==
    /\ feed = <<>>
    /\ members = [s \in Socket |-> {}]
    /\ got = [s \in Socket |-> <<>>]

Publish(e) ==
    /\ feed' = Append(feed, e)
    /\ UNCHANGED <<members, got>>

Join(s, e) ==
    /\ members' = [members EXCEPT ![s] = @ \cup {e}]
    /\ UNCHANGED <<feed, got>>

Leave ==
    /\ members' \in [Socket -> SUBSET Event]
    /\ \A s \in Socket : members'[s] \subseteq members[s]
    /\ UNCHANGED <<feed, got>>

Deliver(n) ==
    /\ \A s \in Socket : \A i \in DOMAIN got[s] : got[s][i] < n
    /\ got' = [s \in Socket |-> IF feed[n] \in members[s] THEN Append(got[s], n) ELSE got[s]]
    /\ UNCHANGED <<feed, members>>

Next ==
    \/ \E e \in Event : Publish(e)
    \/ \E s \in Socket, e \in Event : Join(s, e)
    \/ Leave
    \/ \E n \in DOMAIN feed : Deliver(n)

Spec == Init /\ [][Next]_vars
=============================================================================

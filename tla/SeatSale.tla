------------------------------ MODULE SeatSale ------------------------------
(***************************************************************************)
(* What the ticket engine promises about money, with no lock, stream or    *)
(* process in sight: an order is accepted for one seat that nobody has     *)
(* bought, and a seat is sold once, to one order accepted for it.  Orders  *)
(* accepted for the same seat may overlap; at most one of them is sold it. *)
(***************************************************************************)
CONSTANTS Order, Seat

VARIABLES claim,    \* claim[o]: {} or the singleton of the seat o is for
          buyer     \* buyer[s]: the orders seat s was sold to

vars == <<claim, buyer>>

Init ==
    /\ claim = [o \in Order |-> {}]
    /\ buyer = [s \in Seat |-> {}]

Accept(o, s) ==
    /\ claim[o] = {}
    /\ buyer[s] = {}
    /\ claim' = [claim EXCEPT ![o] = {s}]
    /\ UNCHANGED buyer

Sell(o, s) ==
    /\ s \in claim[o]
    /\ buyer[s] = {}
    /\ buyer' = [buyer EXCEPT ![s] = {o}]
    /\ UNCHANGED claim

Next == \E o \in Order, s \in Seat : Accept(o, s) \/ Sell(o, s)

Spec == Init /\ [][Next]_vars
=============================================================================

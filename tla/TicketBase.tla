----------------------------- MODULE TicketBase -----------------------------
(***************************************************************************)
(* The names every module of the ticket engine shares.                     *)
(*                                                                         *)
(* A Call is one holdSeat or createOrder request.  acquireSeatHold draws a *)
(* fresh random UUID for every request, so a call, the holdId it sends to  *)
(* Redis and the order row keyed by that holdId are one and the same name. *)
(***************************************************************************)
EXTENDS Naturals, FiniteSets

CONSTANTS Call,     \* hold and order requests, named by their holdId
          Seat,     \* seats on sale
          Worker,   \* order-settlement worker processes
          NoHold    \* "no such key": what GET on a free seat lock returns

ASSUME NoHoldAssumption == NoHold \notin Call
ASSUME FiniteAssumption == IsFiniteSet(Call) /\ IsFiniteSet(Seat)
=============================================================================

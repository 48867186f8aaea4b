--------------------------- MODULE MCTicketEngine ---------------------------
(***************************************************************************)
(* What TLC needs to check TicketEngine: symmetry of the requests, the     *)
(* seats and the workers, which the engine treats all alike.  Runs with    *)
(* liveness properties do not use it.                                      *)
(***************************************************************************)
EXTENDS TicketEngine, TLC

Symmetry == Permutations(Call) \cup Permutations(Seat) \cup Permutations(Worker)
=============================================================================

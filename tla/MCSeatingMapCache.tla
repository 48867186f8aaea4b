------------------------- MODULE MCSeatingMapCache --------------------------
(***************************************************************************)
(* What TLC needs to check SeatingMapCache: readers are interchangeable.   *)
(***************************************************************************)
EXTENDS SeatingMapCache, TLC

Symmetry == Permutations(Reader)
=============================================================================

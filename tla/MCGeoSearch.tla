---------------------------- MODULE MCGeoSearch -----------------------------
(***************************************************************************)
(* Two releases of the seed's venues, at distances 1 (near), 2 (in range)  *)
(* and 3 (out of range).                                                   *)
(***************************************************************************)
EXTENDS GeoSearch

CONSTANTS v1, v2, v3

TwoReleases == {
    [v \in Venue |-> IF v = v3 THEN 2 ELSE 1],
    [v \in Venue |-> IF v = v1 THEN 3 ELSE IF v = v2 THEN 2 ELSE 1] }
=============================================================================

-------------------------- MODULE MCHoldoutVintage --------------------------
(***************************************************************************)
(* TLC instances of HoldoutVintage: two processes and two intervals that   *)
(* overlap in one bar, so that only one of them can be alive at a time.    *)
(***************************************************************************)
EXTENDS HoldoutVintage, TLC

CONSTANTS early, late, p1, p2

Starts == early :> 1 @@ late :> 2
Ends == early :> 3 @@ late :> 3
Workers == {p1, p2}
Symmetry == Permutations(Workers)
=============================================================================

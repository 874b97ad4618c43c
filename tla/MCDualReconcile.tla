-------------------------- MODULE MCDualReconcile --------------------------
(***************************************************************************)
(* Instances of DualReconcile for TLC.                                     *)
(***************************************************************************)
EXTENDS DualReconcile

CONSTANTS own, foreign

OwnOnly == {own}
Both == {own, foreign}

=============================================================================

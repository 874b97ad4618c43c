-------------------------- MODULE HoldoutLifecycle --------------------------
(***************************************************************************)
(* What the governance registry promises of a holdout vintage, whatever    *)
(* the processes that share the registry do and wherever they die: the     *)
(* interval is sealed first, burned before its labels are opened, opened   *)
(* once, judged at most once and only after it was opened.  A vintage that *)
(* was abandoned is never evaluated.                                       *)
(***************************************************************************)
CONSTANT Vintages

VARIABLE stage    \* how far each vintage has come

Follows(s) == CASE s = "unsealed"  -> {"sealed"}
                [] s = "sealed"    -> {"abandoned", "burned"}
                [] s = "burned"    -> {"opened"}
                [] s = "opened"    -> {"judged"}
                [] OTHER           -> {}

Init == stage = [v \in Vintages |-> "unsealed"]

Advance(v) == \E s \in Follows(stage[v]) : stage' = [stage EXCEPT ![v] = s]

Next == \E v \in Vintages : Advance(v)

Spec == Init /\ [][Next]_stage
=============================================================================

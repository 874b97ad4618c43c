---------------------------- MODULE ActiveFacts ----------------------------
(***************************************************************************)
(* What a reader of the control database may rely on: the set of trade     *)
(* observations reachable through the active heads of one market.  It      *)
(* gains the observations of one sealed segment at a time and never loses  *)
(* any; how many files and heads hold them is nobody's concern here.       *)
(***************************************************************************)
CONSTANTS
    Segments,   \* raw segments of one recorded stream
    RowsOf      \* the observations each of them holds

VARIABLES
    sealed,     \* segments the recorder has sealed
    active      \* observations under an active head

vars == <<sealed, active>>

Init == sealed = {} /\ active = {}

Seal(s) == sealed' = sealed \union {s} /\ UNCHANGED active

Publish(s) ==
    /\ s \in sealed
    /\ active' = active \union RowsOf[s]
    /\ UNCHANGED sealed

Next == \E s \in Segments : Seal(s) \/ Publish(s)

Spec == Init /\ [][Next]_vars

=============================================================================

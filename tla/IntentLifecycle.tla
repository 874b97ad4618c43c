--------------------------- MODULE IntentLifecycle ---------------------------
(***************************************************************************)
(* What the intent ledger promises the execution chain, with no file, no   *)
(* memory and no crash in sight: intents move only along the table of      *)
(* domain/intent.py, at most one intent of a symbol is in flight (T-05),   *)
(* an order number belongs to one intent for good (D-05), and an intent    *)
(* that was accepted has one.                                              *)
(***************************************************************************)
EXTENDS IntentStates

CONSTANTS Intents, Symbols, SymbolOf, OrderIds, NoIntent

VARIABLES
    state,       \* the state of every intent
    owner        \* the intent an order number belongs to

Init ==
    /\ state = [i \in Intents |-> "ABSENT"]
    /\ owner = [o \in OrderIds |-> NoIntent]

Idle(s) == \A i \in Intents : SymbolOf[i] = s => state[i] \notin InFlightStates

(* The first conjunct of Move and of Accept follows from the one about     *)
(* state'; it spares a checker of the refinement the comparison of all     *)
(* intents.                                                                *)
Move(i, target) ==
    /\ state'[i] = target
    /\ target \in Allowed(state[i]) \ {"ACCEPTED"}
    /\ target = "SENDING" => Idle(SymbolOf[i])
    /\ state' = [state EXCEPT ![i] = target]
    /\ UNCHANGED owner

Accept(i, o) ==
    /\ state'[i] = "ACCEPTED"
    /\ "ACCEPTED" \in Allowed(state[i])
    /\ owner[o] = NoIntent
    /\ state' = [state EXCEPT ![i] = "ACCEPTED"]
    /\ owner' = [owner EXCEPT ![o] = i]

Next ==
    \E i \in Intents :
        \/ \E target \in Allowed(state[i]) : Move(i, target)
        \/ \E o \in OrderIds : Accept(i, o)

Spec == Init /\ [][Next]_<<state, owner>>

=============================================================================

--------------------------- MODULE MCIntentLedger ---------------------------
(***************************************************************************)
(* A TLC instance of IntentLedger with three intents: two on one symbol,   *)
(* so that the second must wait for the first, and one on another, so that *)
(* one crash interrupts two intents and the exchange may offer one order   *)
(* number to both.                                                         *)
(***************************************************************************)
EXTENDS IntentLedger, TLC

CONSTANTS i1, i2, i3, btc, eth

OneAlone == [i \in Intents |-> IF i = i3 THEN eth ELSE btc]
Symmetry == Permutations({i1, i2})

=============================================================================

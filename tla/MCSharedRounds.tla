--------------------------- MODULE MCSharedRounds ---------------------------
(***************************************************************************)
(* Instances of SharedRounds for TLC: the rounds of two markets, or two    *)
(* rounds of one market.                                                   *)
(***************************************************************************)
EXTENDS SharedRounds

CONSTANTS btc, eth

Markets == {btc, eth}
TwoSymbols == [p \in Markets |-> IF p = btc THEN "BTC" ELSE "ETH"]
OneSymbol == [p \in Markets |-> "BTC"]

=============================================================================

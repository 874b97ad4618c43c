---------------------------- MODULE MCTradeDays ----------------------------
(***************************************************************************)
(* An instance of TradeDays for TLC: five segments over two days.  The    *)
(* second crosses midnight, the third holds no trade, and the last two     *)
(* recorded the same trade around a reconnect.                             *)
(***************************************************************************)
EXTENDS TradeDays, TLC

CONSTANTS a, b, c, d

Stream == <<{a}, {b, c}, {}, {d}, {d}>>
\* The same with the repeated trade in the first day.
RepeatsFirst == <<{a}, {a}, {b, c}, {}, {d}>>
Dates == a :> 1 @@ b :> 1 @@ c :> 2 @@ d :> 2

=============================================================================

--------------------------- MODULE MCLiveExecutor ---------------------------
(***************************************************************************)
(* Instances of LiveExecutor for TLC; the values are in the .cfg files.    *)
(***************************************************************************)
EXTENDS LiveExecutor

BuyOnly == {"BUY"}
SellOnly == {"SELL"}

=============================================================================

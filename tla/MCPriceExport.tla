---------------------------- MODULE MCPriceExport ----------------------------
(* An instance of PriceExport for TLC. *)
EXTENDS PriceExport

\* A stop is repeated after one tick, then after two.
TheRetryDelays == <<1, 2>>
=============================================================================

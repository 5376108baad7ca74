--------------------------- MODULE MCMarketMonitor ---------------------------
(* An instance of MarketMonitor for TLC. *)
EXTENDS MarketMonitor

\* Off; the official source alone with the lower threshold; Amber first.
TheConfigurations ==
    {[on |-> FALSE, threshold |-> 2, amber |-> FALSE],
     [on |-> TRUE, threshold |-> 1, amber |-> FALSE],
     [on |-> TRUE, threshold |-> 2, amber |-> TRUE]}
=============================================================================

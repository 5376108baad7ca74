---------------------------- MODULE MCSolarPacing ----------------------------
(* SolarPacing on a small day. *)
EXTENDS SolarPacing

\* Free power from 5 to 7, export from 11 past midnight to 1.
OvernightSite == {[freeStart |-> 5, freeEnd |-> 7, start |-> 11, finish |-> 1, ready |-> 4]}

\* A morning into the free window, an afternoon into the export, and its midnight.
Turns == {1, 8, 15}
SmallPolicies ==
    {[morning |-> TRUE,  spill |-> FALSE, preFree |-> TRUE,  base |-> 0],
     [morning |-> TRUE,  spill |-> TRUE,  preFree |-> TRUE,  base |-> Minimum],
     [morning |-> FALSE, spill |-> TRUE,  preFree |-> TRUE,  base |-> 0]}
==============================================================================

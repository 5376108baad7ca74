---------------------------- MODULE MCPaidExport ----------------------------
(* Instances of PaidExport for TLC. *)
EXTENDS PaidExport

\* A meter of each kind, two of them the ones the cap competes with.
EveryKind == {"daily_export", "zerohero_export", "zerohero_import"}
\* A window inside the day and one that ends with it.
BonusWindows == {[start |-> 1, end |-> 3], [start |-> 2, end |-> 0]}
Rates(standard, offpeak) ==
    [window |-> [start |-> 1, end |-> 3], standard |-> standard, offpeak |-> offpeak,
     bonus |-> TRUE]
PayingTariffs == {Rates(TRUE, FALSE), Rates(FALSE, FALSE)}
LegacyTotals == {3}
EveryFault == FaultKinds
=============================================================================

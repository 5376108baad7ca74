--------------------------- MODULE MCManualControl ---------------------------
(* Instances of ManualControl for TLC. *)
EXTENDS ManualControl

Request(s, t) == [stamp |-> s, target |-> t]
TwoRequests == {Request(1, "export_max"), Request(2, "automatic")}
SmallBudget == [tests |-> 1, faults |-> 1]
AllFaults == FaultKinds
=============================================================================

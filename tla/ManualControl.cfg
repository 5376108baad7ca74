SPECIFICATION FairSpec
CONSTANTS
    Requests <- TwoRequests
    MaxRestores = 1
    Budget <- SmallBudget
    Faults <- AllFaults
INVARIANTS
    NewestRequestWins
PROPERTIES
    ImplementsObligation
    OperatorPrevails
    TestEnds
CHECK_DEADLOCK FALSE

CONSTANTS
    Intervals <- MCIntervals
    MaxFull = 2
    MaxEvents = 3
SPECIFICATION Spec
INVARIANTS
    WritesPaced
    FullLimitBounded
PROPERTIES
    UnauthorisedChargeEnds
    TargetReached

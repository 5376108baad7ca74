SPECIFICATION Spec
CONSTANTS
    Day = 16
    Minimum = 1
    Ceiling = 3
    AdjustTicks = 3
    SoakTicks = 2
    AverageTicks = 2
    GapTicks = 2
    Horizon = 20
    Sites <- OvernightSite
    Starts <- Turns
    Policies <- SmallPolicies
    MaxSurplus = 2
    MaxSpare = 4
    SmallRoom = 2
    Ticks = 5
    MaxEvents = 2
INVARIANT SolarIsMeasured
PROPERTIES SpendsOnlySpare SteadyBetweenAdjustments OpenWindowKeepsItsBounds

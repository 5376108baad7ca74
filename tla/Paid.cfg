SPECIFICATION PaidSpec
CONSTANTS
    Day = 4
    Hour = 2
    Gap = 2
    MaxKw = 1
    Coarse = 3
    Fine = 2
    Horizon = 5
    Allowance = 3
    Tracked <- EveryKind
    Windows <- BonusWindows
    Tariffs <- PayingTariffs
    Legacy <- LegacyTotals
    Faults <- EveryFault
INVARIANTS
    RestartLosesLittle
    PaidOnce
PROPERTIES
    CountsItsWindow
    CapNeverRefilled

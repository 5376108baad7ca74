SPECIFICATION FairSpec
CONSTANTS
    MaxAttempts = 1
    MaxKw = 1
    LastTick = 5
    LastInterval = 2
    RetryDelays <- TheRetryDelays
    MaxEvents = 4
PROPERTIES
    PermittedWrites
    PriceObligation
    PriceExportEnds

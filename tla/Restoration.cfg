SPECIFICATION FairSpec
CONSTANTS
    MaxKw = 1
    MaxAttempts = 2
    ExternalModes <- NoExternalModes
    Faults <- InterruptingFaults
PROPERTIES
    StopRestoresOrGivesUp

SPECIFICATION Spec
CONSTANTS
    MaxKw = 2
    MaxAttempts = 2
    ExternalModes <- NoExternalModes
    Faults <- LaggingFaults
INVARIANTS
    OneDirection
PROPERTIES
    FrozenPower

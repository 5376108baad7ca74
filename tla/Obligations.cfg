SPECIFICATION Spec
CONSTANTS
    MaxKw = 1
    MaxAttempts = 1
    ExternalModes <- ChargeIntruder
    Faults <- SeparatingFaults
INVARIANTS
    JournalBeforeActuation
PROPERTIES
    ImplementsObligation
    ForcedModeLast

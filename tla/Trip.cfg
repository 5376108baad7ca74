CONSTANTS
    MaxHours = 2
    MaxEvents = 3
SPECIFICATION Spec
PROPERTIES
    NeverReplayed
    TripBounded
    CancelHolds
    LeaseEnds

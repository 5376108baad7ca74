SPECIFICATION MonitorFairSpec
CONSTANTS
    MaxTime = 3
    MaxSerial = 2
    MaxStamp = 2
    MaxChanges = 3
    Configurations <- TheConfigurations
INVARIANTS
    EvidenceIsConfigured
    VetoHolds
    WithdrawalHolds
PROPERTIES
    CandidateEnds
CHECK_DEADLOCK FALSE

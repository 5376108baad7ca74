CONSTANTS
    Requests = {1, 2}
    Versions = {1, 2}
    MaxEvents = 2
SPECIFICATION FairSpec
INVARIANTS
    OneShot
    RecoverableBackup
    Fenced
PROPERTIES
    MaintenanceEnds
CHECK_DEADLOCK FALSE

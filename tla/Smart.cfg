CONSTANTS
    Lasts <- OneTick
    Sustained = 1
    Rearm = 1
    Retry = 2
    MaxChanges = 3
SPECIFICATION SocketSpec
INVARIANTS
    OnePowerCycle
PROPERTIES
    PowerReturns
    RecoveryEnds

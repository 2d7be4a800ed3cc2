SPECIFICATION FairLifecycleSpec
CONSTANTS
    Digits <- MCDigits
    IdLen = 1
    MinLen = 1
    Targets <- MCOneTarget
    UserTargets <- MCOneTarget
    NewTargets <- MCNoTargets
    Clients <- MCClients
    ClientOps <- MCNoSelect
    QueueCap = 1
    MaxRestarts = 0
CHECK_DEADLOCK FALSE
PROPERTY StartEnds

SPECIFICATION FairLifecycleSpec
CONSTANTS
    Digits <- MCDigits
    IdLen = 1
    MinLen = 1
    Targets <- MCOneTarget
    UserTargets <- MCOneTarget
    NewTargets <- MCOneTarget
    Clients <- MCClients
    ClientOps <- MCNoList
    QueueCap = 1
    MaxRestarts = 1
CHECK_DEADLOCK FALSE
INVARIANTS
    LifecycleTypeOK
    CleanupSurvives
    OneActorPerTarget
    CloseDecisionHolds
PROPERTIES
    ExpiredHandled
    GoneUntracked

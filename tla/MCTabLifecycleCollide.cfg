SPECIFICATION LifecycleSpec
CONSTANTS
    Digits <- MCDigits
    IdLen = 2
    MinLen = 1
    Targets <- MCColliding
    UserTargets <- MCUserColliding
    NewTargets <- MCNewColliding
    Clients <- MCClients
    ClientOps <- MCNew
    QueueCap = 1
    MaxRestarts = 1
CHECK_DEADLOCK FALSE
INVARIANT RestartSparesUser

SPECIFICATION LifecycleSpec
CONSTANTS
    Digits <- MCDigits
    IdLen = 1
    MinLen = 1
    Targets <- MCTargets
    UserTargets <- MCUserTargets
    NewTargets <- MCNewTargets
    Clients <- MCClients
    ClientOps <- MCNoSelect
    QueueCap = 1
    MaxRestarts = 0
CHECK_DEADLOCK FALSE
INVARIANT ForgottenAreGone

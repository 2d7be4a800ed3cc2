SPECIFICATION FairSupervisorSpec
CONSTANTS
    Handlers <- MCHandlers
    Limit = 2
    RpcErrors <- MCRealErrors
    MaxFailures = 3
CHECK_DEADLOCK FALSE
INVARIANTS
    SupervisorTypeOK
    HealthTells
    FatalOnlyOnLoss
    CleanExitIsAsked
PROPERTIES
    VerdictStands
    DaemonExits

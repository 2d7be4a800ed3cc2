SPECIFICATION SupervisorSpec
CONSTANTS
    Handlers <- MCHandlers
    Limit = 2
    RpcErrors <- MCAllErrors
    MaxFailures = 3
CHECK_DEADLOCK FALSE
INVARIANT FatalOnlyOnLoss

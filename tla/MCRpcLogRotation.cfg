SPECIFICATION RpcLogSpec
CONSTANTS
    Tabs = {s1, s2}
    AuditCap = 1
    MaxLines = 3
    MaxRecords = 5
    Tears <- MCInRotation
CHECK_DEADLOCK FALSE
INVARIANT RecoveryComplete

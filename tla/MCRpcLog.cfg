SPECIFICATION FairRpcLogSpec
CONSTANTS
    Tabs = {s1, s2}
    AuditCap = 1
    MaxLines = 3
    MaxRecords = 5
    Tears <- MCPartial
CHECK_DEADLOCK FALSE
INVARIANTS
    RpcLogTypeOK
    MemoryMatchesLog
    NothingDropped
PROPERTIES
    ImplementsDurable
    ShutdownEnds

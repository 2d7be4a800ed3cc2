SPECIFICATION Spec
CONSTANTS
    Urls = {u}
    Requests = {r}
    MaxEntries = 2
    MaxCalls = 3
    MaxWorkers = 2
    Kinds <- MCKinds
    QueueCap = 1
    RingCap = 1
    MaxSeq = 2
    MaxObservers = 1
    Scenarios <- MCScenarios
    MaxRemovals = 1
CHECK_DEADLOCK FALSE
INVARIANTS
    SessionTypeOK
    PooledWorks
    NoOrphanListener
    InstalledRoutesWork
    LossIsCounted
    LeasedDomainsOn
PROPERTIES
    PausedAnswered
    LeaseEnds
    FailedAttachKeepsTab

SPECIFICATION FairLockSpec
CONSTANTS
    Procs = {p1, p2, p3}
    Tabs = {s1, s2}
    Entries = {e1, e2, e3}
    NoEntry = NoEntry
INVARIANTS
    LockTypeOK
    EntryKept
    ForgottenDropped
PROPERTIES
    ImplementsMutex
    NoStarvation

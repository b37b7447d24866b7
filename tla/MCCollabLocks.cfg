SPECIFICATION FairSpec
CONSTANTS
    c1 = c1
    c2 = c2
    s1 = s1
    s2 = s2
    l1 = l1
    l2 = l2
    Conn = {c1, c2}
    Line = {l1, l2}
    NoConn = NoConn
    NoEntry = NoEntry
    IdleMs = 2
    SubjectOf <- MCSubjectOf
    Owner = {c1}
    MaxLocksPerConn = 1
    MaxHeartbeatIds = 2
INVARIANTS
    LiveLocksShown
    HolderPresent
    LockCap
PROPERTIES
    Promise
    SilentHolderLoses

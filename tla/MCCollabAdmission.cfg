SPECIFICATION Spec
CONSTANTS
    c1 = c1
    c2 = c2
    kGuest = kGuest
    kIp = kIp
    Conn = {c1, c2}
    Key = {kGuest, kIp}
    Revoker = {r1, r2}
    KeysOf <- MCKeysOf
    ReplacedBy <- MCReplacedBy
    NoKey = NoKey
    NoCapture = NoCapture
    NoTask = NoTask
    TtlMs = 2
    MaxEntries = 1
    MaxTime = 2
    MaxWrites = 1
SYMMETRY RevokerSymmetry
INVARIANTS
    TypeOK
    NoStaleService
    FreshAuthPasses
    LogBounded

SPECIFICATION Spec
CONSTANTS
    None = None
    Client = {c1, c2}
    Edit = {e1, e2}
    Save = {}
    MaxSessions = 2
    MaxSeeds = 3
    MaxFaults = 1
    MaxCrashes = 0
SYMMETRY TabSymmetry
CONSTRAINT OneByOne
CHECK_DEADLOCK FALSE
INVARIANTS
    DeletedStaysDeleted
    OneSeed
    StoredKept

SPECIFICATION Spec
CONSTANTS
    None = None
    Client = {c1}
    Edit = {e1, e2}
    Save = {s1}
    MaxSessions = 1
    MaxSeeds = 2
    MaxFaults = 0
    MaxCrashes = 1
SYMMETRY TabSymmetry
CHECK_DEADLOCK FALSE
INVARIANTS
    StoredKept
    NoWriterAfterEnd

SPECIFICATION FairSpec
CONSTANTS
    None = None
    Client = {c1}
    Edit = {e1}
    Save = {}
    MaxSessions = 1
    MaxSeeds = 2
    MaxFaults = 2
    MaxCrashes = 0
CHECK_DEADLOCK FALSE
PROPERTIES
    FinalStoreLands

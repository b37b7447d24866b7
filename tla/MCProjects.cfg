SPECIFICATION ProjectsSpec
CONSTANTS
    LibraryOps = {l1, l2}
    Owners = {w1, w2}
    Ids = {1, 2, 3}
    MaxProjects = 2
    StarOps = {l1, l2}
    Owner = owner
    Fans = {owner, fan1, fan2}
    MaxEntries = 2
    MaxDays = 2
    SaveOps = {l1, l2}
    MaxSaves = 3
    Assets = {i1, i2}
    COLLECTIONS = 2
    DESTROY_BATCH = 1
    MaxSweeps = 1
    ListOps = {l1, l2}
    Songs = {m1, m2}
    Savers = {u1, u2}
    MaxVersion = 2
SYMMETRY Symmetry
CHECK_DEADLOCK FALSE
INVARIANTS CountsAgree SavesHonest MediaKept

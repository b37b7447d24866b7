SPECIFICATION Spec
CONSTANTS
    WallOps = {o1, o2}
    Owner = owner
    Authors = {owner, a}
    Staff = staff
    WALL_MAX_DEPTH = 2
    MaxComments = 3
    ReportOps = {o1, o2}
    Reporters = {u1, u2}
    MaxFilings = 4
    FollowOps = {o1, o2}
    Accounts = {u1, u2}
    MaxCount = 1
    ViewOwner = owner
    Writers = {a, b}
    Readers = {owner, a}
    VIEW_MAX_DEPTH = 1
    REPLY_PREVIEW = 1
    PAGE_SIZE = 1
    MaxWall = 4
    MaxMarks = 1
    Words = {"a", "b"}
    MaxText = 4
    MaxCredits = 3
    Times = {10, 14, 20, 6000000}
    MIN_GAP = 5
    DEFAULT_DURATION = 15
    TRACK = 30
SYMMETRY Symmetry
CHECK_DEADLOCK FALSE
INVARIANTS WallTidy MutedWait ReportsSettle FollowsAgree ReadAsWritten

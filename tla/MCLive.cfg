SPECIFICATION Spec
CONSTANTS
    Sockets = {s1, s2, s3}
    Notes = {n1, n2}
    Readers = {r1}
    Tabs = {t1, t2}
    NamedTabs = {t2}
    Pages = {n1, n2}
    MAX_PROJECTS_PER_SOCKET = 1
    Emissions = {n1, n2}
    AsrJob = {j1, j2, j3}
    AsrUser = {u1, u2}
    a1 = a1
    a2 = a2
    Events <- EventsOf
    MaxRows = 3
    TellOps = {n1, n2}
    Public = {u1, u2, u3}
    WallsOwner = u1
    Commenters = {u2}
    MentionsOff = {u3}
    MaxTurns = 2
    u2 = u2
    u3 = u3
    p1 = p1
    p2 = p2
    p3 = p3
    Projects = {p1, p2, p3}
    ProjectOwner <- OwnerOf
    MAX_TAGS_PER_COMMENT = 3
SYMMETRY Symmetry
CHECK_DEADLOCK FALSE
INVARIANTS PresenceAgrees LiveAgrees

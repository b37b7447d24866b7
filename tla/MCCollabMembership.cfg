SPECIFICATION MCSpec
CONSTANTS
    Account = {a1}
    Guest = {g1}
    Invite = {i1, i2}
    InviteRole <- EditorInvites
    Visitor = {v1, v2}
    Request = {r1}
    None = None
    MaxMembers = 2
    MaxKicked = 1
    PersonTabs = {v1, v2}
    OtherTabs = {r1}
    Ids = {i1, i2}
    MAX_AWARENESS_IDS_PER_SUBJECT = 1
    MAX_PROJECT_COLLABORATORS = 2
CHECK_DEADLOCK FALSE
CONSTRAINT Bounds
SYMMETRY SlotSymmetry
INVARIANTS
    OneEachTheirs
    KickedStayOut
    DemotedStaysDown

SPECIFICATION Spec
CONSTANTS
    ProgressOps = {s1, s2}
    Badges = {earned, given}
    Earned = earned
    Deltas <- DeltasOf
    MaxWork = 2
    MaxBonus = 2
    StaffOps = {s1, s2}
    Requests = {q1, q2}
    Staffers = {v1, v2, v3}
    MaxFailures = 2
    StreakOps = {s1, s2}
    Zones <- ZonesOf
    DAY = 4
    GAP = 4
    COOLDOWN = 4
    EVENING = 3
    AHEAD = 2
    Horizon = 16
    MaxHops = 2
    Works = {w1, w2}
    GrantOps = {s1, s2}
    Members = {m1}
    Perms = {a, b}
    ModDefault = {a}
    MaxEdits = 2
    ThreadOps = {s1, s2}
    People = {r1, v1, v2}
    Reporter = r1
    MAX_MESSAGES_PER_REPORT = 3
    MaxMessages = 3
    MaxRoles = 1
    Matters = {s1, s2}
    Filers = {v1, v2}
    QueueLimit = 1
    MaxMoments = 3
    LevelOps = {s1, s2}
    DEFAULT_LEVELS <- DefaultLevelsOf
    LevelInputs <- LevelInputsOf
    Players = {w3, w4, w5}
    WEIGHTS <- WeightsOf
    Likers = {r1, v1}
    Maker = r1
    MaxAmount = 1
    MaxChanges = 1
    MaxTurns = 3
SYMMETRY Symmetry
CHECK_DEADLOCK FALSE
INVARIANTS StandingsAgree ModeratorsAct StreakHonest GrantsFollow

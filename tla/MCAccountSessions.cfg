SPECIFICATION FocusSpec
CONSTANTS
    Ops = {o1, o2}
    Devices = {d1}
    MaxTokens = 3
    MaxFamilies = 2
    MaxLinks = 2
    MaxPasswords = 2
    SignOps = {o1, o2}
    Members = {a1, a2}
    Identities = {g1, g2}
    Addresses = {e1, e2}
    Passkeys = {k1, k2}
    MaxChallenges = 2
SYMMETRY Symmetry
INVARIANTS
    EvictedStayOut
    WaysIn
    ReuseDetection
PROPERTY TokensOfLive
CHECK_DEADLOCK FALSE

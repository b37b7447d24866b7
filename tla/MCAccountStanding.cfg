SPECIFICATION StandingSpec
CONSTANTS
    Ops = {o1, o2}
    Items = {project, playlist}
    Networks = {ip}
    MaxBans = 2
    NameOps = {o1, o2}
    Accounts = {"u1", "u2"}
    Names = {na, nb, nc}
    Addresses = {"home", "x", "y"}
    SignedUpWith <- SignedUp
    MaxLinks = 2
    MaxNamings = 4
    MaxMails = 3
    Folk = {1, 2, 3}
    Staff = {3}
    Score <- Scores
    PeriodXp <- Winnings
    Taste <- Tastes
    Deeds <- Done
    PageLimit = 2
    MaxChanges = 3
SYMMETRY OpSymmetry
CHECK_DEADLOCK FALSE
INVARIANTS
    ShownAsTheyStand
    AppealsOfBans
    NamesHold
PROPERTY BanLastsItsTerm

SPECIFICATION ReviewsSpec
CONSTANTS
    Flags = {f1}
    ReviewIds = {v1, v2, v3}
    Users = {u1, u2, m1}
    Owner = u1
    Managers = {m1}
    Assigners = {u2, m1}
    GlobalReviewers = {u1, m1}
    OrgUsers = {u1, u2}
    Movers = {u2}
    AccessLevels = {"public", "organization", "invitation_only"}
    Requests = {r1, r2}
    None = None
    MaxRequired = 2
    MaxBulk = 2
SYMMETRY Symmetry
INVARIANTS PickerExact RestoreListHonest
CHECK_DEADLOCK FALSE

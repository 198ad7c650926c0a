SPECIFICATION ScenariosSpec
CONSTANTS
    ScenarioIds = {s1, s2, s3}
    Users = {u1, m1}
    Managers = {m1}
    Requests = {r1, r2}
    Keys = {k1, k2, k3}
    None = None
    MAX_TAGS = 1
    MaxPosition = 3
SYMMETRY Symmetry
INVARIANTS FoldAgrees
PROPERTIES OrderKept
CHECK_DEADLOCK FALSE

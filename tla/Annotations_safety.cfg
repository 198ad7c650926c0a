SPECIFICATION AnnotationsSpec
CONSTANTS
    k1 = k1
    l1 = l1
    l2 = l2
    Curated = {k1}
    UserLabels = {l1, l2}
    Words = {w1, w2}
    AnnotationIds = {a1, a2, a3}
    Users = {u1, u2}
    Managers = {u2}
    Requests = {r1, r2}
    None = None
    Rank <- MCRank
    MaxDeploys = 2
SYMMETRY Symmetry
INVARIANTS PickEqualsType WordingsCountOnce
CHECK_DEADLOCK FALSE

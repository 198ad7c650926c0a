SPECIFICATION Spec
CONSTANTS
    u1 = u1
    m1 = m1
    o1 = o1
    Groups = {g1, g2}
    Evals = {e1, e2}
    Orgs = {o1}
    Users = {u1, m1}
    Managers = {m1}
    Home <- MCHome
    Requests = {r1, r2}
    None = None
    MaxEdits = 1
    Creators = {u1}
    MaxFresh = 1
SYMMETRY Symmetry
INVARIANTS OneVerdictPerSubmission NoSilentInheritance FormOrgLive
CHECK_DEADLOCK FALSE

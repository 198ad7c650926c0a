SPECIFICATION WorkspaceSpec
CONSTANTS
    Convs = {c1, c2}
    Groups = {g1, g2}
    TaskIds = {t1}
    CompletionIds = {k1, k2}
    NoteIds = {n1}
    Requests = {r1, r2}
    Users = {u1, m1}
    Managers = {m1}
    Editors = {m1}
    Texts = {x1, x2}
    None = None
SYMMETRY Symmetry
INVARIANTS RollupExact AuditSnapshotFresh
CHECK_DEADLOCK FALSE

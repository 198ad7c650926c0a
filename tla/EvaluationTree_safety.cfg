SPECIFICATION Spec
CONSTANTS
    Models = {m1}
    Assignments = {a1}
    Convs = {c1, c2, c3}
    Groups = {g1, g2}
    Txs = {t1, t2}
    None = None
    MaxGroupSize = 2
    Ops = {"create", "createGroup", "move", "delete", "restore", "deleteGroup",
           "assign", "unassign", "restoreAssignment", "deleteModel", "restoreModel", "sync"}
SYMMETRY Symmetry
INVARIANTS SerialReadsAgree CapRespected AssignedWithinSubset
PROPERTIES OnlyPrunesStrand

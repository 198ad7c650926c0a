SPECIFICATION Spec
CONSTANTS
    Txs = {t1, t2}
    Verifications = {v1, v2, v3}
    Platform = {p1, p2}
    Group = {g1}
    Resets = {r1, r2}
    None = None
    MaxPerDay = 1
SYMMETRY Symmetry
INVARIANTS InvitedUnclaimed IdpLeavesNoPassword
PROPERTIES SelfServiceThrottled RevokedLinkStaysDead SpentLinksStaySpent

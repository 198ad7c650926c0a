SPECIFICATION Spec
CONSTANTS
    Requests = {r1, r2}
    SessionTtl = 1
    RefreshTtl = 1
    AbsMax = 2
    MaxTokens = 1
    MaxNow = 3
    MaxVersion = 1
VIEW View
SYMMETRY Symmetry
INVARIANTS RevokedStaysRevoked SuccessMeansRevoked AbsoluteCeiling
PROPERTIES NoExchangeOfRevoked

SPECIFICATION Spec
CONSTANTS
    hosted = hosted
    wide = wide
    own = own
    plainId = plainId
    searchId = searchId
    prefixedId = prefixedId
    n1 = n1
    n2 = n2
    Models = {m1, m2}
    Names = {n1, n2}
    Vendors <- MCVendors
    Generic = own
    WebVendors <- MCWebVendors
    WebModels <- MCWebModels
    PlatformKeys <- MCPlatformKeys
    Keys = {key1}
    Ids <- MCIds
    PrefixOf <- MCPrefixOf
    Drafts <- MCDrafts
    Patches <- MCPatches
    Reqs = {r1}
    Tasks = {k1, k2}
    Sweeps = {s1, s2}
    AlertHours = 1
    MaxNow = 2
    MaxEdits = 2
    MaxChecks = 2
    None = None
SYMMETRY Symmetry
CONSTRAINT Explored
INVARIANTS EvidenceCurrent AlertsHonest OfferedIsCallable
CHECK_DEADLOCK FALSE

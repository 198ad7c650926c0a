SPECIFICATION FairSpec
CONSTANTS
    Jobs = {j1}
    Workers = {w1, w2}
    Clients = {a1, a2}
    Keys = {k1}
    NoKey = NoKey
    None = None
    MaxRetries = 1
    WorkerCrashes = TRUE
    StorageFaults = TRUE
    CommitReplyLost = TRUE
INVARIANTS SingleWriter AnnouncedOnce
PROPERTIES ReadyFileKept JobsRetire

SPECIFICATION FairSpec
CONSTANTS
    Conversations = {c1, c2}
    Keys = {k1}
    NoKey = NoKey
    Requests = {q1, q2}
    Replies = {r1, r2}
    None = None
    MaxTurns = 2
    TtlCoversGeneration = FALSE
INVARIANTS OneStreamingPerTurn IdempotentSubmit
PROPERTIES AppendOnly StreamingSettles ImplementsTranscript

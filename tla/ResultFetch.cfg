SPECIFICATION Spec
CONSTANTS
    s1 = s1
    s2 = s2
    Session <- TwoSessions
    ChunksPerBatch = 2
    MaxChunks = 5
    MaxResults = 2
    MaxTimeouts <- LossyClient
CHECK_DEADLOCK FALSE
INVARIANTS
    TypeOK
    ResultsBelongToSessions
    ReadsAPrefix
    CompleteMeansWhole
    OnlyLossBreaks
PROPERTY ReadingEnds

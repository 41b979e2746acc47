SPECIFICATION DockerFairSpec
CONSTANTS
    Deadlines <- MCDeadlines
    Lease = 1
    MaxBytes = 1
    MaxWrites = 2
INVARIANTS
    Conserved
    ShownIsCappedPrefix
    LeftoversExplained
PROPERTIES
    VerdictJustified
    EveryRunEnds
    ImplementsChunkProtocol
CHECK_DEADLOCK FALSE

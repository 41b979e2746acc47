SPECIFICATION FairSpec
CONSTANTS
    MaxBytes = 3
    PipeSize = 1
    StdinExcess = 1
    MaxWrites = 3
INVARIANTS
    OutputIsCappedPrefix
    NothingLost
    ResidueExplained
PROPERTIES
    VerdictJustified
    ImplementsChunkProtocol
    EveryRunEnds
CHECK_DEADLOCK FALSE

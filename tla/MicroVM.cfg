SPECIFICATION FairSpec
CONSTANTS
    Capacity = 3
    ReaderLimit = 1
    StdinExcess = 2
    MaxWrites = 6
INVARIANTS
    VerdictJustified
PROPERTIES
    ImplementsChunkProtocol
    EveryRunEnds
CHECK_DEADLOCK FALSE

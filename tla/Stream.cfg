SPECIFICATION FairSpec
CONSTANTS
    Sessions = {s1}
    MaxFrames = 4
    MaxFaults = 2
    MaxExpiries = 1
INVARIANTS
    GapsAccounted
PROPERTIES
    ImplementsLossyStream
    WatcherIsReleased
CHECK_DEADLOCK FALSE

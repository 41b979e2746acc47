SPECIFICATION FairSpec
CONSTANTS
    MaxRuns = 2
    MaxAttempts = 3
    MaxFrames = 2
    MaxSockets = 3
    MaxDrops = 1
INVARIANTS
    ViewIsOneRun
    ShowsTheLastRun
PROPERTIES
    WatchingEnds
CHECK_DEADLOCK FALSE

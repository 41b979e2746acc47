SPECIFICATION FairSpec
CONSTANTS
    Submissions = {a, b, c}
    Workers = {w1, w2}
    MaxFaults = 1
    NoJob = NoJob
INVARIANTS
    FirstInFirstOut
    LossesNeedFaults
PROPERTIES
    ImplementsAtMostOnce
    

SPECIFICATION Spec
CONSTANTS
    Handlers = {h1, h2}
    MaxRequests = 2
    Window = 2
    MaxDelay = 1
    MaxTime = 8
    MaxCalls = 5
    MaxErrors = 1
SYMMETRY HandlerSymmetry
INVARIANTS
    OvershootBounded
    NoEarlyForgetting
CHECK_DEADLOCK FALSE

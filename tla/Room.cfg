SPECIFICATION RoomSpec
CONSTANTS
    Tabs = {t1, t2}
    Users = {alice, bob}
    MaxSockets = 3
    MaxEdits = 2
    MaxDrops = 1
SYMMETRY Symmetry
INVARIANTS
    NoGhosts
    AudienceAgrees
    NoOrphanSocket
CHECK_DEADLOCK FALSE

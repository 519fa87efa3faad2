SPECIFICATION Spec
CONSTANTS
    Configured = 1
    Counts = {0, 1}
    Launch = {l1, l2}
    MaxSaid = 3
    MaxRuns = 3
    None = None
SYMMETRY Symmetry
CHECK_DEADLOCK FALSE
INVARIANTS
    TypeOK
    CeilingHolds
    SaidOnce
    NoReplyLost
PROPERTY NothingIsReturned

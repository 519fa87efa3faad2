SPECIFICATION Spec
CONSTANTS
    Configured = 1
    Counts = {1}
    Launch = {l1}
    MaxSaid = 1
    MaxRuns = 3
    None = None
CHECK_DEADLOCK FALSE
INVARIANT EachCommandBuysOnce

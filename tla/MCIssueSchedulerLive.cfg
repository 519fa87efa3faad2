SPECIFICATION FairSpec
CONSTANTS
    small = small
    large = large
    Repo = {small, large}
    Number = {1}
    Bucket = 0
    Job = {j1, j2}
    Caller = {c1}
    GlobalCap = 2
    PerRepoCap <- Caps
    ExemptWorkers = 1
    None = None
CHECK_DEADLOCK FALSE
PROPERTIES
    BarrierIsReversed
    AcceptedIsReleased

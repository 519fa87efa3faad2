SPECIFICATION StraySpec
CONSTANTS
    Repo = {r1}
    Number = {1, 2}
    Bucket = 0
    Job = {j1, j2}
    Caller = {c1}
    GlobalCap = 2
    PerRepoCap <- Caps
    ExemptWorkers = 2
    None = None
CHECK_DEADLOCK FALSE
INVARIANT RefusedNeverRuns

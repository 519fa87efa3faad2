SPECIFICATION Spec
CONSTANTS
    small = small
    large = large
    Repo = {small, large}
    Number = {1, 2}
    Bucket = 0
    Job = {j1, j2, j3, j4}
    Caller = {c1, c2}
    GlobalCap = 2
    PerRepoCap <- Caps
    ExemptWorkers = 2
    None = None
SYMMETRY JobSymmetry
CHECK_DEADLOCK FALSE
INVARIANTS
    TypeOK
    OneWorkerPerIssue
    CapsHold
    QuietStaysQuiet
    SlotsMatchJobs

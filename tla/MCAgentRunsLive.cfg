SPECIFICATION FairSpec
CONSTANTS
    Configured = 1
    Counts = {0, 1}
    Launch = {l1}
    MaxSaid = 2
    MaxRuns = 2
    None = None
CHECK_DEADLOCK FALSE
PROPERTIES
    NoticeIsSaid
    BoughtIsGranted

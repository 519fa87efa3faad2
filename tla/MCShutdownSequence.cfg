SPECIFICATION FairSpec
CONSTANTS
    Signum = {int, term}
    Worker = {w1, w2}
    OneRepository = TRUE
CHECK_DEADLOCK FALSE
PROPERTY SignalEndsTheRun

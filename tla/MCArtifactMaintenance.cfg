SPECIFICATION FairSpec
CONSTANTS
    Poller = {p1, p2}
    OneShot = {once}
    Issue = {i1}
    None = None
CHECK_DEADLOCK FALSE
INVARIANTS
    TypeOK
    NoPassBesideWork
    OnePassAtATime
    TeardownHoldsTheIssue
    PresenceBehindWork
PROPERTIES
    AdmissionReopens
    WaitIsFinite

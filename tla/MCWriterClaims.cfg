SPECIFICATION Spec
CONSTANTS
    Process = {p1, p2, p3}
    Thread = {t1, t2}
    Cycle = {2}
    MaxMoment = 1
    None = None
SYMMETRY Symmetry
CHECK_DEADLOCK FALSE
INVARIANTS
    TypeOK
    OneWriter
    LockNotLeaked
    UndisturbedSound
    NoteIsOfTheLastHold
    StandingNoteIsRead
PROPERTIES
    ImplementsClaim

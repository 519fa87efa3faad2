SPECIFICATION Spec
CONSTANTS
    c1 = c1
    c2 = c2
    Child = {c1, c2}
    Parent = parent
    Graphs <- BothGraphs
    Worker = {w1, w2}
    MaxActs = 2
    MaxFails = 1
    None = None
SYMMETRY Symmetry
INVARIANTS
    TypeOK
    StartedOnce
    NeverUnlabelled
    AttemptGoesFirst
    NothingReleasedAfterClose
PROPERTIES
    HoldSurvives

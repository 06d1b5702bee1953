SPECIFICATION Spec
CONSTANTS
    Summaries = {w1, w2, w3, w4}
    NoSummary = NoSummary
    MaxSize = 2
    p1 = p1
    p2 = p2
    Projects = {p1, p2}
    Events <- TwoProjects
    MinCrossCycleCount = 2
    MinSubsequentRefs = 2
    SerialDispatch = FALSE
    MaxClears = 1
INVARIANTS
    RepetitionAloneNeverPersists
SYMMETRY Symmetry

SPECIFICATION Spec
CONSTANTS
    Summaries = {w1, w2, w3, w4, w5}
    NoSummary = NoSummary
    MaxSize = 3
    p1 = p1
    p2 = p2
    Projects = {p1}
    Events <- OneProject
    MinCrossCycleCount = 2
    MinSubsequentRefs = 2
    SerialDispatch = TRUE
    MaxClears = 1
INVARIANTS
    TypeOK
    ClearedStaysFresh
PROPERTIES
    LogSpec
SYMMETRY Symmetry

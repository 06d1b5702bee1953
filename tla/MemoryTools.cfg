SPECIFICATION Spec
CONSTANTS
    e1 = e1
    e2 = e2
    e3 = e3
    e4 = e4
    r1 = r1
    r2 = r2
    r3 = r3
    r4 = r4
    r5 = r5
    p1 = p1
    p2 = p2
    p3 = p3
    p4 = p4
    c1 = c1
    c2 = c2
    c3 = c3
    Episodes = {e1, e2, e3, e4}
    Rules = {r1, r2, r3, r4, r5}
    Pitfalls = {p1, p2, p3, p4}
    Calls = {c1, c2, c3}
    NoId = NoId
    NoCopy = NoCopy
    NoPool = NoPool
    NoSite = NoSite
    MaxFaults = 1
    MinClusterSize = 2
    Contradictions <- RuleContradictions
    Pattern <- TaskOf
    Site <- SiteOf
    Workloads <- MCWorkloads
INVARIANTS
    StoreTypeOK
    IncrementsAddUp
    
    CacheHoldsStored
    Adjudicated
    DetectedIsTracked
    RunReportsTruth
PROPERTIES
    RetiredStaysOut
    SuppressionStands

SPECIFICATION Spec
CONSTANTS
    Writes = {w1, w2, w3, w4}
    Signals = {}
    Events <- DaemonEvents
    EntityA = EntityA
    NoEntity = NoEntity
    NoMemory = NoMemory
    SearchLimit = 5
    PeerPool = 500
    TicksPerSecond = 2
    StartTime = 6
    SerialDispatch = TRUE
    MaxFailures = 1
INVARIANTS
    RetirementExplained
    SupersessionStaysJustified
    AcknowledgedStaysTraceable
PROPERTIES
    LedgerSpec
SYMMETRY Symmetry

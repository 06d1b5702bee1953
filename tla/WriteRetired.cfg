SPECIFICATION Spec
CONSTANTS
    Writes = {w1, w2, w3}
    Signals = {}
    Events <- ToolEvents
    EntityA = EntityA
    NoEntity = NoEntity
    NoMemory = NoMemory
    SearchLimit = 2
    PeerPool = 500
    TicksPerSecond = 2
    StartTime = 6
    SerialDispatch = FALSE
    MaxFailures = 0
PROPERTIES
    RetiredStaysRetired

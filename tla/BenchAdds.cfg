SPECIFICATION BenchFairSpec
CONSTANTS
    Writes <- BenchWrites
    Signals <- NoSignals
    Events <- Sayings
    Conversation <- Talk
    NoEntity = NoEntity
    NoMemory = NoMemory
    SearchLimit = 2
    PeerPool = 2
    TicksPerSecond = 1
    StartTime = 0
    SerialDispatch = FALSE
    MaxFailures = 1
    Inners <- AllInners
    WorkersOption = 0
    BatchOption = 2
    DefaultWorkers = 2
    MaxWorkers = 2
    HardLimit = 2
    MaxRetries = 1
    Messages = 4
    Requests = 2
    EmptyMessages <- Silent
    MaxMessagesPerAdd = 4
    MaxDeletes = 1
INVARIANTS
    BenchTypeOK
    VectorsInOrder
    RowsHaveTheirVector
    
    PassedIsWritten
    DeletedStaysDeleted
PROPERTIES
    AddsAreServed

SPECIFICATION Spec
CONSTANTS
    Calls = {c1, c2, c3}
    None = None
    Sessions = {s1, s2}
    First = s1
    Targets = {"memory"}
    AgentContext = "primary"
    MaxFailures = 1
    PipeRoom = 1
INVARIANTS
    TypeOK
    AnswersLagByTimeouts
    
    OneSession
    FreshWorkingMemory
    EditsChain
    RecallIsOwn
    
SYMMETRY Symmetry

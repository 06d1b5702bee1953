SPECIFICATION Spec
CONSTANTS
    Calls = {c1, c2}
    None = None
    Sessions = {s1}
    First = s1
    Targets = {"memory"}
    AgentContext = "primary"
    MaxFailures = 0
    PipeRoom = 1
INVARIANTS
    AnswersMatchRequests

SPECIFICATION Spec
CONSTANTS
    draft = draft
    final = final
    note = note
    claude = claude
    custom = custom
    NoItem = NoItem
    Items = {draft, final}
    SourceOf <- Sources
    ProviderOf <- Adapters
    Doubtful = {}
    BuiltIn = {claude}
    Custom = {}
    Scanners = {loop, sync}
    Loop = loop
    SeenMax = 2
    DataDir = TRUE
    MaxFailures = 0
INVARIANTS
    SeenIsHandled

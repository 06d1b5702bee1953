SPECIFICATION FairSpec
CONSTANTS
    draft = draft
    final = final
    note = note
    claude = claude
    custom = custom
    NoItem = NoItem
    Items = {draft, note}
    SourceOf <- Sources
    ProviderOf <- Adapters
    Doubtful = {note}
    BuiltIn = {claude}
    Custom = {custom}
    Scanners = {loop, sync}
    Loop = loop
    SeenMax = 1
    DataDir = TRUE
    MaxFailures = 1
INVARIANTS
    TypeOK
    RepeatNeedsForgetting
    StoredIsRemembered
PROPERTIES
    EverySourceIsTakenUp

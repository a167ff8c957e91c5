SPECIFICATION FairSpec
CONSTANTS
    PageEntries = 3
    Requests = {1, 2}
    EnableArgs = {"1", "2"}
    MaxEnables = 1
    MaxStarts = 1
    MaxUses = 1
    MaxEntries = 12
    PromptWriter = TRUE
    FailingBus = FALSE
    FatalOverlap = FALSE
INVARIANTS
    TypeOK
    PageUnchanged
PROPERTIES
    RespawnLosesNothing
    
    RecordingCompletes

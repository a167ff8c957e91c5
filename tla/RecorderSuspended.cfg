SPECIFICATION Spec
CONSTANTS
    PageEntries = 3
    Requests = {1}
    EnableArgs = {"1", "2"}
    MaxEnables = 2
    MaxStarts = 1
    MaxUses = 1
    MaxEntries = 20
    PromptWriter = TRUE
    FailingBus = FALSE
    FatalOverlap = FALSE
INVARIANTS
    StopsAfterPages
CHECK_DEADLOCK FALSE

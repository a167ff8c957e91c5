SPECIFICATION Spec
CONSTANTS
    PageEntries = 2
    Requests = {1}
    EnableArgs = {"0", "1", "2"}
    MaxEnables = 3
    MaxStarts = 2
    MaxUses = 1
    MaxEntries = 4
    PromptWriter = FALSE
    FailingBus = TRUE
    FatalOverlap = TRUE
INVARIANTS
    SectionExclusive
    NoLostSemaphore
    SwapExclusive
    EntryBound
CHECK_DEADLOCK FALSE

SPECIFICATION FairProgram
CONSTANTS
    BufferSize = 5
    WordSize = 4096
    IntSize = 256
    Clocks <- SomeClocks
    Latencies = {0, 1}
INVARIANTS
    TypeOK
    RecordsInPlace
    FinishedPhasesAreKept
    NoStaleDone
    OneTurn
    EffectIsSeen
PROPERTIES
    SwitchUndisturbed
    PhasesEnd
CHECK_DEADLOCK FALSE

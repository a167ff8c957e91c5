SPECIFICATION FairSpec
CONSTANTS
    NumThreads <- WorkloadNumThreads
    Periodic <- WorkloadPeriodic
    Priority <- WorkloadPriority
    Event <- WorkloadEvent
    Operations <- WorkloadOperations
    PI = TRUE
    Packets <- WorkloadPackets
    MaxClicks = 2
INVARIANTS
    TypeOK
    Exclusive
    CancelledHoldNoMutex
PROPERTY
    WaiterGetsMutex
CHECK_DEADLOCK FALSE

SPECIFICATION Spec
CONSTANTS
    NumThreads <- WorkloadNumThreads
    Periodic <- WorkloadPeriodic
    Priority <- WorkloadPriority
    Event <- WorkloadEvent
    Operations <- WorkloadOperations
    PI = FALSE
    Packets <- WorkloadPackets
    MaxClicks = 2
INVARIANT
    Exclusive
CHECK_DEADLOCK FALSE

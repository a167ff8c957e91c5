SPECIFICATION Spec
CONSTANT
    BufferSize = 4
INVARIANT
    MainStaysInside
CHECK_DEADLOCK FALSE

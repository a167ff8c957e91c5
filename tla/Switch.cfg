SPECIFICATION FairSpec
CONSTANT
    BufferSize = 5
INVARIANTS
    TypeOK
    CountedCellsAreDifferences
    StoresStayInside
PROPERTIES
    DiffMeasuresOneSwitch
    TestEnds
CHECK_DEADLOCK FALSE

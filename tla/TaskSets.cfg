SPECIFICATION Spec
CONSTANTS
  TaskSets <- ConstrainedSets
  FractionTaskSets <- FractionSets
  MaxDouble = 204
INVARIANTS
  TypeOK
  VerdictsExact
  AcceptanceIsSafe
  DominanceOrder
PROPERTY
  AnalysesEnd
CHECK_DEADLOCK FALSE

SPECIFICATION FairSpec
CONSTANTS
  N = 3
  Bodies <- SmallBodies
  Reach = 3
  DegenerateJCC = FALSE
INVARIANTS
  TypeOK
  OffsetsExact
  ShortBranchesReach
  FlowPreserved
  SuccessorsMatch
  NoneNeedlesslyLong
PROPERTIES
  Terminates
  ImplementsRelaxation
\* The pass ends.
CHECK_DEADLOCK FALSE

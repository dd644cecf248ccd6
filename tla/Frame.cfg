SPECIFICATION Spec
CONSTANTS
  Functions <- Interruptible
  Values = {1, 2}
  Depth = 48
  MaxAllocas = 1
INVARIANTS
  TypeOK
  FrameIndexesResolve
  VariablesIntact
  ArgumentsInPlace
  CallerPreserved
PROPERTY CallerFrameUntouched
\* The function returns.
CHECK_DEADLOCK FALSE

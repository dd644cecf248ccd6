SPECIFICATION Spec
CONSTANTS
  Functions <- InterruptedVarSized
  Values = {1, 2}
  Depth = 48
  MaxAllocas = 1
INVARIANT CallerPreserved
\* The function returns.
CHECK_DEADLOCK FALSE

SPECIFICATION Spec
CONSTANTS
  Words = 16
  Dag <- SmallNodes
  FrameOffsets = {0, 2}
  Addresses <- FewAddresses
  BothAddresses <- FewAddresses
  LoadFirst = {"add", "sub", "and", "or", "xor"}
INVARIANT ResultsAgree
\* The instruction has run.
CHECK_DEADLOCK FALSE

SPECIFICATION Spec
CONSTANTS
  Words = 16
  Dag <- SmallNodes
  FrameOffsets = {0, 2}
  Addresses <- SmallAddresses
  BothAddresses <- FewAddresses
  LoadFirst = {"add", "and", "or", "xor"}
INVARIANTS
  TypeOK
  AlwaysSelected
  AddressesAgree
  ResultsAgree
\* The instruction has run.
CHECK_DEADLOCK FALSE

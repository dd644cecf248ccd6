SPECIFICATION Spec
CONSTANTS
  Width = 4
  ByteBits = 2
  AndKinds = {"and", "trunc", "shared"}
INVARIANT ComparisonsHold
\* The value is computed.
CHECK_DEADLOCK FALSE

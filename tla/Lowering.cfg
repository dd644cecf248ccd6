SPECIFICATION Spec
CONSTANTS
  Width = 4
  ByteBits = 2
  AndKinds = {"and", "trunc"}
INVARIANTS
  TypeOK
  ComparisonsHold
  ShiftsHold
\* The value is computed.
CHECK_DEADLOCK FALSE

SPECIFICATION Spec
CONSTANTS
  Space = 64
  Field = 8
  Bases = {10, 40}
  Programs <- SmallPrograms
INVARIANTS
  TypeOK
  ExecutedAsWritten
  SelectedBranchesFit
  DisassemblesBack
  ListingReassembles
CHECK_DEADLOCK FALSE

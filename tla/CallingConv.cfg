SPECIFICATION Spec
CONSTANT Signatures <- Calls
INVARIANTS
  TypeOK
  LocationsDisjoint
  ValuesArrive
  AssertedExtensions
\* The call is over.
CHECK_DEADLOCK FALSE

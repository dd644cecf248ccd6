SPECIFICATION Spec
CONSTANTS
  p1 = p1
  p2 = p2
  p3 = p3
  Proc = {p1, p2, p3}
  Host <- OneRemote
  Names = {1, 2, 3, 4}
  MaxCrashes = 1
  MayTimeOut = TRUE
  Failing = {p1}
  MaxLeft = 1
  NoOne = NoOne
INVARIANTS
  TypeOK
  NoForgottenLock
  NoLitter
  OnlyOwnFailures
PROPERTY
  EveryoneFinishes
CHECK_DEADLOCK FALSE

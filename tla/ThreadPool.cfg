SPECIFICATION SpecQueue
CONSTANTS
  Worker = {w1, w2}
  MaxTasks = 5
  MaxItems = 3
  MaxSpurious = 1
  Nobody = Nobody
INVARIANTS
  TypeOK
  NoTasksRace
  NoIdleThread
PROPERTIES
  ImplementsExecutor
  ImplementsSerialExecutor
\* The pool is destroyed.
CHECK_DEADLOCK FALSE

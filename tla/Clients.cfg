\* Two batches of two tasks: the second is submitted over the first.
SPECIFICATION Spec
CONSTANTS
  Width = 2
  MaxTasks = 4
  Clones = {c1, c2}
  Threads = {p1, p2}
  Backends = {b1}
CHECK_DEADLOCK FALSE
INVARIANTS
  TypeOK
  ToldIsTrue
  NoTaskLeftBehind
  RefusalIsDefinite
  ResourceOfOneService
  InputArrives
PROPERTIES
  RunEnds

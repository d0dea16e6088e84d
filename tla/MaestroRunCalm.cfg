\* Another instance shares the session; every exchange is answered.
SPECIFICATION RunFairSpec
CONSTANTS
  Sessions = {s1}
  TaskIds = {t1}
  MaxGen = 1
  Reuse = FALSE
  Diagnostics = TRUE
  Clients = {c1, c2}
  Runner = c1
  Trouble = {}
  NoSession = NoSession
  NoKey = NoKey
INVARIANTS
  RunLeavesNothing
PROPERTIES
  EndedTaskEndsRun
CHECK_DEADLOCK FALSE

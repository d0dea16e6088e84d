\* Another instance shares the session; every trouble.
SPECIFICATION RunSpec
CONSTANTS
  Sessions = {s1}
  TaskIds = {t1}
  MaxGen = 1
  Reuse = FALSE
  Diagnostics = TRUE
  Clients = {c1, c2}
  Runner = c1
  Trouble <- AnyTrouble
  NoSession = NoSession
  NoKey = NoKey
PROPERTIES
  RunKeepsContract
CHECK_DEADLOCK FALSE

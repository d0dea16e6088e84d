SPECIFICATION Spec
CONSTANTS
  Clients = {c1, c2}
  Sessions = {s1}
  TaskIds = {t1}
  MaxGen = 1
  Reuse = FALSE
  Diagnostics = TRUE
  NoSession = NoSession
  NoKey = NoKey
  Trouble <- AnyTrouble
INVARIANTS TypeOK StartContract NoSilentOrphan StopSettles
PROPERTIES KeepsPromise

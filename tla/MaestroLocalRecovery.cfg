\* Requests may be lost or refused, but the daemon can be reached.
SPECIFICATION FairSpec
CONSTANTS
  Clients = {c1, c2}
  Sessions = {s1}
  TaskIds = {t1}
  MaxGen = 1
  Reuse = FALSE
  Diagnostics = TRUE
  NoSession = NoSession
  NoKey = NoKey
  Trouble = {"lost", "refused"}
PROPERTIES CancellationRecovered CallsReturn

SPECIFICATION Spec
CONSTANTS
  Clients = {c1}
  Sessions = {s1, s2}
  TaskIds = {t1}
  MaxGen = 2
  Reuse = TRUE
  Diagnostics = TRUE
  NoSession = NoSession
  NoKey = NoKey
  Trouble <- AnyTrouble
INVARIANTS VerdictsScoped VerdictsTruthful

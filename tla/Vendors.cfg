\* Every trouble.
SPECIFICATION Spec
CONSTANTS
  Jobs = {j1, j2}
  Sessions = {s1, s2}
  NoSession = NoSession
  Trouble <- AnyTrouble
  NoJob = NoJob
SYMMETRY Symmetry
INVARIANTS
  TypeOK
  StartContract
  OneJobPerStart
  StopSettles
  FinalStatusIsFinal
  StatusAnswers
  ResultWhole
  NoSessionForgotten
  NoJobLeftInSession

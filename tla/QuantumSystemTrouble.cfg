\* Every trouble, two retries.
SPECIFICATION FairSpec
CONSTANTS
  Jobs = {j1, j2}
  Retries = 2
  Trouble <- AnyTrouble
  NoJob = NoJob
INVARIANTS
  TypeOK
  ContractWithoutRepeats
  OneJobPerStart
  StopSettles
  RenewalHelps
PROPERTIES
  CallsReturn

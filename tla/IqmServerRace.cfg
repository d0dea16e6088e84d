\* What the comment of task_stop says of the race with the end of the job.
SPECIFICATION Spec
CONSTANTS
  Jobs = {j1}
  Trouble <- AnyTrouble
  NoJob = NoJob
INVARIANTS
  StopToleratesRaces

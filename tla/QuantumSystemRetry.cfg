\* A client that repeats a request once, as documented of task_start.
SPECIFICATION Spec
CONSTANTS
  Jobs = {j1}
  Retries = 1
  Trouble <- AnyTrouble
  NoJob = NoJob
INVARIANTS
  StartContract

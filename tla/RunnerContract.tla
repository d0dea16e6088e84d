--------------------------- MODULE RunnerContract ---------------------------
(***************************************************************************)
(* The task runner over any resource that keeps the contract of the trait  *)
(* QuantumResource (src/lib.rs): a terminal status is the truth, a failed  *)
(* call promises nothing, and task_stop that returns Ok leaves no active   *)
(* task.  A resource may keep a task waiting, and may answer late: a task  *)
(* that is said to be pending can have ended since.                        *)
(***************************************************************************)
EXTENDS TaskRunner

VARIABLES
  job,        \* the task of this run: "none", "active", or how it ended
  faulty      \* calls may fail, and a failed call may have had its effect

vars == <<stage, running, asked, answer, started, result, delivered, job, faulty>>

Job == {"none", "active", "dropped"} \cup Verdict

TypeOK ==
  /\ RunnerTypeOK
  /\ job \in Job
  /\ faulty \in BOOLEAN

Init ==
  /\ RunnerInit
  /\ job = "none"
  /\ faulty \in BOOLEAN

-----------------------------------------------------------------------------
(* The resource. *)

\* What happens to the task whoever causes it: the resource begins it, it runs
\* to its end, another user cancels it, it goes with its session.
JobBegins ==
  /\ asked = "start" /\ job = "none"
  /\ job' = "active"
  /\ UNCHANGED <<runner, faulty>>

JobEnds ==
  /\ job = "active"
  /\ job' \in Verdict \cup {"dropped"}
  /\ UNCHANGED <<runner, faulty>>

Start ==
  /\ \/ job # "none" /\ Reply("start", "Ok")
     \/ (faulty \/ job = "none") /\ Reply("start", "Err")
  /\ UNCHANGED <<job, faulty>>

Status ==
  /\ \/ job \in Verdict /\ Reply("status", job)
     \/ Reply("status", "Pending")
     \/ (faulty \/ job \notin {"active"} \cup Verdict) /\ Reply("status", "Err")
  /\ UNCHANGED <<job, faulty>>

\* A result may be gone: it expires, or was taken by somebody else.
Result ==
  /\ \/ job = "Completed" /\ Reply("result", "Ok")
     \/ Reply("result", "Err")
  /\ UNCHANGED <<job, faulty>>

Logs ==
  /\ \E a \in {"Ok", "Err"} : Reply("logs", a)
  /\ UNCHANGED <<job, faulty>>

\* task_stop.  A cancellation that takes effect is JobEnds.
Stop ==
  /\ \/ job # "active" /\ Reply("stop", "Ok")
     \/ (faulty \/ job = "dropped") /\ Reply("stop", "Err")
  /\ UNCHANGED <<job, faulty>>

Answers == Start \/ Status \/ Result \/ Logs \/ Stop

Next ==
  \/ RunnerNext /\ UNCHANGED <<job, faulty>>
  \/ JobBegins \/ JobEnds \/ Answers

Spec == Init /\ [][Next]_vars

-----------------------------------------------------------------------------
(* Properties. *)

\* A run that succeeds has delivered the result of a task that completed.
SuccessIsDelivery ==
  stage = "exited" /\ result = "Ok" => delivered /\ job = "Completed"

\* Over a resource whose calls do not fail, a run that ends on its own leaves no
\* active task of its own behind: whatever happens between task_start and the
\* end, an unwritable output, a signal, a failed result, the task is stopped.
NoTaskLeftBehind ==
  stage = "exited" /\ started /\ ~faulty => job # "active"

\* A signal ends the run, for which it is enough that every call returns; and the
\* end of the task ends it, whichever way: calls of task_status that fail are tried
\* again until one tells the end.
RunEnds == (~running \/ job \in Verdict) ~> Dead
=============================================================================

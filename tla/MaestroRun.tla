----------------------------- MODULE MaestroRun -----------------------------
(***************************************************************************)
(* The task runner on a Maestro Local resource: TaskRunner's calls are the *)
(* calls of the MaestroLocal instance Runner, in the session that Slurm    *)
(* acquired for the job.  Other instances share the session.               *)
(***************************************************************************)
EXTENDS MaestroLocal

CONSTANT Runner     \* the instance the task runner uses

ASSUME RunnerAssumption == Runner \in Clients /\ ~Reuse

VARIABLES
  stage, running, asked, answer, started, result, delivered,
  jobId       \* what task_start returned

R == INSTANCE TaskRunner

runVars == <<stage, running, asked, answer, started, result, delivered, jobId>>
allVars == <<live, opened, task, gen, fate, recorded, session, cache, handle, pc, call, out,
             stage, running, asked, answer, started, result, delivered, jobId>>

RunInit ==
  /\ Init
  /\ R!RunnerInit
  /\ jobId = NoKey

-----------------------------------------------------------------------------
(* The runner's calls are calls of the instance. *)

\* A step of the process that calls op begins the call of the instance.
\* task_logs reads the diagnostics and changes nothing.
Begin(op) ==
  \/ op = "start" /\ (StartTaskCall(Runner) \/ RejectStart(Runner))
  \/ op \in {"status", "result", "stop"} /\ Ask(Runner, op, jobId[2])
  \/ op = "logs" /\ UNCHANGED vars

RunnerStep ==
  /\ R!RunnerNext
  /\ UNCHANGED jobId
  /\ \/ asked' = asked /\ UNCHANGED vars
     \/ asked' # asked /\ Begin(asked')

\* How the runner reads what a call returned.
Reading(op, res) ==
  IF op = "status" /\ res \in Terminal THEN res
  ELSE IF op = "status" /\ res \in {"Queued", "Running"} THEN "Pending"
  ELSE IF op # "status" /\ res = "Ok" THEN "Ok"
  ELSE "Err"

\* The call of the instance returns to the runner.
CallReturns ==
  /\ stage # "killed"
  /\ At(Runner, "idle")
  /\ \/ /\ asked \in {"start", "status", "result", "stop"}
        /\ R!Reply(asked, Reading(asked, out[Runner].res))
        /\ jobId' = IF asked = "start" /\ out[Runner].res = "Ok"
                    THEN out[Runner].call.key ELSE jobId
     \/ /\ \E a \in {"Ok", "Err"} : R!Reply("logs", a)
        /\ UNCHANGED jobId
  /\ UNCHANGED vars

\* A process that was killed sends nothing more.
RunnerExchange ==
  /\ stage # "killed"
  /\ Advance(Runner)
  /\ UNCHANGED runVars

Others ==
  /\ Daemon \/ \E d \in Clients \ {Runner} : Advance(d) \/ Use(d)
  /\ UNCHANGED runVars

RunNext == RunnerStep \/ CallReturns \/ RunnerExchange \/ Others

RunSpec == RunInit /\ [][RunNext]_allVars

\* The process runs and its exchanges end.
RunFairSpec ==
  /\ RunSpec
  /\ WF_allVars(R!Proceed /\ RunnerStep)
  /\ WF_allVars(CallReturns)
  /\ WF_allVars(RunnerExchange)

-----------------------------------------------------------------------------
(* Properties. *)

\* The task of this run, from the moment the daemon created it.
RunKey ==
  IF started THEN jobId
  ELSE IF call[Runner].op = "start" /\ call[Runner].made THEN call[Runner].key
  ELSE IF out[Runner].call.op = "start" /\ out[Runner].call.made THEN out[Runner].call.key
  ELSE NoKey

RunJob == IF RunKey = NoKey THEN "none" ELSE fate[RunKey][1]

\* A Maestro Local resource keeps the contract that the runner relies on,
\* whatever happens between two exchanges of a call: a success is the delivery
\* of the result of a task that completed, and task_stop means what it says.
Contract == INSTANCE RunnerContract WITH job <- RunJob, faulty <- TRUE
RunKeepsContract == Contract!Spec

\* When every exchange is answered and no cancellation refused, a run that ends
\* on its own leaves no active task behind, not even one whose submission
\* failed half-way.
RunLeavesNothing ==
  stage = "exited" /\ Trouble = {} => RunJob # "active"

\* The runner polls a task of which the daemon knows nothing any more: its
\* session is gone, or another instance has taken its result.
PollsForgotten ==
  /\ RunKey \in Key
  /\ task[RunKey] = "absent" /\ RunKey \notin recorded
  /\ stage \in {"polling", "asking", "sleeping"}

\* A run ends when its task has ended, whichever way.  Only a task the daemon
\* has forgotten is polled until a signal comes: task_status fails, and an
\* error of task_status is tried again.
EndedTaskEndsRun ==
  RunJob \in Terminal ~> R!Dead \/ PollsForgotten
=============================================================================

----------------------------- MODULE TaskRunner -----------------------------
(***************************************************************************)
(* qrmi_task_runner (src/bin/task_runner.rs): the process that Slurm       *)
(* starts for one payload.  It starts one task on a resource, polls it,    *)
(* writes the result, and always stops the task.  The task that handles    *)
(* signals runs beside it and shares the flag IS_RUNNING.                  *)
(*                                                                         *)
(* The calls of the resource are asked and answer: the runner asks, the    *)
(* resource answers when it likes (an .await of the runner).  Modules that *)
(* EXTEND or INSTANCE this one say who answers.                            *)
(***************************************************************************)

VARIABLES
  stage,      \* where the process is
  running,    \* IS_RUNNING
  asked,      \* the call of the resource under way
  answer,     \* what the last call returned
  started,    \* task_start returned an identifier
  result,     \* what the polling block returned
  delivered   \* the task's result is in the output

runner == <<stage, running, asked, answer, started, result, delivered>>

Stage == {"setup", "starting", "naming", "polling", "asking", "fetching", "writing",
          "sleeping", "reporting", "cleaning", "exited", "killed"}
Verdict == {"Completed", "Failed", "Cancelled"}
Answer == {"none", "Ok", "Err", "Pending"} \cup Verdict

RunnerTypeOK ==
  /\ stage \in Stage
  /\ running \in BOOLEAN
  /\ asked \in {"none", "start", "status", "result", "logs", "stop"}
  /\ answer \in Answer
  /\ started \in BOOLEAN
  /\ result \in {"none", "Ok", "Err"}
  /\ delivered \in BOOLEAN

RunnerInit ==
  /\ stage = "setup"
  /\ running = TRUE
  /\ asked = "none" /\ answer = "none"
  /\ started = FALSE
  /\ result = "none"
  /\ delivered = FALSE

Dead == stage \in {"exited", "killed"}

-----------------------------------------------------------------------------
(* How the process moves. *)

Call(op, step) ==
  /\ stage' = step
  /\ asked' = op
  /\ answer' = "none"

\* The call of stage step has returned one of replies.
Returned(step, replies) ==
  /\ stage = step
  /\ asked = "none"
  /\ answer \in replies

Move(step) ==
  /\ stage' = step
  /\ UNCHANGED <<asked, answer>>

\* The polling block returns an error: the logs of the task are asked for.
Fail ==
  /\ result' = "Err"
  /\ Call("logs", "reporting")

-----------------------------------------------------------------------------
(* main *)

\* The output file, the environment, the payload or the resource is unusable:
\* main returns before a task exists.
Reject ==
  /\ stage = "setup"
  /\ Move("exited")
  /\ result' = "Err"
  /\ UNCHANGED <<running, started, delivered>>

Launch ==
  /\ stage = "setup"
  /\ Call("start", "starting")
  /\ UNCHANGED <<running, started, result, delivered>>

\* handle_signals: from Signals::new until run_task has returned.
Signal ==
  /\ stage # "setup" /\ ~Dead
  /\ running' = FALSE
  /\ UNCHANGED <<stage, asked, answer, started, result, delivered>>

\* SIGKILL or SIGINT, or SIGTERM before Signals::new: nothing is cleaned up.
Kill ==
  /\ ~Dead
  /\ Move("killed")
  /\ UNCHANGED <<running, started, result, delivered>>

-----------------------------------------------------------------------------
(* run_task *)

StartRefused ==
  /\ Returned("starting", {"Err"})
  /\ Move("exited")
  /\ result' = "Err"
  /\ UNCHANGED <<running, started, delivered>>

StartAccepted ==
  /\ Returned("starting", {"Ok"})
  /\ Move("naming")
  /\ started' = TRUE
  /\ UNCHANGED <<running, result, delivered>>

\* The identifier is written to the output, which may fail.
NameTask ==
  /\ stage = "naming"
  /\ \/ /\ Move("polling")
        /\ UNCHANGED result
     \/ Fail
  /\ UNCHANGED <<running, started, delivered>>

\* MUTANT of Poll: the signal is not looked at.
PollOn ==
  /\ stage = "polling"
  /\ Call("status", "asking")
  /\ UNCHANGED <<running, started, result, delivered>>

Poll ==
  /\ stage = "polling"
  /\ \/ /\ running
        /\ Call("status", "asking")
        /\ UNCHANGED result
     \/ /\ ~running
        /\ Fail
  /\ UNCHANGED <<running, started, delivered>>

\* MUTANT of Judge: the status is returned for an error.
JudgeReturnsStatus ==
  /\ \/ /\ Returned("asking", {"Completed"})
        /\ Call("result", "fetching")
        /\ UNCHANGED result
     \/ /\ Returned("asking", {"Failed", "Cancelled"})
        /\ result' = answer
        /\ Call("logs", "reporting")
     \/ /\ Returned("asking", {"Pending", "Err"})
        /\ Move("sleeping")
        /\ UNCHANGED result
  /\ UNCHANGED <<running, started, delivered>>

\* Only a terminal status ends the polling; an error is tried again.
Judge ==
  /\ \/ /\ Returned("asking", {"Completed"})
        /\ Call("result", "fetching")
        /\ UNCHANGED result
     \/ /\ Returned("asking", {"Failed", "Cancelled"})
        /\ Fail
     \/ /\ Returned("asking", {"Pending", "Err"})
        /\ Move("sleeping")
        /\ UNCHANGED result
  /\ UNCHANGED <<running, started, delivered>>

Wake ==
  /\ stage = "sleeping"
  /\ Move("polling")
  /\ UNCHANGED <<running, started, result, delivered>>

Fetched ==
  /\ \/ /\ Returned("fetching", {"Ok"})
        /\ Move("writing")
        /\ UNCHANGED result
     \/ /\ Returned("fetching", {"Err"})
        /\ Fail
  /\ UNCHANGED <<running, started, delivered>>

\* The note "Wrote output to ..." may fail after the file was written.
WriteResult ==
  /\ stage = "writing"
  /\ \/ /\ delivered' = TRUE
        /\ result' = "Ok"
        /\ Call("stop", "cleaning")
     \/ /\ delivered' \in BOOLEAN
        /\ Fail
  /\ UNCHANGED <<running, started>>

\* The logs are printed, or their absence is: the task is stopped either way.
Report ==
  /\ Returned("reporting", {"Ok", "Err"})
  /\ Call("stop", "cleaning")
  /\ UNCHANGED <<running, started, result, delivered>>

\* An error of task_stop is printed, and result stays what it was.
Clean ==
  /\ Returned("cleaning", {"Ok", "Err"})
  /\ Move("exited")
  /\ UNCHANGED <<running, started, result, delivered>>

\* The steps of the process itself, fair because its threads run.
Proceed ==
  \/ StartRefused \/ StartAccepted \/ NameTask \/ Poll \/ Judge \/ Wake
  \/ Fetched \/ WriteResult \/ Report \/ Clean

RunnerNext == Reject \/ Launch \/ Proceed \/ Signal \/ Kill

\* The resource returns a from the call op.
Reply(op, a) ==
  /\ asked = op
  /\ asked' = "none"
  /\ answer' = a
  /\ UNCHANGED <<stage, running, started, result, delivered>>
=============================================================================

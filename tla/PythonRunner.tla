---------------------------- MODULE PythonRunner ----------------------------
(***************************************************************************)
(* The task runner in Python (python/qrmi/tools/task_runner/main.py).  It  *)
(* moves through the stages of TaskRunner, but the handlers of SIGTERM and *)
(* SIGCONT are there from the constructor on, and SIGINT raises            *)
(* KeyboardInterrupt between two steps: the finally block still cleans up. *)
(***************************************************************************)
EXTENDS TaskRunner

VARIABLE lost     \* history: an interrupt came where no cleanup follows

pyRunner == <<runner, lost>>

-----------------------------------------------------------------------------
(* run *)

\* The finally block, without and with an exception on the way: _cleanup has
\* nothing to stop when task_start has not returned.
Finally == Call("stop", "cleaning")

\* The except block: _report_failure.
Except ==
  /\ result' = "Err"
  /\ Call("logs", "reporting")

\* _signal_handler.
SignalHandler ==
  /\ ~Dead
  /\ running' = FALSE
  /\ UNCHANGED <<stage, asked, answer, started, result, delivered, lost>>

PyKill ==
  /\ ~Dead
  /\ Move("killed")
  /\ UNCHANGED <<running, started, result, delivered, lost>>

\* KeyboardInterrupt is no Exception.  A call of the resource returns first.
\* Between task_start and the assignment of its identifier, or with a second
\* interrupt in the finally block, nothing stops the task.
Interrupt ==
  /\ ~Dead /\ asked = "none"
  /\ result' = "Err"
  /\ \/ /\ stage \in {"setup", "starting", "naming", "cleaning"}
        /\ Move("exited")
        /\ lost' = (stage \in {"starting", "naming"})
     \/ /\ stage \in {"polling", "asking", "sleeping", "fetching", "writing", "reporting"}
        /\ \/ Finally /\ UNCHANGED lost
           \/ Move("exited") /\ lost' = TRUE
  /\ UNCHANGED <<running, started, delivered>>

-----------------------------------------------------------------------------
(* _run *)

Begin ==
  /\ stage = "setup"
  /\ \/ /\ Call("start", "starting")
        /\ UNCHANGED result
     \/ /\ Move("exited")
        /\ result' = "Err"
  /\ UNCHANGED <<running, started, delivered, lost>>

\* An error of task_start: there is no identifier to report on or to stop.
Refused ==
  /\ Returned("starting", {"Err"})
  /\ Move("exited")
  /\ result' = "Err"
  /\ UNCHANGED <<running, started, delivered, lost>>

Accepted ==
  /\ Returned("starting", {"Ok"})
  /\ Move("naming")
  /\ started' = TRUE
  /\ UNCHANGED <<running, result, delivered, lost>>

\* self._task_id is assigned.
Assign ==
  /\ stage = "naming"
  /\ Move("polling")
  /\ UNCHANGED <<running, started, result, delivered, lost>>

While ==
  /\ stage = "polling"
  /\ \/ running /\ Call("status", "asking") /\ UNCHANGED result
     \/ ~running /\ Except
  /\ UNCHANGED <<running, started, delivered, lost>>

Look ==
  /\ \/ /\ Returned("asking", {"Completed"})
        /\ Call("result", "fetching")
        /\ UNCHANGED result
     \/ /\ Returned("asking", {"Failed", "Cancelled"})
        /\ Except
     \/ /\ Returned("asking", {"Pending", "Err"})
        /\ Move("sleeping")
        /\ UNCHANGED result
  /\ UNCHANGED <<running, started, delivered, lost>>

Sleep ==
  /\ stage = "sleeping"
  /\ Move("polling")
  /\ UNCHANGED <<running, started, result, delivered, lost>>

Fetch ==
  /\ \/ /\ Returned("fetching", {"Ok"})
        /\ Move("writing")
        /\ UNCHANGED result
     \/ /\ Returned("fetching", {"Err"})
        /\ Except
  /\ UNCHANGED <<running, started, delivered, lost>>

Write ==
  /\ stage = "writing"
  /\ \/ /\ delivered' = TRUE
        /\ result' = "Ok"
        /\ Finally
     \/ /\ delivered' \in BOOLEAN
        /\ Except
  /\ UNCHANGED <<running, started, lost>>

\* Logs that cannot be had are no reason not to clean up.
ReportFailure ==
  /\ Returned("reporting", {"Ok", "Err"})
  /\ Finally
  /\ UNCHANGED <<running, started, result, delivered, lost>>

Cleanup ==
  /\ Returned("cleaning", {"Ok", "Err"})
  /\ Move("exited")
  /\ UNCHANGED <<running, started, result, delivered, lost>>

PyProceed ==
  Begin \/ Refused \/ Accepted \/ Assign \/ While \/ Look \/ Sleep \/ Fetch \/ Write
    \/ ReportFailure \/ Cleanup

PyRunnerNext == PyProceed \/ SignalHandler \/ PyKill \/ Interrupt
=============================================================================

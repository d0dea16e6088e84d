-------------------------- MODULE PulserConnection --------------------------
(***************************************************************************)
(* PulserQRMIConnection (python/qrmi/pulser/connection.py): a batch of     *)
(* Pulser is a list of tasks, and its identifier spells them.  Every call  *)
(* goes through the tasks of a batch one request at a time, while the      *)
(* resource ends tasks.                                                    *)
(***************************************************************************)
EXTENDS Naturals, SequencesExt

CONSTANTS
  Terminal,     \* the final states of a task
  Width,        \* bound: the tasks of a batch, its job_params
  MaxTasks      \* bound: the tasks that are ever started

VARIABLES
  fate,         \* the tasks of the resource, in the order of their start
  batch,        \* _current_batch_id
  op,           \* the call of the user under way
  left,         \* the tasks that the call has still to ask for
  seen,         \* what it was told of the others
  failed,       \* the tasks whose task_stop failed, which was logged
  verdict       \* what the last call returned: "raised", or a BatchStatus, ...

pulserVars == <<fate, batch, op, left, seen, failed, verdict>>

BatchStatus == {"PENDING", "RUNNING", "DONE", "CANCELED", "ERROR"}

PulserTypeOK ==
  /\ fate \in Seq({"active"} \cup Terminal) /\ Len(fate) <= MaxTasks
  /\ {batch, left} \subseteq Seq(DOMAIN fate)
  /\ op \in {"none", "submit", "wait", "cancel_batch_jobs", "get_batch_status", "fetch_result"}
  /\ seen \in Seq({"Pending"} \cup Terminal)
  /\ failed \subseteq DOMAIN fate
  /\ verdict \in {"none", "raised", "submitted", "cancelled", "results"} \cup BatchStatus

PulserInit ==
  /\ fate = <<>> /\ batch = <<>>
  /\ op = "none" /\ left = <<>> /\ seen = <<>>
  /\ failed = {} /\ verdict = "none"

PulserTaskEnds ==
  /\ \E t \in DOMAIN fate :
       /\ fate[t] = "active"
       /\ \E v \in Terminal : fate' = [fate EXCEPT ![t] = v]
  /\ UNCHANGED <<batch, op, left, seen, failed, verdict>>

-----------------------------------------------------------------------------
(* How a call goes on. *)

\* Before the first submission there is no batch, and the call raises at once.
BeginBatch(call) ==
  /\ op = "none" /\ batch # <<>>
  /\ op' = call
  /\ left' = batch
  /\ seen' = <<>> /\ failed' = {} /\ verdict' = "none"
  /\ UNCHANGED <<fate, batch>>

Ends(v) ==
  /\ op' = "none"
  /\ left' = <<>>
  /\ verdict' = v

\* An error of a request ends the call; what was done stays done.
Raises(call) ==
  /\ op = call
  /\ Ends("raised")
  /\ UNCHANGED <<fate, batch, seen, failed>>

\* task_status of the next task: it may answer late.
Asks(a) == a = "Pending" \/ (a \in Terminal /\ fate[Head(left)] = a)

-----------------------------------------------------------------------------
(* submit *)

\* left collects new_job_ids.
submit ==
  /\ op = "none"
  /\ Len(fate) + Width <= MaxTasks
  /\ op' = "submit"
  /\ left' = <<>> /\ seen' = <<>> /\ failed' = {} /\ verdict' = "none"
  /\ UNCHANGED <<fate, batch>>

StartNext ==
  /\ op = "submit" /\ Len(left) < Width
  /\ fate' = Append(fate, "active")
  /\ left' = Append(left, Len(fate) + 1)
  /\ UNCHANGED <<batch, op, seen, failed, verdict>>

\* The batch is the current one before it is waited for.
Submitted ==
  /\ op = "submit" /\ Len(left) = Width
  /\ batch' = left
  /\ \/ op' = "wait" /\ UNCHANGED <<left, verdict>>
     \/ Ends("submitted")
  /\ UNCHANGED <<fate, seen, failed>>

\* _wait_job_execution
WaitNext ==
  /\ op = "wait" /\ left # <<>>
  /\ \E a \in Terminal :
       /\ Asks(a)
       /\ seen' = Append(seen, a)
  /\ left' = Tail(left)
  /\ UNCHANGED <<fate, batch, op, failed, verdict>>

WaitEnds ==
  /\ op = "wait" /\ left = <<>>
  /\ Ends("submitted")
  /\ UNCHANGED <<fate, batch, seen, failed>>

-----------------------------------------------------------------------------
(* cancel_batch_jobs *)

cancel_batch_jobs == BeginBatch("cancel_batch_jobs")

\* MUTANT of StopFails: an error of task_stop ends the loop, as though all were stopped.
StopFailsTheRest(rest) == <<>>

\* An error of task_stop is logged: the other tasks are still to be stopped.
StopFails(rest) == rest

StopNext ==
  /\ op = "cancel_batch_jobs" /\ left # <<>>
  /\ \/ /\ fate' = [fate EXCEPT ![Head(left)] = IF @ = "active" THEN "Cancelled" ELSE @]
        /\ left' = Tail(left)
        /\ UNCHANGED failed
     \/ /\ left' = StopFails(Tail(left))
        /\ failed' = failed \cup {Head(left)}
        /\ UNCHANGED fate
  /\ UNCHANGED <<batch, op, seen, verdict>>

CancelEnds ==
  /\ op = "cancel_batch_jobs" /\ left = <<>>
  /\ Ends("cancelled")
  /\ UNCHANGED <<fate, batch, seen, failed>>

-----------------------------------------------------------------------------
(* _get_batch_status, _fetch_result *)

get_batch_status == BeginBatch("get_batch_status")
fetch_result == BeginBatch("fetch_result")

AskNext ==
  /\ op \in {"get_batch_status", "fetch_result"} /\ left # <<>>
  /\ \E a \in {"Pending"} \cup Terminal :
       /\ Asks(a)
       /\ seen' = Append(seen, a)
  /\ left' = Tail(left)
  /\ UNCHANGED <<fate, batch, op, failed, verdict>>

All(states) == ToSet(seen) \subseteq states

StatusOfBatch ==
  CASE All({"Pending"}) -> "PENDING"
    [] All({"Cancelled"}) -> "CANCELED"
    [] All({"Failed"}) -> "ERROR"
    [] "Pending" \in ToSet(seen) /\ ~All({"Pending"}) -> "RUNNING"
    [] OTHER -> "DONE"

StatusEnds ==
  /\ op = "get_batch_status" /\ left = <<>>
  /\ Ends(StatusOfBatch)
  /\ UNCHANGED <<fate, batch, seen, failed>>

\* Every result, or none: a result that cannot be read is one that is not there.
ResultsEnd ==
  /\ op = "fetch_result" /\ left = <<>> /\ All({"Completed"})
  /\ Ends("results")
  /\ UNCHANGED <<fate, batch, seen, failed>>

PulserNext ==
  \/ PulserTaskEnds
  \/ \E call \in {"submit", "wait", "get_batch_status", "fetch_result"} : Raises(call)
  \/ submit \/ StartNext \/ Submitted \/ WaitNext \/ WaitEnds
  \/ cancel_batch_jobs \/ StopNext \/ CancelEnds
  \/ get_batch_status \/ fetch_result \/ AskNext \/ StatusEnds \/ ResultsEnd

-----------------------------------------------------------------------------
(* Properties. *)

\* cancel_batch_jobs stops every task of the current batch whose task_stop does
\* not fail; an error of one keeps it from none of the others.  Only the tasks of
\* a submission that failed half-way are out of its reach.
CancelReachesAll ==
  verdict = "cancelled" => \A t \in ToSet(batch) \ failed : fate[t] # "active"

\* A batch that is said to have ended has, whatever its tasks do while they are
\* asked for one by one, and results are those of tasks that completed.
BatchTruthful ==
  LET states == {fate[t] : t \in ToSet(batch)}
  IN /\ verdict \in {"DONE", "CANCELED", "ERROR"} => "active" \notin states
     /\ verdict = "CANCELED" => states = {"Cancelled"}
     /\ verdict = "ERROR" => states = {"Failed"}
     /\ verdict = "results" => states = {"Completed"}
=============================================================================

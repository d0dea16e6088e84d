------------------------------ MODULE Oqtopus ------------------------------
(***************************************************************************)
(* The OQTOPUS resource (src/oqtopus/lib.rs) over the bridge               *)
(* dependencies/oqtopus, which calls the Python package oqtopus_client.    *)
(* That package repeats a request when the configuration says so; every    *)
(* error of it, and of the bridge, becomes Other.                          *)
(***************************************************************************)
EXTENDS VendorCall

VARIABLE retries     \* QRMI_OQTOPUS_RETRY_METHODS

vars == <<job, pc, call, out, retries>>

TypeOK ==
  /\ CallTypeOK
  /\ pc \in {"idle", "submit_job", "cancel_job", "get_job_status", "get_job_result_json"}
  /\ retries \in SUBSET {"GET", "POST"}

OqtopusInit == retries \in SUBSET {"GET", "POST"}

\* A request that the package gives up.
Fail == Fails({"Other"})

-----------------------------------------------------------------------------
(* task_start *)

\* The payload is of another vendor, or its job_spec is no JSON object.
RejectStart == Reject({"Other"}) /\ UNCHANGED retries
TaskStart == Begin("submit_job", Starting) /\ UNCHANGED retries

\* MUTANT of Repeats: every method is repeated.
RepeatsAny(method) == TRUE

Repeats(method) == method \in retries

\* The reply of a submission is lost, and the submission repeated.
Resubmits(made) ==
  /\ Repeats("POST")
  /\ "lost" \in Trouble
  /\ made.made < 2
  /\ call' = [made EXCEPT !.met = @ \cup {"lost"}]
  /\ UNCHANGED <<pc, out>>

SubmitJob ==
  /\ pc = "submit_job"
  /\ UNCHANGED retries
  /\ \/ Creates("queued", ReturnsOk)
     \/ Creates("queued", LosesReply)
     \/ Creates("queued", Resubmits)
     \/ Fail

-----------------------------------------------------------------------------
(* task_stop, task_status, task_result *)

TaskStop == BeginAbout("stop", "cancel_job") /\ UNCHANGED retries
TaskStatus == BeginAbout("status", "get_job_status") /\ UNCHANGED retries
TaskResult == BeginAbout("result", "get_job_result_json") /\ UNCHANGED retries

\* A repeated cancellation finds the job cancelled.
CancelJob ==
  /\ pc = "cancel_job"
  /\ UNCHANGED retries
  /\ \/ Cancels("Cancelled", {"Other"})
     \/ Fail
     \/ /\ Repeats("POST")
        /\ "lost" \in Trouble
        /\ job[call.id] \in Active
        /\ job' = [job EXCEPT ![call.id] = "Cancelled"]
        /\ call' = Met("lost")
        /\ UNCHANGED <<pc, out>>

\* map_job_status: submitted and ready are queued, succeeded is Completed.
StatusOf(st) ==
  CASE st = "queued" -> "Queued"
    [] st = "running" -> "Running"
    [] st \in Terminal -> st

GetJobStatus ==
  LET then(st) == Return(StatusOf(st))
  IN /\ pc = "get_job_status"
     /\ UNCHANGED retries
     /\ Gets(then, {"Other"}) \/ Fail

GetJobResult ==
  LET then(st) == Return(IF st = "Completed" THEN "Ok" ELSE "Other")
  IN /\ pc = "get_job_result_json"
     /\ UNCHANGED retries
     /\ Gets(then, {"Other"}) \/ Fail

Next ==
  \/ Progress(Moves) /\ UNCHANGED retries
  \/ RejectStart \/ TaskStart \/ SubmitJob
  \/ TaskStop \/ CancelJob \/ TaskStatus \/ GetJobStatus
  \/ TaskResult \/ GetJobResult
=============================================================================

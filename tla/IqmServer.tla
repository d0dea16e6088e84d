----------------------------- MODULE IqmServer -----------------------------
(***************************************************************************)
(* The IQM Server resource (src/iqm/server.rs, src/iqm/error.rs) over      *)
(* iqm_client, which repeats nothing: a call is one request, or two for    *)
(* task_stop, or three concurrent ones for task_result.                    *)
(***************************************************************************)
EXTENDS VendorCall

VARIABLES
  yields,     \* the artifacts that a job has once it is completed
  part        \* what task_result has received of each artifact

iqmVars == <<yields, part>>
vars == <<job, pc, call, out, yields, part>>

Artifact == {"measurements", "measurement_counts"}
Part == {"unread", "value", "null", "error"}
Unread == [a \in Artifact |-> "unread"]

TypeOK ==
  /\ CallTypeOK
  /\ pc \in {"idle", "submit", "get", "cancel", "artifacts"}
  /\ yields \in [Jobs -> SUBSET Artifact]
  /\ part \in [Artifact -> Part]

IqmInit ==
  /\ yields \in [Jobs -> SUBSET Artifact \ {{}}]
  /\ part = Unread

Init == CallInit /\ IqmInit

\* classify: 403, other statuses, and failures without a status.
Unclassified == "Other"

\* What a request that failed without effect becomes.
FailureKinds == {"InvalidInput", "AuthenticationFailed", Unclassified}

-----------------------------------------------------------------------------
(* task_start *)

\* The payload is of another vendor, or is not JSON.
RejectStart ==
  /\ Reject({"UnsupportedPayload", "InvalidInput"})
  /\ UNCHANGED iqmVars

TaskStart ==
  /\ Begin("submit", Starting)
  /\ UNCHANGED iqmVars

LosesSubmitReply(made) ==
  /\ "lost" \in Trouble
  /\ ReturnFrom([made EXCEPT !.met = @ \cup {"lost"}], Unclassified)

JobSubmit ==
  /\ pc = "submit"
  /\ UNCHANGED iqmVars
  /\ \/ Creates("queued", ReturnsOk)
     \/ Creates("queued", LosesSubmitReply)
     \/ Fails(FailureKinds \cup {"ResourceNotFound"})

-----------------------------------------------------------------------------
(* task_status, task_stop, task_logs *)

TaskStatus == BeginAbout("status", "get") /\ UNCHANGED iqmVars
TaskStop == BeginAbout("stop", "get") /\ UNCHANGED iqmVars
TaskLogs == BeginAbout("logs", "get") /\ UNCHANGED iqmVars

\* MUTANT of StatusOf: the server's own status is passed on.
StatusAsIs(st) == st

StatusOf(st) ==
  CASE st = "queued" -> "Queued"
    [] st = "running" -> "Running"
    [] st \in Terminal -> st

\* MUTANT of MustCancel: a job that waits is left alone.
MustCancelRunning(st) == st = "running"

MustCancel(st) == st \in Active

\* get_job_v1 waits for the end of the job, for up to 30 seconds: the status is
\* that of the moment the server answers.
GetJob ==
  LET then(st) ==
        CASE call.op = "status" -> Return(StatusOf(st))
          [] call.op = "stop" -> IF MustCancel(st) THEN Goto("cancel") ELSE Return("Ok")
          [] call.op = "logs" -> Return("Ok")
  IN /\ pc = "get"
     /\ UNCHANGED iqmVars
     /\ Gets(then, {"TaskNotFound"}) \/ Fails(FailureKinds)

\* The server answers 403 (IllegalJobStatus) when the job has ended.
CancelJob ==
  /\ pc = "cancel"
  /\ UNCHANGED iqmVars
  /\ Cancels("Cancelled", {Unclassified}) \/ Fails(FailureKinds)

-----------------------------------------------------------------------------
(* task_result *)

TaskResult ==
  /\ BeginAbout("result", "artifacts")
  /\ part' = Unread
  /\ UNCHANGED yields

\* MUTANT of Received: whatever fails is taken for a missing artifact.
ReceivedOrNull == {"null"}

\* parse_optional_artifact: only a 404 stands for a missing artifact.
Received == {"error"}

\* One of the concurrent requests is answered.
GetArtifacts(a) ==
  /\ pc = "artifacts"
  /\ part[a] = "unread"
  /\ \/ /\ job[call.id] = "Completed" /\ a \in yields[call.id]
        /\ part' = [part EXCEPT ![a] = "value"]
     \/ /\ ~(job[call.id] = "Completed" /\ a \in yields[call.id])
        /\ part' = [part EXCEPT ![a] = "null"]
     \/ /\ Trouble # {}
        /\ \E p \in Received : part' = [part EXCEPT ![a] = p]
  /\ UNCHANGED callVars
  /\ UNCHANGED yields

\* The third request, for the job's metadata, cannot fail the call.
Join ==
  /\ pc = "artifacts"
  /\ \A a \in Artifact : part[a] # "unread"
  /\ IF \E a \in Artifact : part[a] = "error"
     THEN \E res \in FailureKinds : ReturnFrom(Met("failed"), res)
     ELSE Return("Ok")
  /\ UNCHANGED job
  /\ UNCHANGED iqmVars

-----------------------------------------------------------------------------
(* The system. *)

Next ==
  \/ Progress(Moves) /\ UNCHANGED iqmVars
  \/ RejectStart \/ TaskStart \/ JobSubmit
  \/ TaskStatus \/ TaskStop \/ TaskLogs \/ GetJob \/ CancelJob
  \/ TaskResult \/ (\E a \in Artifact : GetArtifacts(a)) \/ Join

Spec == Init /\ [][Next]_vars

-----------------------------------------------------------------------------
(* Properties. *)

\* A job that ends between the look at its status and the cancellation is no
\* error of task_stop.
StopToleratesRaces ==
  (out.call.op = "stop" /\ out.call.met = {}) => out.res \in {"Ok", "TaskNotFound"}

\* The result of a job that was completed when it was asked for is whole: null
\* stands for an artifact that the job does not have, and for nothing else.
ResultWhole ==
  (out.call.op = "result" /\ out.res = "Ok" /\ out.call.ripe /\ pc = "idle")
    => \A a \in Artifact : (part[a] = "value") <=> (a \in yields[out.call.id])
=============================================================================

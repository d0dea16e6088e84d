------------------------------- MODULE Felis -------------------------------
(***************************************************************************)
(* The Alice & Bob Felis resource (src/alice_bob/felis.rs) over            *)
(* alice_bob_felis_client, which repeats nothing.  A job is created first, *)
(* and does not run before its input is uploaded.                          *)
(***************************************************************************)
EXTENDS VendorCall

TypeOK ==
  /\ CallTypeOK
  /\ pc \in {"idle", "create_job", "upload_input", "get_job", "cancel_job",
             "download_output"}

\* classify: 400 and 422, 401, and the rest.
FailureKinds == {"InvalidInput", "AuthenticationFailed", "Other"}

-----------------------------------------------------------------------------
(* task_start *)

\* The payload is of another vendor, or its parameters are not JSON.
RejectStart == Reject({"UnsupportedPayload", "InvalidInput"})

TaskStart == Begin("create_job", Starting)

GoesOn(made) ==
  /\ pc' = "upload_input"
  /\ call' = made
  /\ UNCHANGED out

CreateJob ==
  /\ pc = "create_job"
  /\ \/ Creates("created", GoesOn)
     \/ Creates("created", LosesReply)
     \/ Fails(FailureKinds \cup {"ResourceNotFound"})

\* MUTANT of UploadFailureKinds: the error of the upload is passed on.
UploadFailureAsIs == FailureKinds \cup {"TaskNotFound"}

\* The job exists: whatever went wrong is reported as Other.
UploadFailureKinds == {"Other"}

\* The job may have been cancelled, or have timed out, meanwhile.
UploadInput ==
  /\ pc = "upload_input"
  /\ \/ /\ job[call.id] = "created"
        /\ job' = [job EXCEPT ![call.id] = "queued"]
        /\ Return("Ok") \/ ReturnTroubled("lost", "Other")
     \/ /\ job[call.id] # "created"
        /\ \E res \in UploadFailureKinds : Return(res)
        /\ UNCHANGED job
     \/ Fails(UploadFailureKinds)

-----------------------------------------------------------------------------
(* task_status, task_stop, task_result *)

TaskStatus == BeginAbout("status", "get_job")
TaskStop == BeginAbout("stop", "get_job")
TaskResult == BeginAbout("result", "download_output")

\* The last event of the job.  TIMED_OUT and three stages' failures are Failed.
StatusOf(st) ==
  CASE st \in {"created", "queued"} -> "Queued"
    [] st = "running" -> "Running"
    [] st \in Terminal -> st

\* A job that failed is asked to stop too.
MustCancel(st) == st \notin {"Completed", "Cancelled"}

GetJob ==
  LET then(st) == IF call.op = "status" THEN Return(StatusOf(st))
                  ELSE IF MustCancel(st) THEN Goto("cancel_job") ELSE Return("Ok")
  IN /\ pc = "get_job"
     /\ Gets(then, {"TaskNotFound"}) \/ Fails(FailureKinds)

CancelJob ==
  /\ pc = "cancel_job"
  /\ Cancels("Cancelled", FailureKinds) \/ Fails(FailureKinds)

\* The server has no output of a job that is not completed.
DownloadOutput ==
  LET then(st) == IF st = "Completed" THEN Return("Ok")
                  ELSE \E res \in {"InvalidInput", "TaskNotFound", "Other"} : Return(res)
  IN /\ pc = "download_output"
     /\ Gets(then, {"TaskNotFound"}) \/ Fails(FailureKinds)

-----------------------------------------------------------------------------
(* The system. *)

\* A job that waits for its input times out.
FelisMoves == Moves \cup {<<"created", "Failed">>}

Next ==
  \/ Progress(FelisMoves)
  \/ RejectStart \/ TaskStart \/ CreateJob \/ UploadInput
  \/ TaskStatus \/ TaskStop \/ GetJob \/ CancelJob
  \/ TaskResult \/ DownloadOutput
=============================================================================

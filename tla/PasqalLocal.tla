---------------------------- MODULE PasqalLocal ----------------------------
(***************************************************************************)
(* The Pasqal Local resource (src/pasqal/local.rs) over                    *)
(* pasqal_local_client, and the sessions of the warden.  The client        *)
(* reports every failure as an anyhow error, which becomes Other.          *)
(***************************************************************************)
EXTENDS VendorCall

CONSTANTS
  Sessions,   \* bound: the identifiers of the sessions that are ever created
  NoSession

VARIABLES
  session,    \* the sessions of the warden
  token       \* <backend>_QRMI_JOB_ACQUISITION_TOKEN

localVars == <<session, token>>

TypeOK ==
  /\ CallTypeOK
  /\ pc \in {"idle", "create_session", "revoke_session", "create_job",
             "cancel_job", "get_job", "get_task_logs"}
  /\ session \in [Sessions -> {"absent", "open", "revoked"}]
  /\ token \in Sessions \cup {NoSession}

LocalInit ==
  /\ session = [s \in Sessions |-> "absent"]
  /\ token = NoSession

-----------------------------------------------------------------------------
(* acquire, release *)

Acquire ==
  /\ Begin("create_session", [NoCall EXCEPT !.op = "acquire"])
  /\ UNCHANGED localVars

\* Nothing of the instance changes: what it returns reaches task_start through
\* the environment (Export).
CreateSession ==
  /\ pc = "create_session"
  /\ UNCHANGED <<job, token>>
  /\ \/ \E s \in Sessions :
          /\ session[s] = "absent"
          /\ session' = [session EXCEPT ![s] = "open"]
          /\ Return("Ok") \/ ReturnTroubled("lost", "Other")
     \/ Fails({"Other"}) /\ UNCHANGED session

\* Whoever acquired the resource sets the variable, or clears it.
Export ==
  /\ pc = "idle"
  /\ \E s \in Sessions \cup {NoSession} :
        /\ s # NoSession => session[s] # "absent"
        /\ token' = s
  /\ UNCHANGED callVars
  /\ UNCHANGED session

Releasing == [NoCall EXCEPT !.op = "release"]

\* An empty identifier stands for the token of the environment; a release of
\* another session goes the same way.
Release ==
  /\ IF token = NoSession THEN Refuse(Releasing, {"EnvVarNotSet"})
                           ELSE Begin("revoke_session", Releasing)
  /\ UNCHANGED localVars

RevokeSession ==
  /\ pc = "revoke_session"
  /\ UNCHANGED <<job, token>>
  /\ \/ /\ session[token] = "open"
        /\ session' = [session EXCEPT ![token] = "revoked"]
        /\ Return("Ok") \/ ReturnTroubled("lost", "Other")
     \/ /\ session[token] # "open"
        /\ Return("Other")
        /\ UNCHANGED session
     \/ Fails({"Other"}) /\ UNCHANGED session

-----------------------------------------------------------------------------
(* The tasks. *)

\* There is no session, or the payload is of another vendor.
RejectStart ==
  /\ Reject({"UnsupportedPayload"} \cup IF token = NoSession THEN {"EnvVarNotSet"} ELSE {})
  /\ UNCHANGED localVars

TaskStart ==
  /\ token # NoSession
  /\ Begin("create_job", Starting)
  /\ UNCHANGED localVars

\* The warden takes a job in an open session only.
CreateJob ==
  /\ pc = "create_job"
  /\ UNCHANGED localVars
  /\ \/ /\ session[token] = "open"
        /\ Creates("queued", ReturnsOk) \/ Creates("queued", LosesReply)
     \/ /\ session[token] # "open"
        /\ Return("Other")
        /\ UNCHANGED job
     \/ Fails({"Other"})

TaskStop == BeginAbout("stop", "cancel_job") /\ UNCHANGED localVars
TaskStatus == BeginAbout("status", "get_job") /\ UNCHANGED localVars
TaskResult == BeginAbout("result", "get_job") /\ UNCHANGED localVars
TaskLogs == BeginAbout("logs", "get_task_logs") /\ UNCHANGED localVars

CancelJob ==
  /\ pc = "cancel_job"
  /\ Cancels("Cancelled", {"Other"}) \/ Fails({"Other"})
  /\ UNCHANGED localVars

StatusOf(st) ==
  CASE st = "queued" -> "Queued"
    [] st = "running" -> "Running"
    [] st \in Terminal -> st

\* The answer holds the results of a job that is done.
ResultOf(st) == IF st = "Completed" THEN "Ok" ELSE "TaskNotReady"

GetJob ==
  LET then(st) == Return(IF call.op = "status" THEN StatusOf(st) ELSE ResultOf(st))
  IN /\ pc = "get_job"
     /\ Gets(then, {"Other"}) \/ Fails({"Other"})
     /\ UNCHANGED localVars

GetTaskLogs ==
  LET then(st) == Return("Ok")
  IN /\ pc = "get_task_logs"
     /\ Gets(then, {"Other"}) \/ Fails({"Other"})
     /\ UNCHANGED localVars

Next ==
  \/ Progress(Moves) /\ UNCHANGED localVars
  \/ Acquire \/ CreateSession \/ Export \/ Release \/ RevokeSession
  \/ RejectStart \/ TaskStart \/ CreateJob
  \/ TaskStop \/ CancelJob \/ TaskStatus \/ TaskResult \/ GetJob
  \/ TaskLogs \/ GetTaskLogs
=============================================================================

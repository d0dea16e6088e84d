--------------------------- MODULE QuantumCompute ---------------------------
(***************************************************************************)
(* The IBM Quantum Compute Service resource                                *)
(* (src/ibm/quantum_compute_service.rs; qiskit_runtime_service.rs is the   *)
(* same code under its older name) over quantum_compute_client.  acquire   *)
(* opens a session of the service, in which later tasks run; release       *)
(* closes it.  The client repeats nothing.                                 *)
(***************************************************************************)
EXTENDS VendorCall

CONSTANTS
  Sessions,   \* bound: the identifiers of the sessions that are ever opened
  NoSession

VARIABLES
  sess,       \* the sessions of the service
  low,        \* those of them that are not closed, and have used up 99 % of their time
  runsIn,     \* the session that each task runs in
  held,       \* session_id
  token,      \* bearer_access_token, by its expiration
  timely,     \* the token had its margin when the running call checked it
  target,     \* the session that the running call works on
  stray       \* history: a session other than the one held was released, or
              \* the reply of a request about a session was lost

computeVars == <<sess, low, runsIn, held, token, timely, target, stray>>

\* "draining": it accepts no jobs (accepting_jobs is false), and closes after
\* the last one.
SessionState == {"absent", "open", "draining", "closed"}

\* "ageing": its remaining life is less than 360 seconds, or a tenth of it.
Token == {"none", "valid", "ageing", "expired"}

TypeOK ==
  /\ CallTypeOK
  /\ pc \in {"idle", "check_token", "get_session", "list_jobs", "close_session",
             "update_session", "create_session", "create_job", "get_job",
             "cancel_job", "get_results", "get_logs", "get_backend"}
  /\ sess \in [Sessions -> SessionState]
  /\ low \in SUBSET Sessions
  /\ runsIn \in [Jobs -> Sessions \cup {NoSession}]
  /\ {held, target} \subseteq Sessions \cup {NoSession}
  /\ token \in Token
  /\ {timely, stray} \subseteq BOOLEAN

\* The settings may name a session that was acquired before.
ComputeInit ==
  /\ held \in Sessions \cup {NoSession}
  /\ sess = [s \in Sessions |-> IF s = held THEN "open" ELSE "absent"]
  /\ low = {}
  /\ runsIn = [j \in Jobs |-> NoSession]
  /\ token = "none"
  /\ timely = FALSE
  /\ target = NoSession
  /\ stray = FALSE

Pending(s) == {j \in Jobs : job[j] \in Active /\ runsIn[j] = s}

-----------------------------------------------------------------------------
(* The service on its own. *)

\* A token keeps its margin for longer than a call takes.
TokenAges ==
  /\ \/ token = "valid" /\ token' = "ageing"
     \/ token = "ageing" /\ ~timely /\ token' = "expired"
  /\ UNCHANGED callVars
  /\ UNCHANGED <<sess, low, runsIn, held, timely, target, stray>>

\* Time passes for a session.
SessionAges ==
  /\ \E s \in Sessions :
       /\ sess[s] = "open"
       /\ s \notin low
       /\ low' = low \cup {s}
  /\ UNCHANGED callVars
  /\ UNCHANGED <<sess, runsIn, held, token, timely, target, stray>>

\* A session ends with its time, or after the last job.
SessionEnds ==
  /\ \E s \in Sessions :
       /\ Pending(s) = {}
       /\ sess[s] = "draining" \/ (sess[s] = "open" /\ s \in low)
       /\ sess' = [sess EXCEPT ![s] = "closed"]
       /\ low' = low \ {s}
  /\ UNCHANGED callVars
  /\ UNCHANGED <<runsIn, held, token, timely, target, stray>>

-----------------------------------------------------------------------------
(* What every call begins with. *)

\* Where the call goes on after check_token; acquire may release the session it
\* holds first.
FirstRequest ==
  CASE target # NoSession -> "list_jobs"
    [] target = NoSession /\ call.op = "acquire" ->
         IF held = NoSession THEN "create_session" ELSE "get_session"
    [] call.op = "start" -> "create_job"
    [] call.op \in {"stop", "status", "result"} -> "get_job"
    [] call.op = "query" -> "get_backend"

\* MUTANT of NeedsRenewal: a token is renewed when it has expired.
NeedsRenewalLate(t) == t \in {"none", "expired"}

NeedsRenewal(t) == t # "valid"

\* check_token: an error is logged, and the call goes on with the old token.
CheckToken ==
  /\ pc = "check_token"
  /\ pc' = FirstRequest
  /\ UNCHANGED <<job, out, sess, low, runsIn, held, target, stray>>
  /\ \/ /\ token' = IF NeedsRenewal(token) THEN "valid" ELSE token
        /\ UNCHANGED call
     \/ /\ NeedsRenewal(token)
        /\ "renewal" \in Trouble
        /\ call' = Met("renewal")
        /\ UNCHANGED token
  /\ timely' = (token' = "valid")

\* The service knows who asks.
Authorized == token \in {"valid", "ageing"}

\* classify: 400, 401 and the rest, a session that is not there included.
FailureKinds == {"InvalidInput", "AuthenticationFailed", "Other"}

Ends == timely' = FALSE /\ target' = NoSession
Stays == UNCHANGED <<timely, target>>
ServiceStays == UNCHANGED <<sess, low, runsIn, held, token, stray>>

\* A request that has no effect.
Misses(kinds) ==
  /\ UNCHANGED job
  /\ IF Authorized THEN \E res \in kinds : ReturnTroubled("failed", res)
                   ELSE Return("AuthenticationFailed")
  /\ Ends
  /\ ServiceStays

BeginCall(begun) == Begin("check_token", begun) /\ UNCHANGED computeVars

-----------------------------------------------------------------------------
(* acquire *)

Acquire == BeginCall([NoCall EXCEPT !.op = "acquire"])

\* MUTANT of Replaces: the session that has run low is forgotten.
ReplacesAtOnce == "create_session"

\* Where acquire goes when the session has less than a hundredth of its time
\* left: it is released first.
Replaces == "check_token"

\* The times are optional in the answer: without them, as the service may answer
\* of a closed session, the session passes for one that has time left.  Its state
\* is not looked at.
GetSession ==
  /\ pc = "get_session"
  /\ \/ /\ Authorized
        /\ held \notin low \/ sess[held] = "closed"
        /\ Return("Ok")
        /\ Ends
        /\ UNCHANGED job
        /\ ServiceStays
     \/ /\ Authorized
        /\ held \in low \/ sess[held] = "closed"
        /\ Goto(Replaces)
        /\ target' = IF Replaces = "check_token" THEN held ELSE NoSession
        /\ UNCHANGED <<job, timely>>
        /\ ServiceStays
     \/ Misses(FailureKinds)

CreateSession ==
  /\ pc = "create_session"
  /\ \/ /\ Authorized
        /\ UNCHANGED <<job, low, runsIn, token>>
        /\ Ends
        /\ \E s \in Sessions :
             /\ sess[s] = "absent"
             /\ sess' = [sess EXCEPT ![s] = "open"]
             /\ \/ Return("Ok") /\ held' = s /\ UNCHANGED stray
                \/ ReturnTroubled("lost", "Other") /\ stray' = TRUE /\ UNCHANGED held
     \/ Misses(FailureKinds)

-----------------------------------------------------------------------------
(* release *)

\* Any acquisition token is taken.
Release ==
  /\ \E s \in Sessions :
       /\ sess[s] # "absent"
       /\ target' = s
       /\ stray' = (stray \/ s # held)
  /\ Begin("check_token", [NoCall EXCEPT !.op = "release"])
  /\ UNCHANGED <<sess, low, runsIn, held, token, timely>>

\* MUTANT of CloseOrUpdate: a session is always closed softly.
UpdateAlways(pending) == "update_session"

\* Closing a session cancels what is pending in it.
CloseOrUpdate(pending) == IF pending # {} THEN "close_session" ELSE "update_session"

ListJobs ==
  /\ pc = "list_jobs"
  /\ \/ /\ Authorized
        /\ Goto(CloseOrUpdate(Pending(target)))
        /\ Stays
        /\ UNCHANGED job
        /\ ServiceStays
     \/ Misses(FailureKinds)

\* The session is released, or has been: the one that is held is forgotten,
\* whichever was released.
Released ==
  /\ held' = NoSession
  /\ target' = NoSession
  /\ IF call.op = "acquire"
     THEN Goto("create_session") /\ UNCHANGED timely
     ELSE Return("Ok") /\ timely' = FALSE
  /\ UNCHANGED stray

ReleaseLost ==
  /\ ReturnTroubled("lost", "Other")
  /\ Ends
  /\ stray' = TRUE
  /\ UNCHANGED held

\* delete_session_close
CloseSession ==
  /\ pc = "close_session"
  /\ \/ /\ Authorized /\ sess[target] # "closed"
        /\ sess' = [sess EXCEPT ![target] = "closed"]
        /\ low' = low \ {target}
        /\ job' = [j \in Jobs |-> IF j \in Pending(target) THEN "Cancelled" ELSE job[j]]
        /\ UNCHANGED <<runsIn, token>>
        /\ Released \/ ReleaseLost
     \/ /\ Authorized /\ sess[target] = "closed"
        /\ Return("Other")
        /\ Ends
        /\ UNCHANGED job
        /\ ServiceStays
     \/ Misses(FailureKinds)

UpdateSession ==
  /\ pc = "update_session"
  /\ \/ /\ Authorized /\ sess[target] # "closed"
        /\ sess' = [sess EXCEPT ![target] = "draining"]
        /\ UNCHANGED <<job, low, runsIn, token>>
        /\ Released \/ ReleaseLost
     \/ /\ Authorized /\ sess[target] = "closed"
        /\ Return("Other")
        /\ Ends
        /\ UNCHANGED job
        /\ ServiceStays
     \/ Misses(FailureKinds)

-----------------------------------------------------------------------------
(* task_start *)

\* The token is checked before the payload is looked at.
RejectStart ==
  /\ pc = "create_job"
  /\ \E res \in {"InvalidInput", "UnsupportedPayload"} : Return(res)
  /\ UNCHANGED job
  /\ Ends
  /\ ServiceStays

TaskStart == BeginCall(Starting)

\* The job runs in the session that is held, if it accepts jobs.
CreateJob ==
  /\ pc = "create_job"
  /\ \/ /\ Authorized
        /\ held # NoSession => sess[held] = "open"
        /\ \E j \in Jobs :
             /\ job[j] = "absent"
             /\ job' = [job EXCEPT ![j] = "queued"]
             /\ runsIn' = [runsIn EXCEPT ![j] = held]
             /\ LET made == [call EXCEPT !.id = j, !.made = @ + 1]
                IN ReturnsOk(made) \/ LosesReply(made)
        /\ Ends
        /\ UNCHANGED <<sess, low, held, token, stray>>
     \/ /\ Authorized
        /\ held # NoSession /\ sess[held] # "open"
        /\ \E res \in {"InvalidInput", "Other"} : Return(res)
        /\ UNCHANGED job
        /\ Ends
        /\ ServiceStays
     \/ Misses(FailureKinds \cup {"ResourceNotFound"})

-----------------------------------------------------------------------------
(* task_stop, task_status, task_result, task_logs *)

BeginTask(op) == \E j \in Jobs : BeginCall(About(op, j))
TaskStop == BeginTask("stop")
TaskStatus == BeginTask("status")
TaskResult == BeginTask("result")

\* task_logs does not check the token.
TaskLogs == BeginAbout("logs", "get_logs") /\ UNCHANGED computeVars

\* A job that was cancelled because it ran too long is cancelled.
StatusOf(st) ==
  CASE st = "queued" -> "Queued"
    [] st = "running" -> "Running"
    [] st \in Terminal -> st

MustCancel(st) == st \in {"queued", "running"}

MayRead(st) == st = "Completed"

GetJob ==
  LET goesOn == \/ call.op = "stop" /\ MustCancel(job[call.id])
                \/ call.op = "result" /\ MayRead(job[call.id])
      answer(st) == CASE call.op = "status" -> StatusOf(st)
                      [] call.op = "stop" -> "Ok"
                      [] call.op = "result" -> "TaskNotReady"
      then(st) ==
        IF goesOn THEN Goto(IF call.op = "stop" THEN "cancel_job" ELSE "get_results") /\ Stays
                  ELSE Return(answer(st)) /\ Ends
  IN /\ pc = "get_job"
     /\ \/ /\ Authorized
           /\ ServiceStays
           /\ UNCHANGED job
           /\ IF job[call.id] = "absent" THEN Return("TaskNotFound") /\ Ends
                                         ELSE then(job[call.id])
        \/ Misses(FailureKinds)

\* The service declines to cancel a job that has ended.
CancelJob ==
  /\ pc = "cancel_job"
  /\ \/ /\ Authorized
        /\ Cancels("Cancelled", FailureKinds)
        /\ Ends
        /\ ServiceStays
     \/ Misses(FailureKinds)

GetResults ==
  /\ pc = "get_results"
  /\ \/ /\ Authorized
        /\ Return("Ok")
        /\ UNCHANGED job
        /\ Ends
        /\ ServiceStays
     \/ Misses(FailureKinds)

GetLogs ==
  /\ pc = "get_logs"
  /\ \/ /\ Authorized
        /\ Return(IF job[call.id] = "absent" THEN "TaskNotFound" ELSE "Ok")
        /\ UNCHANGED job
        /\ Ends
        /\ ServiceStays
     \/ Misses(FailureKinds)

-----------------------------------------------------------------------------
(* is_accessible, status, target *)

Query == BeginCall([NoCall EXCEPT !.op = "query"])

\* target leaves out what it cannot get.
GetBackend ==
  /\ pc = "get_backend"
  /\ \/ /\ Return("Ok")
        /\ UNCHANGED job
        /\ Ends
        /\ ServiceStays
     \/ Misses(FailureKinds \cup {"ResourceNotFound"})

-----------------------------------------------------------------------------
(* The system. *)

Next ==
  \/ Progress(Moves) /\ UNCHANGED computeVars
  \/ TokenAges \/ SessionAges \/ SessionEnds \/ CheckToken
  \/ Acquire \/ GetSession \/ CreateSession
  \/ Release \/ ListJobs \/ CloseSession \/ UpdateSession
  \/ RejectStart \/ TaskStart \/ CreateJob
  \/ TaskStop \/ TaskStatus \/ TaskResult \/ GetJob \/ CancelJob \/ GetResults
  \/ TaskLogs \/ GetLogs \/ Query \/ GetBackend

-----------------------------------------------------------------------------
(* Properties. *)

\* A session that was opened is held, until it is released: acquire and release
\* forget none, unless a reply was lost or the caller released another session
\* than the one held.
NoSessionForgotten ==
  (pc = "idle" /\ ~stray) => \A s \in Sessions : sess[s] = "open" => s = held

\* A session that was released, or that acquire replaced, leaves no job behind:
\* what is pending is cancelled with the session.
NoJobLeftInSession ==
  \A s \in Sessions : sess[s] \in {"draining", "closed"} => Pending(s) = {}
=============================================================================

--------------------------- MODULE QuantumSystem ---------------------------
(***************************************************************************)
(* The IBM Quantum System resource (src/ibm/quantum_system.rs) over its    *)
(* HTTP client (dependencies/quantum_system_client).                       *)
(*                                                                         *)
(* A call of the resource is a sequence of requests.  A request goes       *)
(* through two layers of the client: AuthMiddleware adds a token and, when *)
(* the service rejects it, repeats the request once with a new one; inside *)
(* it the retry middleware repeats a request that had no answer.  The      *)
(* token's mutex is held for the whole request, so requests of one client  *)
(* are serial.  One action is one attempt of a request.                    *)
(*                                                                         *)
(* The service, its tokens and the object store are not part of the        *)
(* repository: they answer what the documentation comments of run_job.rs,  *)
(* cancel_job.rs, delete_job.rs and job_details.rs say they answer.        *)
(***************************************************************************)
EXTENDS Naturals

CONSTANTS
  Jobs,       \* job identifiers; run_primitive draws a new one (a UUID)
  Retries,    \* how often the bounded policy repeats a request (5 in from_settings)
  Trouble,    \* what may go wrong, a subset of AnyTrouble
  NoJob

\* "unsent": a request does not reach the service, or it fails (5xx).
\* "lost": the service obeyed a request, and the reply is lost, comes after
\*         the timeout, or is replaced by an error of a gateway (5xx).
\* "declined": the service declines a request it could obey (403, ...).
\* "iam": no access token can be obtained.
\* "revoked": the service rejects a token that was just obtained.
\* "storage": the object store fails.
AnyTrouble == {"unsent", "lost", "declined", "iam", "revoked", "storage"}

ASSUME Assumption ==
  /\ Retries \in Nat
  /\ Trouble \subseteq AnyTrouble
  /\ NoJob \notin Jobs

VARIABLES
  job,        \* the jobs of the service
  full,       \* are the execution lanes of the backend taken by others?
  token,      \* what the token manager holds, as the service sees it
  drawn,      \* history: identifiers that run_primitive has drawn
  pc,         \* the next step of the running call, or "idle"
  req,        \* the request under way
  attempt,    \* n_past_retries of the retry middleware
  renewed,    \* AuthMiddleware has repeated this request with a new token
  call,       \* the running call
  out         \* how the last call returned, until the next one begins

http == <<req, attempt, renewed>>
vars == <<job, full, token, drawn, pc, req, attempt, renewed, call, out>>

Terminal == {"Completed", "Failed", "Cancelled"}
JobState == {"absent", "Running"} \cup Terminal
Verb == {"none", "post", "get", "cancel", "delete"}

\* made: history, the jobs that this call has made the service create.
\* met: history, the troubles that this call has met; "again" when a request was
\* repeated by the retry middleware.
Call == [op : {"none", "start", "status", "stop", "result"},
         id : Jobs \cup {NoJob}, made : SUBSET Jobs, met : SUBSET (AnyTrouble \cup {"again"})]
NoCall == [op |-> "none", id |-> NoJob, made |-> {}, met |-> {}]

NoReturn == [call |-> NoCall, res |-> "none"]

\* The kinds of error (src/error.rs) a call may return, and the statuses.
Refusal == {"InvalidInput", "InvalidConfig", "UnsupportedPayload",
            "AuthenticationFailed", "TaskNotFound", "TaskNotReady"}
Result == {"none", "Ok", "Other", "Running"} \cup Terminal \cup Refusal

TypeOK ==
  /\ job \in [Jobs -> JobState]
  /\ full \in BOOLEAN
  /\ token \in {"none", "good", "bad"}
  /\ drawn \subseteq Jobs
  /\ pc \in {"idle", "upload", "token", "send", "renew", "fetch"}
  /\ req \in Verb
  /\ attempt \in 0..Retries
  /\ renewed \in BOOLEAN
  /\ call \in Call
  /\ out \in [call : Call, res : Result]

Init ==
  /\ job = [j \in Jobs |-> "absent"]
  /\ full = FALSE
  /\ token = "none"
  /\ drawn = {}
  /\ pc = "idle"
  /\ req = "none" /\ attempt = 0 /\ renewed = FALSE
  /\ call = NoCall
  /\ out = NoReturn

\* The call meets the trouble t.
Meet(t) ==
  /\ t \in Trouble
  /\ call' = [call EXCEPT !.met = @ \cup {t}]

-----------------------------------------------------------------------------
(* The service on its own. *)

\* A job ends; another user cancels one, or deletes one that has ended.
Progress ==
  /\ \E j \in Jobs :
        \/ job[j] = "Running" /\ job' = [job EXCEPT ![j] = "Completed"]
        \/ job[j] = "Running" /\ job' = [job EXCEPT ![j] = "Failed"]
        \/ job[j] = "Running" /\ job' = [job EXCEPT ![j] = "Cancelled"]
        \/ job[j] \in Terminal /\ job' = [job EXCEPT ![j] = "absent"]
  /\ UNCHANGED <<full, token, drawn, pc, http, call, out>>

\* Other users take the last lane, or leave it.
Lanes ==
  /\ full' = ~full
  /\ UNCHANGED <<job, token, drawn, pc, http, call, out>>

\* The service stops to accept the token.
Revoke ==
  /\ token = "good"
  /\ token' = "bad"
  /\ IF renewed THEN Meet("revoked") ELSE UNCHANGED call
  /\ UNCHANGED <<job, full, drawn, pc, http, out>>

\* What an accepted request does, and what it answers.  A job that was deleted
\* leaves its identifier free, but no client uses it again.
Obeyed(answer) ==
  LET j == call.id IN
  \/ /\ req = "post" /\ job[j] = "absent" /\ ~full
     /\ job' = [job EXCEPT ![j] = "Running"]
     /\ answer = "Ok"
  \/ /\ req = "get" /\ job[j] # "absent"
     /\ UNCHANGED job
     /\ answer = job[j]
  \/ /\ req = "cancel" /\ job[j] = "Running"
     /\ job' = [job EXCEPT ![j] = "Cancelled"]
     /\ answer = "Ok"
  \/ /\ req = "delete" /\ job[j] \in Terminal
     /\ job' = [job EXCEPT ![j] = "absent"]
     /\ answer = "Ok"

\* A request the service cannot obey changes nothing.  A duplicate job gets
\* 409, and so may a cancellation or deletion that comes too late or too early.
Rejected(answer) ==
  LET j == call.id IN
  /\ UNCHANGED job
  /\ \/ req = "post" /\ job[j] # "absent" /\ answer = "InvalidInput"
     \/ req # "post" /\ job[j] = "absent" /\ answer = "TaskNotFound"
     \/ req = "cancel" /\ job[j] \in Terminal /\ answer \in {"InvalidInput", "Other"}
     \/ req = "delete" /\ job[j] = "Running" /\ answer \in {"InvalidInput", "Other"}

\* The service declines what it could obey.
Declined(answer) ==
  /\ "declined" \in Trouble
  /\ answer = "Other" \/ (req = "post" /\ answer = "InvalidInput")
  /\ UNCHANGED job

-----------------------------------------------------------------------------
(* How a call moves on. *)

Return(res) ==
  /\ pc' = "idle"
  /\ req' = "none" /\ attempt' = 0 /\ renewed' = FALSE
  /\ out' = [call |-> call', res |-> res]

\* A new request starts both layers afresh.
Request(verb) ==
  /\ pc' = "token"
  /\ req' = verb /\ attempt' = 0 /\ renewed' = FALSE
  /\ out' = NoReturn

Goto(step) ==
  /\ pc' = step
  /\ out' = NoReturn
  /\ UNCHANGED http

\* MUTANT of AfterCancel: an error of the cancellation ends task_stop.
CancelMustSucceed(answer) ==
  IF answer = "Ok" THEN Request("delete") ELSE Return(answer)

\* MUTANT of AfterCancel: a job that was cancelled is not deleted.
CancelIsEnough(answer) == Return("Ok")

\* The job may have ended before the cancellation: its result is ignored.
AfterCancel(answer) == Request("delete")

\* What the call does with the answer, or the error, of its request.
Settle(answer) ==
  \/ req \in {"post", "delete"} /\ Return(answer)
  \/ req = "cancel" /\ AfterCancel(answer)
  \/ req = "get" /\ answer \notin JobState /\ Return(answer)
  \/ /\ req = "get" /\ answer \in JobState
     /\ \/ call.op = "status" /\ Return(answer)
        \/ call.op = "stop" /\ Request(IF answer = "Running" THEN "cancel" ELSE "delete")
        \/ /\ call.op = "result"
           /\ IF answer = "Completed" THEN Goto("fetch") ELSE Return("TaskNotReady")

-----------------------------------------------------------------------------
(* TokenManager and AuthMiddleware *)

\* IAM answers with an error, or cannot be reached.
NoToken ==
  /\ Meet("iam")
  /\ \E answer \in {"AuthenticationFailed", "Other"} : Settle(answer)
  /\ UNCHANGED token

\* get_token: a token that is there and has not expired is used.
GetToken ==
  /\ pc = "token"
  /\ \/ /\ token # "none"
        /\ Goto("send")
        /\ UNCHANGED <<token, call>>
     \/ /\ token' = "good"
        /\ Goto("send")
        /\ UNCHANGED call
     \/ NoToken
  /\ UNCHANGED <<job, full, drawn>>

\* MUTANT of Unauthorized: a rejected token is an error at once.
UnauthorizedIsFinal ==
  /\ pc = "send" /\ token = "bad"
  /\ UNCHANGED <<job, full, token, drawn, call>>
  /\ Settle("AuthenticationFailed")

\* 401: the token is renewed once.
Unauthorized ==
  /\ pc = "send" /\ token = "bad"
  /\ UNCHANGED <<job, full, token, drawn, call>>
  /\ IF renewed THEN Settle("AuthenticationFailed") ELSE Goto("renew")

\* MUTANT of Renew: whenever the token is rejected, it is renewed.
RenewAlways ==
  /\ pc = "renew"
  /\ \/ /\ token' = "good"
        /\ pc' = "send"
        /\ attempt' = 0
        /\ UNCHANGED <<req, renewed, call, out>>
     \/ NoToken
  /\ UNCHANGED <<job, full, drawn>>

\* The whole chain below AuthMiddleware runs again, with all its retries.
Renew ==
  /\ pc = "renew"
  /\ \/ /\ token' = "good"
        /\ pc' = "send"
        /\ attempt' = 0 /\ renewed' = TRUE
        /\ UNCHANGED <<req, call, out>>
     \/ NoToken
  /\ UNCHANGED <<job, full, drawn>>

-----------------------------------------------------------------------------
(* The retry middleware *)

\* What this step adds to the history of the call.
Note(met) ==
  call' = [call EXCEPT
    !.made = @ \cup {j \in Jobs : job[j] = "absent" /\ job'[j] = "Running"},
    !.met = @ \cup met]

\* The service answers.  429 and 423 are repeated without a bound by the
\* innermost layer: such an attempt changes nothing, and is no step here.
Answered ==
  /\ pc = "send" /\ token = "good"
  /\ \E answer \in Result :
        /\ \/ (Obeyed(answer) \/ Rejected(answer)) /\ Note({})
           \/ Declined(answer) /\ Note({"declined"})
        /\ Settle(answer)
  /\ UNCHANGED <<full, token, drawn>>

\* MUTANT of Unanswered: an error without an answer is taken for a failure to
\* obtain a token.
UnansweredAsToken == "AuthenticationFailed"

\* from_middleware_error, and from_response for 5xx.
UnansweredKind == "Other"

\* MUTANT of Again: each attempt submits under an identifier of its own.
AgainAnew(met) ==
  /\ attempt < Retries
  /\ attempt' = attempt + 1
  /\ \E j \in Jobs \ drawn :
        /\ drawn' = drawn \cup {j}
        /\ call' = [call EXCEPT !.id = j, !.made = @ \cup
                     {i \in Jobs : job[i] = "absent" /\ job'[i] = "Running"}]
  /\ UNCHANGED <<pc, req, renewed, out>>

\* MUTANT of Again: one retry too many.
AgainOnceMore(met) ==
  /\ attempt <= Retries
  /\ attempt' = attempt + 1
  /\ Note(met \cup {"again"})
  /\ UNCHANGED <<drawn, pc, req, renewed, out>>

\* The same request, with the same identifier, is sent again.
Again(met) ==
  /\ attempt < Retries
  /\ attempt' = attempt + 1
  /\ Note(met \cup {"again"})
  /\ UNCHANGED <<drawn, pc, req, renewed, out>>

\* No answer, or 408 or 5xx: timeouts, refused and broken connections and these
\* statuses are transient; other failures of the transport end the request.
Unanswered ==
  /\ pc = "send"
  /\ \E t \in Trouble \cap {"unsent", "lost"} :
        /\ \/ t = "unsent" /\ UNCHANGED job
           \/ t = "lost" /\ token = "good" /\ \E answer \in Result : Obeyed(answer)
        /\ \/ Again({t})
           \/ Note({t}) /\ Settle(UnansweredKind) /\ UNCHANGED drawn
  /\ UNCHANGED <<full, token>>

-----------------------------------------------------------------------------
(* The calls of the resource *)

Begin(op, j) ==
  /\ pc = "idle"
  /\ call' = [NoCall EXCEPT !.op = op, !.id = j]
  /\ UNCHANGED <<job, full, token>>

\* The settings, the payload or the program is rejected, or there is no bucket.
RejectStart ==
  /\ Begin("start", NoJob)
  /\ \E res \in {"InvalidConfig", "UnsupportedPayload", "InvalidInput", "Other"} : Return(res)
  /\ UNCHANGED drawn

TaskStart ==
  /\ \E j \in Jobs \ drawn :
        /\ Begin("start", j)
        /\ drawn' = drawn \cup {j}
  /\ Goto("upload")

\* run_primitive: the input is stored and the URLs are signed before the job
\* is submitted.
Upload ==
  /\ pc = "upload"
  /\ \/ UNCHANGED call /\ Request("post")
     \/ Meet("storage") /\ Return("Other")
  /\ UNCHANGED <<job, full, token, drawn>>

TaskCall ==
  /\ \E op \in {"status", "stop", "result"}, j \in Jobs : Begin(op, j)
  /\ Request("get")
  /\ UNCHANGED drawn

\* task_result: the object of a completed job is read from the bucket.
Fetch ==
  /\ pc = "fetch"
  /\ \/ UNCHANGED call /\ Return("Ok")
     \/ Meet("storage") /\ Return("Other")
  /\ UNCHANGED <<job, full, token, drawn>>

-----------------------------------------------------------------------------
(* The system. *)

Advance == Upload \/ GetToken \/ Unauthorized \/ Renew \/ Answered \/ Unanswered \/ Fetch

Next == Progress \/ Lanes \/ Revoke \/ RejectStart \/ TaskStart \/ TaskCall \/ Advance

Spec == Init /\ [][Next]_vars

\* The client runs, every attempt ends, and the lanes are not taken each time
\* that a submission is tried.
FairSpec == Spec /\ SF_vars(Advance)

-----------------------------------------------------------------------------
(* Properties. *)

\* The contract of task_start (src/lib.rs, src/error.rs): an error of any kind
\* other than Other means that no task was created.
StartContract ==
  out.call.op = "start" /\ out.res \in Refusal => out.call.made = {}

\* A client that repeats no request keeps it, whatever fails.
ContractWithoutRepeats ==
  "again" \notin out.call.met => StartContract

\* However often a submission is repeated, by either layer, it creates at most
\* the one job whose identifier it carries; and a success names it.
OneJobPerStart ==
  out.call.op = "start" =>
    /\ out.call.made \subseteq {out.call.id}
    /\ out.res = "Ok" => out.call.made = {out.call.id}

\* When task_stop returns Ok the job does not run any more.  When it met no
\* trouble the job does not run whatever task_stop returns, and it fails only
\* when the job has gone: a job that ends, or is cancelled, between the look at
\* its status and the cancellation is no error.
StopSettles ==
  out.call.op = "stop" =>
    /\ out.res = "Ok" \/ out.call.met = {} => job[out.call.id] # "Running"
    /\ out.call.met = {} => out.res \in {"Ok", "TaskNotFound"}

\* A token that the service rejects does not fail a call while IAM gives new
\* ones, unless the new one is rejected too.
RenewalHelps ==
  out.res = "AuthenticationFailed" => out.call.met \cap {"iam", "revoked"} # {}

\* Every call returns.
CallsReturn == pc # "idle" ~> pc = "idle"
=============================================================================

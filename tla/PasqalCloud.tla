---------------------------- MODULE PasqalCloud ----------------------------
(***************************************************************************)
(* The Pasqal Cloud resource (src/pasqal/cloud.rs) over                    *)
(* pasqal_cloud_client, which renews its access token before a request and *)
(* repeats nothing.  A task is a batch of one job, or a CUDA-Q job, whose  *)
(* identifier serves as that of a batch.  Every failure of the client is   *)
(* an anyhow error, which becomes Other.                                   *)
(***************************************************************************)
EXTENDS VendorCall

VARIABLES
  sort,       \* what each task of the server is
  kind,       \* task_kinds: what the instance remembers of that
  token,      \* auth_token
  creds,      \* the instance has a user name or a client identifier
  got         \* the results that the last call returned

cloudVars == <<sort, kind, token, creds, got>>

Sort == {"Pulser", "Cudaq"}

\* "opaque": no JWT, or no expiry in it.  "stale": it expires within
\* AUTH_TOKEN_EXPIRY_GRACE_SECONDS, or has expired: it may be refused.
\* "malformed": a JWT whose expiry cannot be read.
Token == {"none", "opaque", "fresh", "stale", "malformed"}

TypeOK ==
  /\ CallTypeOK
  /\ pc \in {"idle", "create_batch", "create_cudaq_job", "cancel_batch",
             "get_batch", "get_job", "get_batch_results", "get_cudaq_job"}
  /\ sort \in [Jobs -> Sort]
  /\ kind \in [Jobs -> Sort \cup {"unknown"}]
  /\ token \in Token
  /\ creds \in BOOLEAN
  /\ got \in {"nothing", "null", "counts"}

CloudInit ==
  /\ sort = [j \in Jobs |-> "Pulser"]
  /\ kind = [j \in Jobs |-> "unknown"]
  /\ token \in Token
  /\ creds \in BOOLEAN
  /\ got = "nothing"

-----------------------------------------------------------------------------
(* Authentication. *)

\* is_auth_token_usable
Usable(t) == t \in {"opaque", "fresh"}

\* ensure_authenticated asks for another token with the credentials, and never
\* when it cannot read the expiry of the one it has.
MayRenew == creds /\ token # "malformed"
Sends ==
  /\ Usable(token) \/ MayRenew
  /\ token' = IF Usable(token) THEN token ELSE "fresh"

\* The server obeys the request.
Sent == Sends /\ token' # "stale"

\* The request has no effect: nothing is sent, or it is refused, or it fails.
Misses ==
  /\ UNCHANGED job
  /\ \/ /\ ~Usable(token)
        /\ IF MayRenew THEN ReturnTroubled("renewal", "Other") ELSE Return("Other")
        /\ UNCHANGED token
     \/ /\ Sends
        /\ IF token' = "stale" THEN Return("Other") ELSE ReturnTroubled("failed", "Other")

\* Tokens grow old.
Age ==
  /\ token = "fresh"
  /\ token' = "stale"
  /\ UNCHANGED callVars
  /\ UNCHANGED <<sort, kind, creds, got>>

-----------------------------------------------------------------------------
(* task_start *)

\* The payload is of another vendor, or there is no device of the name.
RejectStart == Reject({"UnsupportedPayload", "InvalidInput"}) /\ UNCHANGED cloudVars

TaskStart ==
  /\ Begin("create_batch", Starting) \/ Begin("create_cudaq_job", Starting)
  /\ UNCHANGED cloudVars

Started(s) ==
  /\ UNCHANGED <<creds, got>>
  /\ \/ /\ Sent
        /\ \E j \in Jobs :
             /\ job[j] = "absent"
             /\ \E st \in {"created", "queued"} : job' = [job EXCEPT ![j] = st]
             /\ sort' = [sort EXCEPT ![j] = s]
             /\ LET made == [call EXCEPT !.id = j, !.made = @ + 1] IN
                \/ ReturnsOk(made) /\ kind' = [kind EXCEPT ![j] = s]
                \/ LosesReply(made) /\ UNCHANGED kind
     \/ Misses /\ UNCHANGED <<sort, kind>>

CreateBatch == pc = "create_batch" /\ Started("Pulser")
CreateCudaqJob == pc = "create_cudaq_job" /\ Started("Cudaq")

-----------------------------------------------------------------------------
(* task_stop, task_status *)

TaskStop == BeginAbout("stop", "cancel_batch") /\ UNCHANGED cloudVars

CancelBatch ==
  /\ pc = "cancel_batch"
  /\ \/ /\ Sent
        /\ \E st \in {"cancelling", "Cancelled"} : Cancels(st, {"Other"})
     \/ Misses
  /\ UNCHANGED <<sort, kind, creds, got>>

TaskStatus == BeginAbout("status", "get_batch") /\ UNCHANGED cloudVars

\* A batch whose job is not listed yet.
GetBatch ==
  LET then(st) == IF st = "created" THEN Return("TaskNotReady") ELSE Goto("get_job")
  IN /\ pc = "get_batch"
     /\ (Sent /\ Gets(then, {"Other"})) \/ Misses
     /\ UNCHANGED <<sort, kind, creds, got>>

\* MUTANT of StatusOf: a job that is being cancelled is taken for one that ended.
StatusOfEnded(st) ==
  CASE st \in {"created", "queued"} -> "Queued"
    [] st = "running" -> "Running"
    [] st = "cancelling" -> "Failed"
    [] st \in Terminal -> st

\* map_job_status
StatusOf(st) ==
  CASE st \in {"created", "queued"} -> "Queued"
    [] st = "running" -> "Running"
    [] st = "cancelling" -> "Cancelled"
    [] st \in Terminal -> st

GetJob ==
  LET then(st) == Return(StatusOf(st))
  IN /\ pc = "get_job"
     /\ (Sent /\ Gets(then, {"Other"})) \/ Misses
     /\ UNCHANGED <<sort, kind, creds, got>>

-----------------------------------------------------------------------------
(* task_result *)

\* task_kind: a task that the instance did not start passes for a Pulser batch.
EndpointOf(k) == IF k = "Cudaq" THEN "get_cudaq_job" ELSE "get_batch_results"

TaskResult ==
  /\ \E j \in Jobs : Begin(EndpointOf(kind[j]), About("result", j))
  /\ got' = "nothing"
  /\ UNCHANGED <<sort, kind, token, creds>>

\* There must be exactly one result; those of a CUDA-Q job have another shape.
GetBatchResults ==
  LET found == job[call.id] = "Completed" /\ sort[call.id] = "Pulser"
  IN /\ pc = "get_batch_results"
     /\ \/ /\ Sent
           /\ Return(IF found THEN "Ok" ELSE "Other")
           /\ got' = IF found THEN "counts" ELSE "nothing"
           /\ UNCHANGED job
        \/ Misses /\ UNCHANGED got
     /\ UNCHANGED <<sort, kind, creds>>

\* The result may be missing from the answer: null then stands for it, whatever
\* the state of the job.
GetCudaqJob ==
  /\ pc = "get_cudaq_job"
  /\ \/ /\ Sent
        /\ Return("Ok")
        /\ got' = IF job[call.id] = "Completed" THEN "counts" ELSE "null"
        /\ UNCHANGED job
     \/ Misses /\ UNCHANGED got
  /\ UNCHANGED <<sort, kind, creds>>

-----------------------------------------------------------------------------
(* The system. *)

\* Another process, or another instance, takes over.
Restart ==
  /\ pc = "idle"
  /\ \E j \in Jobs : kind[j] # "unknown"
  /\ kind' = [j \in Jobs |-> "unknown"]
  /\ UNCHANGED callVars
  /\ UNCHANGED <<sort, token, creds, got>>

CloudMoves == Moves \cup {<<"created", "queued">>, <<"cancelling", "Cancelled">>}

Next ==
  \/ Progress(CloudMoves) /\ UNCHANGED cloudVars
  \/ Age \/ Restart
  \/ RejectStart \/ TaskStart \/ CreateBatch \/ CreateCudaqJob
  \/ TaskStop \/ CancelBatch \/ TaskStatus \/ GetBatch \/ GetJob
  \/ TaskResult \/ GetBatchResults \/ GetCudaqJob

-----------------------------------------------------------------------------
(* Properties. *)

\* The result of a task that was completed when it was asked for is the counts
\* of that task, as long as the instance knows what it started.
ResultWhole ==
  (out.call.op = "result" /\ out.call.ripe /\ out.call.met = {}
     /\ kind[out.call.id] # "unknown" /\ out.res = "Ok")
    => got = "counts"
=============================================================================

------------------------------ MODULE Vendors ------------------------------
(***************************************************************************)
(* What the QuantumResource trait (src/lib.rs) promises of tasks, for the  *)
(* vendors whose calls are plain sequences of requests: a run is that of   *)
(* one instance of one vendor, chosen in the initial state.                *)
(***************************************************************************)
EXTENDS VendorCall

CONSTANTS
  Sessions,   \* bound: the identifiers of the sessions that are ever opened
  NoSession

ASSUME SessionAssumption == NoSession \notin Sessions

VARIABLES
  vendor,                                 \* the ResourceType of the instance
  yields, part,                           \* IqmServer
  session, warden,                        \* PasqalLocal
  sort, kind, auth, creds, got,           \* PasqalCloud
  retries,                                \* Oqtopus
  sess, low, runsIn, held, token, timely, target, stray   \* QuantumCompute

iqmVars == <<yields, part>>
localVars == <<session, warden>>
cloudVars == <<sort, kind, auth, creds, got>>
computeVars == <<sess, low, runsIn, held, token, timely, target, stray>>
vars == <<callVars, vendor, iqmVars, localVars, cloudVars, retries, computeVars>>

F == INSTANCE Felis
I == INSTANCE IqmServer
L == INSTANCE PasqalLocal WITH token <- warden
C == INSTANCE PasqalCloud WITH token <- auth
O == INSTANCE Oqtopus
Q == INSTANCE QuantumCompute
\* Bound: the twin of Q meets requests that fail, and no other trouble.
R == INSTANCE QiskitRuntime WITH Trouble <- {"failed"}

Vendor == {"AliceBobFelis", "IQMServer", "PasqalLocal", "PasqalCloud", "OQTOPUS",
           "IBMQuantumComputeService", "QiskitRuntimeService"}

\* Each vendor's state is its own: what the others would keep does not move.
Init ==
  /\ CallInit
  /\ vendor \in Vendor
  /\ I!IqmInit
  /\ vendor # "IQMServer" => \A j \in Jobs : yields[j] = I!Artifact
  /\ L!LocalInit
  /\ C!CloudInit
  /\ vendor # "PasqalCloud" => auth = "none" /\ ~creds
  /\ O!OqtopusInit
  /\ vendor # "OQTOPUS" => retries = {}
  /\ Q!ComputeInit
  /\ vendor \notin {"IBMQuantumComputeService", "QiskitRuntimeService"} => held = NoSession

Next ==
  /\ UNCHANGED vendor
  /\ \/ /\ vendor = "AliceBobFelis"
        /\ F!Next
        /\ UNCHANGED <<iqmVars, localVars, cloudVars, retries, computeVars>>
     \/ /\ vendor = "IQMServer"
        /\ I!Next
        /\ UNCHANGED <<localVars, cloudVars, retries, computeVars>>
     \/ /\ vendor = "PasqalLocal"
        /\ L!Next
        /\ UNCHANGED <<iqmVars, cloudVars, retries, computeVars>>
     \/ /\ vendor = "PasqalCloud"
        /\ C!Next
        /\ UNCHANGED <<iqmVars, localVars, retries, computeVars>>
     \/ /\ vendor = "OQTOPUS"
        /\ O!Next
        /\ UNCHANGED <<iqmVars, localVars, cloudVars, computeVars>>
     \/ /\ vendor = "IBMQuantumComputeService"
        /\ Q!Next
        /\ UNCHANGED <<iqmVars, localVars, cloudVars, retries>>
     \/ /\ vendor = "QiskitRuntimeService"
        /\ R!RuntimeNext
        /\ UNCHANGED <<iqmVars, localVars, cloudVars, retries>>

Spec == Init /\ [][Next]_vars

-----------------------------------------------------------------------------
(* Properties. *)

\* The variables of the vendor have their types.
TypeOK ==
  /\ vendor = "AliceBobFelis" => F!TypeOK
  /\ vendor = "IQMServer" => I!TypeOK
  /\ vendor = "PasqalLocal" => L!TypeOK
  /\ vendor = "PasqalCloud" => C!TypeOK
  /\ vendor = "OQTOPUS" => O!TypeOK
  /\ vendor \in {"IBMQuantumComputeService", "QiskitRuntimeService"} => Q!TypeOK

\* The contract of task_start (src/lib.rs): an error of any kind but Other means
\* that no task was created.
StartContract ==
  (out.call.op = "start" /\ out.res \in Refusal) => out.call.made = 0

\* A task_start makes the server create one task, unless the configuration of
\* OQTOPUS has submissions repeated.
OneJobPerStart == "POST" \notin retries => call.made + out.call.made <= 1

\* The task that task_stop reports stopped has ended, or is about to.
StopSettles ==
  (out.call.op = "stop" /\ out.res = "Ok") => job[out.call.id] \notin Active

\* A final status is final: the task never moves on from what was reported.
FinalStatusIsFinal ==
  (out.call.op = "status" /\ out.res \in Terminal)
    => \/ job[out.call.id] = out.res
       \/ out.res = "Cancelled" /\ job[out.call.id] = "cancelling"

\* Whoever asks for the status of a task is answered when no request fails and
\* the token can be renewed: neither its age nor the look at it comes in between.
StatusAnswers ==
  (out.call.op = "status" /\ out.call.met = {} /\ job[out.call.id] # "absent")
    => \/ out.res \notin {"Other", "AuthenticationFailed", "TaskNotFound"}
       \/ vendor = "PasqalCloud" /\ (~creds \/ auth = "malformed")

\* A result is that of a completed task, and the whole of it.  IQM Server and
\* CUDA-Q tasks answer for tasks that are not completed too: the result of those
\* is whole when the task was completed before it was asked for.
ResultWhole ==
  (out.call.op = "result" /\ out.res = "Ok")
    => CASE vendor = "IQMServer" -> I!ResultWhole
         [] vendor = "PasqalCloud" -> C!ResultWhole
         [] OTHER -> job[out.call.id] = "Completed"

\* See QuantumCompute.
NoSessionForgotten == Q!NoSessionForgotten
NoJobLeftInSession == Q!NoJobLeftInSession
=============================================================================

------------------------------ MODULE Clients ------------------------------
(***************************************************************************)
(* The programs and libraries on both sides of a resource.  Those that use *)
(* one rely on the contract of the trait QuantumResource: the task runner  *)
(* in Rust or in Python, a job of a Qiskit primitive, a batch of Pulser,   *)
(* the backends of Qiskit; Lua, C and both task runners make payloads of   *)
(* what they are given.  Those that it comes from and those that it uses:  *)
(* the discovery and the listings, the settings that its constructor       *)
(* reads, the clients of the vendors' services and the programs that come  *)
(* with one of them, and what it is told of its device.  A run is that of  *)
(* one of them, chosen in the initial state.                               *)
(***************************************************************************)
EXTENDS Naturals, Sequences

CONSTANTS
  Width, MaxTasks,     \* bounds: see PulserConnection
  Clones,              \* MaestroRequest
  Threads, Backends    \* Discovery

ASSUME BoundsAssumption == {Width, MaxTasks} \subseteq Nat \ {0}

VARIABLES
  client,
  stage, running, asked, answer, started, result, delivered, job, faulty,  \* RunnerContract
  lost,                                                                    \* PythonRunner
  class, task, gone, last, kept, waiting, told, final,                     \* PrimitiveJob
  fate, batch, op, left, seen, failed, verdict,                            \* PulserConnection
  server, negotiated, doing, at, reply, made, code,                        \* MaestroRequest
  env, extra, finds, step, todo, current, keys, read, found, crossed, mixed, \* Discovery
  type, input, sent,                                                       \* Payloads
  method, text, wrote, need, meant, line, have, quiet, link, outcome,      \* MaestroWire
  provider, filters, fleet, up, listing, candidates, replies, offered,     \* BackendListing
  beenUp, beenDown, missed,
  question, device, known, replied, were,                                  \* DeviceQueries
  pending, dedicates, serves, offset, page, isLast, busy, listed, says,    \* BusyDevice
  wasActive, wasServed, stays, slips,
  maker, from, given, files, took, readFile, ended, asMade, used,          \* Settings
  calibrated, faultyIn, fractional, cached, refreshing, fetched, fresh,
  overlapped, regated, apart,                                              \* QiskitBackend
  slurm, named, ordered, chosen, warned, default, madeFor, runsWith, measured,
  shown,                                                                   \* IqmBackend
  built, through, entered, came, bearer, accepted, about, tally, got,      \* HttpLayers
  app, next, state, bucket, polled, printed, trouble, completed, raced,
  canceller, lister, after, names, stayed                                  \* ClientApps

contractVars == <<stage, running, asked, answer, started, result, delivered, job, faulty>>
jobVars == <<class, task, gone, last, kept, waiting, told, final>>
pulserVars == <<fate, batch, op, left, seen, failed, verdict>>
requestVars == <<server, negotiated, doing, at, reply, made, code>>
discoveryVars == <<env, extra, finds, step, todo, current, keys, read, found, crossed, mixed>>
payloadVars == <<type, input, sent>>
wireVars == <<method, text, wrote, need, meant, line, have, quiet, link, outcome>>
listingVars == <<provider, filters, fleet, up, listing, candidates, replies, offered,
                 beenUp, beenDown, missed>>
queryVars == <<question, device, known, replied, were>>
busyVars == <<pending, dedicates, serves, offset, page, isLast, busy, listed, says,
              wasActive, wasServed, stays, slips>>
settingVars == <<maker, from, given, files, took, readFile, ended, asMade, used>>
backendVars == <<calibrated, faultyIn, fractional, cached, refreshing, fetched, fresh,
                 overlapped, regated, apart>>
iqmVars == <<slurm, named, ordered, chosen, warned, default, madeFor, runsWith,
             measured, shown>>
layerVars == <<built, through, entered, came, bearer, accepted, about, tally, got>>
appVars == <<app, next, state, bucket, polled, printed, trouble, completed, raced,
             canceller, lister, after, names, stayed>>
vars == <<client, contractVars, lost, jobVars, pulserVars, requestVars, discoveryVars,
          payloadVars, wireVars, listingVars, queryVars, busyVars, settingVars,
          backendVars, iqmVars, layerVars, appVars>>

C == INSTANCE RunnerContract
P == INSTANCE PythonRunner
J == INSTANCE PrimitiveJob WITH Terminal <- C!Verdict
B == INSTANCE PulserConnection WITH Terminal <- C!Verdict
M == INSTANCE MaestroRequest
D == INSTANCE Discovery
L == INSTANCE Payloads
W == INSTANCE MaestroWire
K == INSTANCE BackendListing
Q == INSTANCE DeviceQueries
U == INSTANCE BusyDevice
S == INSTANCE Settings
H == INSTANCE QiskitBackend
I == INSTANCE IqmBackend
N == INSTANCE HttpLayers
R == INSTANCE ClientApps

Client ==
  {"task_runner", "main.py", "job", "pulser", "request", "discovery", "payload", "wire",
   "listing", "query", "busy", "settings", "backend", "iqm", "http", "app"}

\* The variables of the client have their types.
TypeOK ==
  /\ client \in Client
  /\ C!TypeOK
  /\ lost \in BOOLEAN
  /\ client = "job" => J!JobTypeOK
  /\ client = "pulser" => B!PulserTypeOK
  /\ client = "request" => M!RequestTypeOK
  /\ client = "discovery" => D!DiscoveryTypeOK
  /\ client = "payload" => L!PayloadTypeOK
  /\ client = "wire" => W!WireTypeOK
  /\ client = "listing" => K!ListingTypeOK
  /\ client = "query" => Q!QueryTypeOK
  /\ client = "busy" => U!BusyTypeOK
  /\ client = "settings" => S!SettingTypeOK
  /\ client = "backend" => H!BackendTypeOK
  /\ client = "iqm" => I!IqmTypeOK
  /\ client = "http" => N!LayerTypeOK
  /\ client = "app" => R!AppTypeOK

\* What a client does not have has one initial state.
Init ==
  /\ client \in Client
  /\ C!Init
  /\ client \notin {"task_runner", "main.py"} => ~faulty
  /\ lost = FALSE
  /\ J!JobInit
  /\ client # "job" => class = "RuntimeJobV2"
  /\ B!PulserInit
  /\ M!RequestInit
  /\ D!DiscoveryInit
  /\ client # "discovery" => extra = {} /\ \A b \in Backends : env[b] = D!Nothing
  /\ L!PayloadInit(client = "payload")
  /\ W!WireInit(client = "wire")
  /\ K!ListingInit(client = "listing")
  /\ Q!QueryInit(client = "query")
  /\ U!BusyInit(client = "busy")
  /\ S!SettingInit(client = "settings")
  /\ H!BackendInit(client = "backend")
  /\ I!IqmInit(client = "iqm")
  /\ N!LayerInit(client = "http")
  /\ R!AppInit(client = "app")

\* Every other part of the state stays.
Next ==
  /\ UNCHANGED client
  /\ \/ client = "task_runner" /\ C!Next /\ UNCHANGED lost
     \/ client = "main.py" /\ P!PyRunnerNext /\ UNCHANGED <<job, faulty>>
     \/ /\ client = "main.py" /\ UNCHANGED lost
        /\ C!JobBegins \/ C!JobEnds \/ C!Answers
     \/ client \notin {"task_runner", "main.py"} /\ UNCHANGED <<contractVars, lost>>
  /\ IF client = "job" THEN J!JobNext ELSE UNCHANGED jobVars
  /\ IF client = "pulser" THEN B!PulserNext ELSE UNCHANGED pulserVars
  /\ IF client = "request" THEN M!RequestNext ELSE UNCHANGED requestVars
  /\ IF client = "discovery" THEN D!DiscoveryNext ELSE UNCHANGED discoveryVars
  /\ IF client = "payload" THEN L!Build ELSE UNCHANGED payloadVars
  /\ IF client = "wire" THEN W!WireNext ELSE UNCHANGED wireVars
  /\ IF client = "listing" THEN K!ListingNext ELSE UNCHANGED listingVars
  /\ IF client = "query" THEN Q!QueryNext ELSE UNCHANGED queryVars
  /\ IF client = "busy" THEN U!BusyNext ELSE UNCHANGED busyVars
  /\ IF client = "settings" THEN S!SettingsNext ELSE UNCHANGED settingVars
  /\ IF client = "backend" THEN H!BackendNext ELSE UNCHANGED backendVars
  /\ IF client = "iqm" THEN I!IqmNext ELSE UNCHANGED iqmVars
  /\ IF client = "http" THEN N!LayerNext ELSE UNCHANGED layerVars
  /\ IF client = "app" THEN R!AppNext ELSE UNCHANGED appVars

\* A step of the task runner, or of its resource.
OfRunner(A) ==
  A /\ UNCHANGED <<client, jobVars, pulserVars, requestVars, discoveryVars, payloadVars,
                   wireVars, listingVars, queryVars, busyVars, settingVars, backendVars,
                   iqmVars, layerVars, appVars>>

Proceeds ==
  /\ UNCHANGED <<job, faulty>>
  /\ \/ client = "task_runner" /\ C!Proceed /\ UNCHANGED lost
     \/ client = "main.py" /\ P!PyProceed

\* The threads of both runners go on, and every call returns; a call of task_stop
\* ends the task or fails; a terminal status is told in the end.
Spec ==
  /\ Init /\ [][Next]_vars
  /\ WF_vars(OfRunner(Proceeds))
  /\ WF_vars(OfRunner(C!Answers /\ UNCHANGED lost))
  /\ WF_vars(OfRunner(C!JobEnds /\ asked = "stop" /\ UNCHANGED lost))
  /\ SF_vars(OfRunner(/\ job \in C!Verdict
                      /\ C!Reply("status", job)
                      /\ UNCHANGED <<job, faulty, lost>>))

-----------------------------------------------------------------------------
(* Properties. *)

\* What a program says of its task is true, and is not taken back: a task runner
\* that succeeds has delivered the result of a task that completed; a job tells one
\* final status; a batch that has ended has; what the legacy client of Maestro takes
\* for an answer is the daemon's, and it waits for that of a cancellation; what a
\* resource tells of its device was so (see DeviceQueries and BusyDevice), and what a
\* backend of Qiskit shows is of one answer, or of the computer that was asked for (see
\* QiskitBackend and IqmBackend); what a call of the Quantum System client returns is
\* what came last (see HttpLayers), and what the programs that come with it print was
\* so (see ClientApps).
ToldIsTrue ==
  /\ C!SuccessIsDelivery
  /\ J!FinalStaysFinal
  /\ B!BatchTruthful
  /\ W!AnswerIsTheDaemons
  /\ W!CleanupIsHeard
  /\ Q!ToldWasSo
  /\ U!BusyIsTrue
  /\ H!BackendAgrees
  /\ I!IqmAgrees
  /\ N!RequestsAsTold
  /\ R!PrintedIsTrue /\ R!ListedOnce

\* Over a resource whose calls do not fail, a run that ends on its own leaves no
\* active task of its own behind, unless main.py was interrupted where no finally
\* block follows; cancel_batch_jobs leaves no task of its batch; and the programs that
\* come with the Quantum System client leave no job (see ClientApps).
NoTaskLeftBehind ==
  /\ ~lost => C!NoTaskLeftBehind
  /\ B!CancelReachesAll
  /\ R!JobNotLeft

\* A run of either task runner ends with a signal, and when the task has ended.
RunEnds == C!RunEnds

\* See MaestroRequest.
RefusalIsDefinite == M!RefusalIsDefinite

\* A resource that a provider makes is that of one service, and is one of those that
\* the filter asks for (see Discovery and BackendListing for the exceptions); what a
\* constructor takes is what it is given for it (see Settings).
ResourceOfOneService ==
  /\ D!ResourceOfOneService
  /\ K!ListedAsAsked
  /\ S!OwnSettings

\* What a program is given reaches task_start as it is, or is refused, and both task
\* runners take the same files of a Maestro task (see Payloads for the exceptions);
\* a text arrives at the daemon of Maestro in one line (see MaestroWire).
InputArrives ==
  /\ L!PayloadArrives
  /\ L!RunnersAgree
  /\ W!TextIsWhole
=============================================================================

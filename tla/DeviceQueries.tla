--------------------------- MODULE DeviceQueries ---------------------------
(***************************************************************************)
(* What the resources tell of their devices: is_accessible, status and     *)
(* target of every vendor.  A call makes its requests one after the other, *)
(* or some of them at once, while the device changes, and puts the answers *)
(* together.  The status of the Quantum Compute Service is BusyDevice's.   *)
(***************************************************************************)
EXTENDS Integers, Sequences, FiniteSets

VARIABLES
  question,    \* the method that is called
  device,      \* what the vendor knows of the device
  known,       \* what the requests have brought
  replied,     \* how the method returned
  were         \* history: what the device was like during the call

queryVars == <<question, device, known, replied, were>>

\* calibration is that of the default calibration set, named whether the resource
\* asks for another one by its name; running counts the jobs that occupy a lane;
\* api is whether the server has the interface that the code was written for.
Device == [state : {"online", "paused", "offline"}, healthy : {"yes", "no", "unknown"},
           calibration : 1..2, named : BOOLEAN, running : 0..3, api : {"new", "old"}]
Usual == [state |-> "online", healthy |-> "yes", calibration |-> 1, named |-> FALSE,
          running |-> 0, api |-> "new"]
Failed == [Usual EXCEPT !.state = "failed"]

\* Bounds: the lanes of a Quantum System, fewer than its jobs; the changes in a call.
Lanes == 2
MaxChanges == 2

Request ==
  {"backend", "lanes", "jobs", "configuration", "properties", "details", "architecture",
   "set", "metrics", "artifact", "targets", "device", "specs", "accessible", "json",
   "status", "ping", "capabilities"}

\* What of the device each request is about, where it changes.
get_backend == {"state"}
list_jobs == {"running"}
fetch_qc_details == {"state", "healthy"}
get_dynamic_quantum_architecture_v1 == {"calibration"}
get_calibration_set_v1 == {"calibration"}
get_quality_metrics_v1 == {"calibration"}
qc_get_artifacts == {}
list_targets == {"state"}
get_device == {"state"}
get_accessible == {"state"}
get_device_json == {"state"}
api_status == {"state"}
get_device_specs == {}
get_backend_properties == {}

Reads(request) ==
  CASE request = "backend" -> get_backend
    [] request = "jobs" -> list_jobs
    [] request = "details" -> fetch_qc_details
    [] request = "architecture" -> get_dynamic_quantum_architecture_v1
    [] request = "set" -> get_calibration_set_v1
    [] request = "metrics" -> get_quality_metrics_v1
    [] request = "artifact" -> qc_get_artifacts
    [] request = "targets" -> list_targets
    [] request = "device" -> get_device
    [] request = "accessible" -> get_accessible
    [] request = "json" -> get_device_json
    [] request \in {"status", "ping"} -> api_status
    [] request = "specs" -> get_device_specs
    [] request = "properties" -> get_backend_properties
    [] request \in {"lanes", "configuration", "capabilities"} -> {}

-----------------------------------------------------------------------------
(* The methods.  groups: the requests, in groups that are made at once;    *)
(* tells: what is made of the answers; mayFail: those it goes on without.  *)

Nothing == [yes |-> "none", state |-> "none", healthy |-> "none", slots |-> -1, parts |-> {}]

Came(request) == request \in DOMAIN known /\ known[request] # Failed
Of(request) == IF Came(request) THEN known[request] ELSE Failed
YesOrNo(b) == IF b THEN "yes" ELSE "no"

Method(groups, tells) == [groups |-> groups, tells |-> tells, mayFail |-> {}]
Accessible(groups, accepts) == Method(groups, [Nothing EXCEPT !.yes = YesOrNo(accepts)])
Status(groups, state) == Method(groups, [Nothing EXCEPT !.state = state])
\* 0 is the calibration set that is asked for by its name.
Target(groups) ==
  LET of(r) == IF device.named THEN 0 ELSE Of(r).calibration
      parts == {of(r) : r \in {"architecture", "set", "metrics"} \cap DOMAIN known}
  IN Method(groups, [Nothing EXCEPT !.parts = parts])
OneOf(request) == <<{request}>>
IsOnline(request) == Of(request).state = "online"

QuantumSystem_is_accessible == Accessible(OneOf("backend"), IsOnline("backend"))
QuantumSystem_target == Target(<<{"configuration", "properties"}>>)

\* saturating_sub: more jobs may run than there are lanes.
QuantumSystem_status ==
  LET busy == Of("jobs").running
      method == Status(<<{"backend", "lanes", "jobs"}>>, Of("backend").state)
  IN [method EXCEPT !.tells.slots = IF busy > Lanes THEN 0 ELSE Lanes - busy]

\* Also of the Quantum Compute Service under its older name, which has no status
\* of its own: the trait makes one of is_accessible.
QuantumCompute_is_accessible == Accessible(OneOf("backend"), IsOnline("backend"))
QuantumCompute_target ==
  [Target(<<{"configuration"}, {"properties"}>>) EXCEPT
     !.mayFail = {"configuration", "properties"}]
QiskitRuntime_target == QuantumCompute_target
Default_status ==
  Status(OneOf("backend"), IF IsOnline("backend") THEN "online" ELSE "offline")

\* An older server tells no state, and counts as online.
resource_status_from_qc_details ==
  LET details == Of("details")
  IN [Nothing EXCEPT !.state = IF details.api = "old" THEN "online" ELSE details.state,
                     !.healthy = details.healthy]
IQMServer_status == Method(OneOf("details"), resource_status_from_qc_details)

\* MUTANT of IQMServer_is_accessible: a device that reports no health will do.
AccessibleUnlessUnhealthy ==
  LET st == resource_status_from_qc_details
  IN Accessible(OneOf("details"), st.state = "online" /\ st.healthy # "no")

IQMServer_is_accessible ==
  LET st == resource_status_from_qc_details
  IN Accessible(OneOf("details"), st.state = "online" /\ st.healthy = "yes")

\* The static architecture is not kept by every server.
IQMServer_target ==
  [Target(<<{"architecture"}, {"set"}, {"metrics"}, {"artifact"}>>) EXCEPT
     !.mayFail = {"artifact"}]

Felis_is_accessible == Accessible(<< >>, TRUE)
Felis_target == Target(OneOf("targets"))

\* A device that is down takes jobs, unless it is retired: "offline" here.
PasqalCloud_is_accessible == Accessible(OneOf("device"), Of("device").state # "offline")
PasqalCloud_target == Target(OneOf("specs"))

PasqalLocal_is_accessible == Accessible(OneOf("accessible"), IsOnline("accessible"))
PasqalLocal_target == Target(OneOf("specs"))

OQTOPUS_is_accessible == Accessible(OneOf("json"), IsOnline("json"))
OQTOPUS_status == Status(OneOf("json"), IF IsOnline("json") THEN "online" ELSE "offline")
OQTOPUS_target == Target(OneOf("json"))

MaestroLocal_is_accessible == Accessible(OneOf("ping"), IsOnline("ping"))
MaestroLocal_target == Target(OneOf("capabilities"))

\* An older daemon does not know the command, and is pinged.
Asked_last == IF device.api = "old" THEN "ping" ELSE "status"
MaestroLocal_status ==
  Status(IF device.api = "old" THEN <<{"status"}, {"ping"}>> ELSE OneOf("status"),
         IF IsOnline(Asked_last) THEN "online" ELSE "offline")

Question ==
  {"QuantumSystem_is_accessible", "QuantumSystem_status", "QuantumSystem_target",
   "QuantumCompute_is_accessible", "QuantumCompute_target", "QiskitRuntime_target",
   "Default_status", "IQMServer_is_accessible", "IQMServer_status", "IQMServer_target",
   "Felis_is_accessible", "Felis_target", "PasqalCloud_is_accessible", "PasqalCloud_target",
   "PasqalLocal_is_accessible", "PasqalLocal_target", "OQTOPUS_is_accessible",
   "OQTOPUS_status", "OQTOPUS_target", "MaestroLocal_is_accessible", "MaestroLocal_status",
   "MaestroLocal_target"}

Called ==
  CASE question = "QuantumSystem_is_accessible" -> QuantumSystem_is_accessible
    [] question = "QuantumSystem_status" -> QuantumSystem_status
    [] question = "QuantumSystem_target" -> QuantumSystem_target
    [] question = "QuantumCompute_is_accessible" -> QuantumCompute_is_accessible
    [] question = "QuantumCompute_target" -> QuantumCompute_target
    [] question = "QiskitRuntime_target" -> QiskitRuntime_target
    [] question = "Default_status" -> Default_status
    [] question = "IQMServer_is_accessible" -> IQMServer_is_accessible
    [] question = "IQMServer_status" -> IQMServer_status
    [] question = "IQMServer_target" -> IQMServer_target
    [] question = "Felis_is_accessible" -> Felis_is_accessible
    [] question = "Felis_target" -> Felis_target
    [] question = "PasqalCloud_is_accessible" -> PasqalCloud_is_accessible
    [] question = "PasqalCloud_target" -> PasqalCloud_target
    [] question = "PasqalLocal_is_accessible" -> PasqalLocal_is_accessible
    [] question = "PasqalLocal_target" -> PasqalLocal_target
    [] question = "OQTOPUS_is_accessible" -> OQTOPUS_is_accessible
    [] question = "OQTOPUS_status" -> OQTOPUS_status
    [] question = "OQTOPUS_target" -> OQTOPUS_target
    [] question = "MaestroLocal_is_accessible" -> MaestroLocal_is_accessible
    [] question = "MaestroLocal_status" -> MaestroLocal_status
    [] question = "MaestroLocal_target" -> MaestroLocal_target

-----------------------------------------------------------------------------
(* A call. *)

Asked == UNION {Called.groups[g] : g \in DOMAIN Called.groups}
Matters == UNION {Reads(r) : r \in Asked}
Current ==
  LET open == {g \in DOMAIN Called.groups : ~ Called.groups[g] \subseteq DOMAIN known}
  IN IF open = {} THEN {}
     ELSE Called.groups[CHOOSE g \in open : \A h \in open : g <= h] \ DOMAIN known

QueryTypeOK ==
  /\ question \in Question
  /\ device \in Device
  /\ DOMAIN known \subseteq Request
  /\ \A r \in DOMAIN known : known[r] \in Device \cup {Failed}
  /\ replied \in {"not yet", "told", "error", "panic"}
  /\ were \subseteq Device

\* Bound: what no request of the method is about is as usual.
QueryInit(asks) ==
  /\ question \in IF asks THEN Question ELSE {"Default_status"}
  /\ known = << >>
  /\ device \in IF asks THEN Device ELSE {Usual}
  /\ device.api = "old" => question \in {"IQMServer_is_accessible", "IQMServer_status",
                                         "MaestroLocal_status"}
  /\ device.named => question = "IQMServer_target"
  /\ \A fact \in {"state", "healthy", "calibration", "running"} :
       fact \notin Matters => device[fact] = Usual[fact]
  /\ replied = "not yet"
  /\ were = {device}

Changes ==
  /\ replied = "not yet"
  /\ Cardinality(were) <= MaxChanges
  /\ \E fact \in Matters, d \in Device :
       /\ d = [device EXCEPT ![fact] = d[fact]]
       /\ d # device
       /\ device' = d
       /\ were' = were \cup {d}
  /\ UNCHANGED <<question, known, replied>>

Learns(request, what) ==
  known' = [r \in DOMAIN known \cup {request} |-> IF r = request THEN what ELSE known[r]]

Answered ==
  /\ replied = "not yet"
  /\ \E r \in Current : Learns(r, device)
  /\ UNCHANGED <<question, device, replied, were>>

\* The first request that fails ends the call, unless the method goes on without it.
Unanswered ==
  /\ replied = "not yet"
  /\ \E r \in Current :
       \/ r \in Called.mayFail /\ Learns(r, Failed) /\ UNCHANGED replied
       \/ /\ r \notin Called.mayFail \/ r = "artifact"
          /\ replied' = "error"
          /\ UNCHANGED known
  /\ UNCHANGED <<question, device, were>>

\* Felis expects its target in the list, which the vendor may have taken out.
Replies ==
  /\ replied = "not yet"
  /\ Current = {}
  /\ replied' = IF question = "Felis_target" /\ ~IsOnline("targets") THEN "panic" ELSE "told"
  /\ UNCHANGED <<question, device, known, were>>

QueryNext == Changes \/ Answered \/ Unanswered \/ Replies

-----------------------------------------------------------------------------
(* Properties. *)

\* What a device is that may be used, by the documentation of the vendors.
Ready(d) ==
  CASE question = "IQMServer_is_accessible" ->
         d.healthy = "yes" /\ (d.state = "online" \/ d.api = "old")
    [] question = "PasqalCloud_is_accessible" -> d.state # "offline"
    [] question = "Felis_is_accessible" -> TRUE
    [] OTHER -> d.state = "online"

\* Where a server or a method tells less than online, paused and offline.
ToldState(d) ==
  CASE question \in {"QuantumSystem_status", "IQMServer_status"} /\ d.api = "new" -> d.state
    [] question = "IQMServer_status" /\ d.api = "old" -> "online"
    [] OTHER -> IF d.state = "online" THEN "online" ELSE "offline"

\* What a resource tells of its device was so at a moment of the call, state and
\* health at the same moment; the free lanes are never more than there are.  The
\* parts of a target of IQM are of the calibration set that the resource names, or
\* of those that were the default one during the call.
ToldWasSo ==
  LET told == Called.tells
  IN replied = "told" =>
       /\ told.yes # "none" => \E d \in were : YesOrNo(Ready(d)) = told.yes
       /\ told.state # "none" =>
            \E d \in were : /\ told.state = ToldState(d)
                           /\ told.healthy \in {"none", d.healthy}
       /\ told.slots # -1 =>
            /\ told.slots \in 0..Lanes
            /\ \E d \in were : d.running + told.slots = Lanes \/ d.running > Lanes
       /\ told.parts \subseteq IF device.named THEN {0} ELSE {d.calibration : d \in were}
=============================================================================

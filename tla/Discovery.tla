----------------------------- MODULE Discovery -----------------------------
(***************************************************************************)
(* How a program comes by its resources: a ResourceProvider asks its       *)
(* service which backends there are and makes a resource of each           *)
(* (src/ibm/quantum_system_provider, quantum_compute_service_provider,     *)
(* qiskit_runtime_service_provider); QRMIService makes those of the job    *)
(* (src/service.rs).  A resource is made of environment variables whose    *)
(* names begin with its own name.  A provider writes them first, into the  *)
(* environment that all threads of the process share.                      *)
(***************************************************************************)
CONSTANTS
  Threads,      \* each has a provider, whose settings differ from the others'
  Backends

VARIABLES
  env,          \* whose setting each variable of a backend has
  extra,        \* the providers that set the optional variable too
  finds,        \* what each thread is doing: "resources" of its provider, or "new" of QRMIService
  step,         \* its next step
  todo,         \* the backends still to be made resources of
  current,      \* the one that is being made
  keys,         \* its variables still to be written, or to be read
  read,         \* what was read of them
  found,        \* the resources that were made
  crossed,      \* history: the threads whose backend another one wrote into meanwhile
  mixed         \* history: the backends that two threads have written into at a time

discoveryVars == <<env, extra, finds, step, todo, current, keys, read, found, crossed, mixed>>

Required == {"ENDPOINT", "SERVICE_CRN"}
Keys == Required \cup {"SESSION_MODE"}
Source == Threads \cup {"job", "unset"}
Settings == [Keys -> Source]

DiscoveryTypeOK ==
  /\ env \in [Backends -> Settings]
  /\ extra \in SUBSET Threads
  /\ finds \in [Threads -> {"resources", "new"}]
  /\ step \in [Threads -> {"idle", "list", "next", "inject", "construct", "ask"}]
  /\ todo \in [Threads -> SUBSET Backends]
  /\ current \in [Threads -> Backends]
  /\ keys \in [Threads -> SUBSET Keys]
  /\ read \in [Threads -> Settings]
  /\ crossed \in SUBSET Threads /\ mixed \in SUBSET Backends
  /\ \A t \in Threads :
       \A r \in found[t] : r.name \in Backends /\ r.of \in Settings /\ r.crossed \in BOOLEAN

Nothing == [k \in Keys |-> "unset"]

\* The workload manager has set the variables of the job's backends.
DiscoveryInit ==
  /\ env \in [Backends -> {Nothing, [k \in Keys |-> "job"]}]
  /\ extra \in SUBSET Threads
  /\ finds = [t \in Threads |-> "resources"]
  /\ step = [t \in Threads |-> "idle"]
  /\ todo = [t \in Threads |-> {}]
  /\ current \in {[t \in Threads |-> b] : b \in Backends}
  /\ keys = [t \in Threads |-> {}]
  /\ read = [t \in Threads |-> Nothing]
  /\ found = [t \in Threads |-> {}]
  /\ crossed = {} /\ mixed = {}

-----------------------------------------------------------------------------
(* The steps of a thread. *)

Goto(t, s) == step' = [step EXCEPT ![t] = s]

Calls(t, what, s) ==
  /\ step[t] = "idle"
  /\ finds' = [finds EXCEPT ![t] = what]
  /\ found' = [found EXCEPT ![t] = {}]
  /\ Goto(t, s)

resources(t) ==
  /\ Calls(t, "resources", "list")
  /\ UNCHANGED <<env, extra, todo, current, keys, read, crossed, mixed>>

\* The backends that the filter lets through and whose configuration can be had.
\* An error of the renewal of the token or of list_backends ends the call.
List(t) ==
  /\ step[t] = "list"
  /\ \/ \E some \in SUBSET Backends : todo' = [todo EXCEPT ![t] = some] /\ Goto(t, "next")
     \/ Goto(t, "idle") /\ UNCHANGED todo
  /\ UNCHANGED <<env, extra, finds, current, keys, read, found, crossed, mixed>>

\* QRMIService::new: the backends of the job, a type that is not known left out.
new(t) ==
  /\ Calls(t, "new", "next")
  /\ \E some \in SUBSET Backends : todo' = [todo EXCEPT ![t] = some]
  /\ UNCHANGED <<env, extra, current, keys, read, crossed, mixed>>

\* The variables that a provider has.
KeysOf(t) == IF t \in extra THEN Keys ELSE Required

Take(t) ==
  /\ step[t] = "next"
  /\ \E b \in todo[t] :
       /\ current' = [current EXCEPT ![t] = b]
       /\ todo' = [todo EXCEPT ![t] = @ \ {b}]
       /\ crossed' = IF \E o \in Threads : step[o] = "inject" /\ current[o] = b
                     THEN crossed \cup {t} ELSE crossed \ {t}
  /\ IF finds[t] = "resources"
     THEN Goto(t, "inject") /\ keys' = [keys EXCEPT ![t] = KeysOf(t)]
     ELSE Goto(t, "construct") /\ keys' = [keys EXCEPT ![t] = Keys]
  /\ UNCHANGED <<env, extra, finds, read, found, mixed>>

Done(t) ==
  /\ step[t] = "next" /\ todo[t] = {}
  /\ Goto(t, "idle")
  /\ UNCHANGED <<env, extra, finds, todo, current, keys, read, found, crossed, mixed>>

\* MUTANT of Written: a variable that is set is left as it is.
WrittenOnce(old, t) == IF old = "unset" THEN t ELSE old

Written(old, t) == t

\* The threads that are making the same backend a resource.
Beside(t) ==
  {o \in Threads \ {t} : step[o] \in {"inject", "construct"} /\ current[o] = current[t]}

\* inject_backend_env
Inject(t) ==
  /\ step[t] = "inject"
  /\ \E k \in keys[t] :
       /\ env' = [env EXCEPT ![current[t]][k] = Written(@, t)]
       /\ LET rest == keys[t] \ {k}
          IN IF rest = {}
             THEN Goto(t, "construct") /\ keys' = [keys EXCEPT ![t] = Keys]
             ELSE UNCHANGED step /\ keys' = [keys EXCEPT ![t] = rest]
  /\ crossed' = crossed \cup Beside(t)
  /\ mixed' = IF Beside(t) = {} THEN mixed ELSE mixed \cup {current[t]}
  /\ UNCHANGED <<extra, finds, todo, current, read, found>>

\* from_opt reads one variable after the other.
Construct(t) ==
  /\ step[t] = "construct"
  /\ \E k \in keys[t] :
       /\ read' = [read EXCEPT ![t][k] = env[current[t]][k]]
       /\ keys' = [keys EXCEPT ![t] = @ \ {k}]
  /\ UNCHANGED <<env, extra, finds, step, todo, current, found, crossed, mixed>>

Disturbed(t) == t \in crossed \/ (finds[t] = "new" /\ current[t] \in mixed)

Forget(t) == read' = [read EXCEPT ![t] = Nothing]

Keep(t) ==
  found' = [found EXCEPT ![t] =
              @ \cup {[name |-> current[t], of |-> read[t], crossed |-> Disturbed(t)]}]

Fails(t) == Goto(t, "idle") /\ found' = [found EXCEPT ![t] = {}]

Incomplete(t) == \E k \in Required : read[t][k] = "unset"

\* A provider leaves out what cannot be made of its settings; the service fails
\* over it, or asks the resource for its status.
Constructed(t) ==
  /\ step[t] = "construct" /\ keys[t] = {}
  /\ IF finds[t] = "resources"
     THEN Goto(t, "next") /\ Forget(t) /\ (Keep(t) \/ UNCHANGED found)
     ELSE IF Incomplete(t)
     THEN Fails(t) /\ Forget(t)
     ELSE Goto(t, "ask") /\ UNCHANGED <<found, read>>
  /\ UNCHANGED <<env, extra, finds, todo, current, keys, crossed, mixed>>

\* Online, not online, or an error, which ends QRMIService::new.
Asked(t) ==
  /\ step[t] = "ask"
  /\ \/ Keep(t) /\ Goto(t, "next")
     \/ UNCHANGED found /\ Goto(t, "next")
     \/ Fails(t)
  /\ Forget(t)
  /\ UNCHANGED <<env, extra, finds, todo, current, keys, crossed, mixed>>

DiscoveryNext ==
  \E t \in Threads :
    \/ resources(t) \/ List(t) \/ new(t) \/ Take(t) \/ Done(t)
    \/ Inject(t) \/ Construct(t) \/ Constructed(t) \/ Asked(t)

-----------------------------------------------------------------------------
(* Properties. *)

\* A resource that a provider returns is one of its own service, whatever an earlier
\* discovery of the same backend has left in the environment; and one of QRMIService
\* is of one service, not of two.  Nothing keeps another provider from writing in
\* between: the resource is then made of the settings of both, and so may later
\* ones be.
ResourceOfOneService ==
  \A t \in Threads : \A r \in found[t] :
    ~r.crossed =>
      /\ finds[t] = "resources" => \A k \in Required : r.of[k] = t
      /\ \A k, l \in Required : r.of[k] = r.of[l]
=============================================================================

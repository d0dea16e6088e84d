------------------------------ MODULE CBinding ------------------------------
(***************************************************************************)
(* The C interface (src/cext.rs).  A program of several threads calls it;  *)
(* a call that fails records its error for the thread, and logs it, which  *)
(* runs the program's log callback in the middle of the recording.  The    *)
(* callback may call the library again.                                    *)
(*                                                                         *)
(* Calls with a NULL pointer or a text that is not UTF-8 return at once    *)
(* and record nothing: they are stutters, and have no actions.             *)
(***************************************************************************)
EXTENDS Naturals, FiniteSets, Sequences, LogSink

CONSTANTS
  Threads,    \* bound: the threads of the program
  Objects,    \* bound: what is allocated at a time
  NoRuntime

VARIABLES
  crew, room,   \* the threads and the memory that this program uses
  frames,       \* per thread: the running calls that have met an error, innermost first
  lastKind,     \* LAST_ERROR_KIND of each thread
  lastMsg,      \* LAST_ERROR of each thread: the error whose message it is
  told,         \* history: the error that the thread's program was last told
  crossed,      \* history: a log callback failed while that error was recorded
  heap,         \* what is allocated, by its type
  home,         \* the tokio runtime of a resource or a provider
  refs,         \* how many hold a runtime (Arc)
  mine,         \* what the program has been given and has not freed
  list          \* the resources in its QrmiQuantumResources

errorVars == <<frames, lastKind, lastMsg, told, crossed>>
heapVars == <<heap, home, refs, mine, list>>
cVars == <<crew, room, errorVars, heapVars>>

\* Three of the kinds of QrmiErrorKind stand for all.
Kinds == {"InvalidInput", "UnsupportedFunction", "Other"}

\* An error without a kind: only its text is recorded.
Errors == Kinds \cup {"text"}

Type == {"string", "strings", "config", "def", "status", "capacity", "metadata",
         "resource", "provider"}
Runtimes == Objects

\* "write": the call waits for the lock of the log sink.
Frame == [step : {"log", "callback", "store"}, err : Errors]
           \cup [step : {"write"}, sets : Sinks \cup {NoSink}]

\* Bound: a log callback that is called by a log callback calls nothing.
MaxDepth == 2

TypeOK ==
  /\ sink \in Sinks \cup {NoSink} /\ readers \subseteq Threads /\ writer = Nobody
  /\ crew \subseteq Threads /\ room \subseteq Objects
  /\ \A t \in Threads : /\ Len(frames[t]) <= MaxDepth
                        /\ \A i \in 1..Len(frames[t]) : frames[t][i] \in Frame
  /\ lastKind \in [Threads -> Kinds]
  /\ {lastMsg, told} \subseteq [Threads -> Errors \cup {"none"}]
  /\ crossed \in [Threads -> BOOLEAN]
  /\ {heap, mine} \subseteq [Objects -> Type \cup {"none"}]
  /\ home \in [Objects -> Runtimes \cup {NoRuntime}]
  /\ refs \in [Runtimes -> 0..Cardinality(Objects)]
  /\ list \subseteq Objects

CInit ==
  /\ frames = [t \in Threads |-> <<>>]
  /\ lastKind = [t \in Threads |-> "Other"]
  /\ lastMsg = [t \in Threads |-> "none"]
  /\ told = [t \in Threads |-> "none"]
  /\ crossed = [t \in Threads |-> FALSE]
  /\ heap = [o \in Objects |-> "none"]
  /\ mine = [o \in Objects |-> "none"]
  /\ home = [o \in Objects |-> NoRuntime]
  /\ refs = [r \in Runtimes |-> 0]
  /\ list = {}

-----------------------------------------------------------------------------
(* Errors. *)

\* The program, or a log callback, calls the library.
Outermost(t) == frames[t] = <<>>
Inside(t, step) == frames[t] # <<>> /\ Head(frames[t]).step = step
MayCall(t) ==
  /\ t \in crew
  /\ Outermost(t) \/ (Inside(t, "callback") /\ Len(frames[t]) < MaxDepth)

Push(t, frame) == frames' = [frames EXCEPT ![t] = <<frame>> \o @]
Step(t, step) == frames' = [frames EXCEPT ![t] = <<[Head(@) EXCEPT !.step = step]>> \o Tail(@)]
Pop(t) == frames' = [frames EXCEPT ![t] = Tail(@)]

\* _set_last_error, up to its log record: the message is stored after that.
SetLastError(t, err) ==
  /\ Push(t, [step |-> "log", err |-> err])
  /\ told' = [told EXCEPT ![t] = IF Outermost(t) THEN "none" ELSE @]
  /\ crossed' = [crossed EXCEPT ![t] = ~Outermost(t)]
  /\ UNCHANGED <<lastMsg, sinkVars, crew, room>>

\* MUTANT of RecordKind: the process has one kind for all threads.
RecordKindForAll(t, kind) == lastKind' = [u \in Threads |-> kind]

RecordKind(t, kind) == lastKind' = [lastKind EXCEPT ![t] = kind]

\* _fail, and _record_error for calls that return a pointer.
Fail(t, kind) ==
  /\ RecordKind(t, kind)
  /\ SetLastError(t, kind)
  /\ UNCHANGED heapVars

FailWithText(t) ==
  /\ SetLastError(t, "text")
  /\ UNCHANGED lastKind
  /\ UNCHANGED heapVars

\* A call of a resource or a provider fails.
FailAnyhow(t) == \E kind \in Kinds : Fail(t, kind)

\* log::error! in _set_last_error.
Log(t) ==
  /\ Inside(t, "log")
  /\ DispatchToSink(t)
  /\ Step(t, IF sink = NoSink THEN "store" ELSE "callback")
  /\ UNCHANGED <<lastKind, lastMsg, told, crossed, crew, room>>
  /\ UNCHANGED heapVars

CallbackReturns(t) ==
  /\ Inside(t, "callback")
  /\ SinkReturned(t)
  /\ Step(t, "store")
  /\ UNCHANGED <<lastKind, lastMsg, told, crossed, crew, room>>
  /\ UNCHANGED heapVars

\* The rest of _set_last_error, and the return of the call.
StoreMessage(t) ==
  /\ Inside(t, "store")
  /\ lastMsg' = [lastMsg EXCEPT ![t] = Head(frames[t]).err]
  /\ told' = [told EXCEPT ![t] = IF Len(frames[t]) = 1 THEN Head(frames[t]).err ELSE @]
  /\ Pop(t)
  /\ UNCHANGED <<lastKind, crossed, crew, room>>
  /\ UNCHANGED heapVars
  /\ UNCHANGED sinkVars

\* What the thread is told of its last error.  The message stays.
qrmi_get_last_error(t) == lastMsg[t]
qrmi_get_last_error_kind(t) == lastKind[t]

\* Bound: a program that uses memory registers no callback.
qrmi_log_callback_set(t) ==
  /\ MayCall(t) /\ room = {}
  /\ \E s \in Sinks \cup {NoSink} : Push(t, [step |-> "write", sets |-> s])
  /\ UNCHANGED <<lastKind, lastMsg, told, crossed, crew, room>>
  /\ UNCHANGED heapVars
  /\ UNCHANGED sinkVars

\* The destructor of a C callback is no code of the program.
ReplaceSink(t) ==
  /\ Inside(t, "write")
  /\ SetLogSink(t, Head(frames[t]).sets, FALSE)
  /\ Pop(t)
  /\ UNCHANGED <<lastKind, lastMsg, told, crossed, crew, room>>
  /\ UNCHANGED heapVars

-----------------------------------------------------------------------------
(* Memory. *)

\* The call succeeds, as far as errors are concerned.
Succeeds(t) ==
  /\ MayCall(t)
  /\ UNCHANGED errorVars
  /\ UNCHANGED <<crew, room, sinkVars>>

Vacant == {o \in room : heap[o] = "none"}
Fill(f, S, v) == [o \in Objects |-> IF o \in S THEN v ELSE f[o]]

\* The program uses one of its objects.
Holds(type) == {o \in Objects : mine[o] = type}
Resources == Holds("resource") \cup list

Gives(S, type) ==
  /\ heap' = Fill(heap, S, type)
  /\ mine' = Fill(mine, S, type)

Allocates(t, type) ==
  /\ Succeeds(t)
  /\ \E o \in Vacant : Gives({o}, type)
  /\ UNCHANGED <<home, refs, list>>

Frees(t, type) ==
  /\ Succeeds(t)
  /\ \E o \in Holds(type) : Gives({o}, "none")
  /\ UNCHANGED <<home, refs, list>>

\* A handle is made with a runtime of its own.
Opens(t, type) ==
  /\ Succeeds(t)
  /\ \E o \in Vacant, r \in Runtimes :
       /\ refs[r] = 0
       /\ Gives({o}, type)
       /\ home' = [home EXCEPT ![o] = r]
       /\ refs' = [refs EXCEPT ![r] = 1]
  /\ UNCHANGED list

\* MUTANT of Closes: the runtime is released by hand, and with the handle.
ClosesTwice(t, type) ==
  /\ Succeeds(t)
  /\ \E o \in Holds(type) :
       /\ Gives({o}, "none")
       /\ home' = [home EXCEPT ![o] = NoRuntime]
       /\ refs' = [refs EXCEPT ![home[o]] = @ - 2]
  /\ UNCHANGED list

Closes(t, type) ==
  /\ Succeeds(t)
  /\ \E o \in Holds(type) :
       /\ Gives({o}, "none")
       /\ home' = [home EXCEPT ![o] = NoRuntime]
       /\ refs' = [refs EXCEPT ![home[o]] = @ - 1]
  /\ UNCHANGED list

\* What a call of a resource comes to.
Asks(t) == Resources # {} /\ MayCall(t)
GivesOrFails(t, type) == Asks(t) /\ (Allocates(t, type) \/ FailAnyhow(t))

-----------------------------------------------------------------------------
(* Strings and the configuration. *)

qrmi_string_free(t) == Frees(t, "string")
qrmi_string_array_free(t) == Frees(t, "strings")
qrmi_config_load(t) == MayCall(t) /\ (Allocates(t, "config") \/ FailWithText(t))
qrmi_config_free(t) == Frees(t, "config")
qrmi_config_resource_def_get(t) == Holds("config") # {} /\ Allocates(t, "def")
qrmi_config_resource_def_free(t) == Frees(t, "def")
qrmi_config_resource_names_get(t) == Holds("config") # {} /\ Allocates(t, "strings")
qrmi_config_resource_type_to_str(t) == Allocates(t, "string")
qrmi_config_resource_type_from_str(t) == MayCall(t) /\ Fail(t, "InvalidInput")

-----------------------------------------------------------------------------
(* Resources. *)

qrmi_resource_new(t) == MayCall(t) /\ (Opens(t, "resource") \/ FailAnyhow(t))

\* A configuration that is NULL or not UTF-8 has only a text.
qrmi_resource_new_from_config(t) ==
  MayCall(t) /\ (Opens(t, "resource") \/ FailAnyhow(t) \/ FailWithText(t))

\* The handles of a list belong to the list.
qrmi_resource_free(t) == Closes(t, "resource")

\* These give a value, or nothing at all.
qrmi_resource_is_accessible(t) == Asks(t) /\ FailAnyhow(t)
qrmi_resource_type(t) == Asks(t) /\ FailAnyhow(t)
qrmi_resource_release(t) == Asks(t) /\ FailAnyhow(t)
qrmi_resource_task_stop(t) == Asks(t) /\ FailAnyhow(t)
qrmi_resource_task_status(t) == Asks(t) /\ FailAnyhow(t)

qrmi_resource_id(t) == GivesOrFails(t, "string")
qrmi_resource_acquire(t) == GivesOrFails(t, "string")
qrmi_resource_task_result(t) == GivesOrFails(t, "string")
qrmi_resource_task_logs(t) == GivesOrFails(t, "string")
qrmi_resource_target(t) == GivesOrFails(t, "string")

\* A payload that is not UTF-8 is refused before anything is sent.
qrmi_resource_task_start(t) ==
  GivesOrFails(t, "string") \/ (Asks(t) /\ Fail(t, "InvalidInput"))

qrmi_resource_status(t) == GivesOrFails(t, "status")
qrmi_resource_status_free(t) == Frees(t, "status")

\* The vendor may not report the value.
Reported(t) == Holds("status") # {} /\ MayCall(t) /\ Fail(t, "UnsupportedFunction")
qrmi_resource_status_healthy(t) == Reported(t)
qrmi_resource_status_busy(t) == Reported(t)
qrmi_resource_status_pending_job_count(t) == Reported(t)
qrmi_resource_status_reason(t) == Holds("status") # {} /\ Allocates(t, "string")
qrmi_resource_status_capacity(t) ==
  Reported(t) \/ (Holds("status") # {} /\ Allocates(t, "capacity"))
qrmi_resource_capacity_free(t) == Frees(t, "capacity")

qrmi_resource_metadata(t) == Resources # {} /\ Allocates(t, "metadata")
qrmi_resource_metadata_free(t) == Frees(t, "metadata")
qrmi_resource_metadata_value(t) == Holds("metadata") # {} /\ Allocates(t, "string")
qrmi_resource_metadata_keys(t) == Holds("metadata") # {} /\ Allocates(t, "strings")

-----------------------------------------------------------------------------
(* Providers and the service. *)

qrmi_provider_new(t) ==
  MayCall(t) /\ (Opens(t, "provider") \/ FailAnyhow(t) \/ FailWithText(t))
qrmi_provider_free(t) == Closes(t, "provider")

\* MUTANT of HolderOf: the handles do not hold the runtime of their provider.
NoHolder(r, n) == refs

\* n handles hold the runtime r, too.
HolderOf(r, n) == [refs EXCEPT ![r] = @ + n]

\* Filters that are not UTF-8 have only a text.  The structure that is filled
\* was zeroed.
qrmi_provider_resources(t) ==
  /\ MayCall(t)
  /\ \E p \in Holds("provider") :
       \/ FailAnyhow(t) \/ FailWithText(t)
       \/ /\ Succeeds(t)
          /\ list = {}
          /\ \E S \in SUBSET Vacant :
               /\ heap' = Fill(heap, S, "resource")
               /\ home' = Fill(home, S, home[p])
               /\ refs' = HolderOf(home[p], Cardinality(S))
               /\ list' = S
          /\ UNCHANGED mine

qrmi_provider_resources_free(t) ==
  /\ Succeeds(t)
  /\ heap' = Fill(heap, list, "none")
  /\ home' = Fill(home, list, NoRuntime)
  /\ refs' = [r \in Runtimes |-> refs[r] - Cardinality({o \in list : home[o] = r})]
  /\ list' = {}
  /\ UNCHANGED mine

qrmi_provider_least_busy(t) ==
  /\ MayCall(t)
  /\ \E p \in Holds("provider") :
       \/ FailAnyhow(t) \/ FailWithText(t)
       \/ /\ Succeeds(t)
          /\ \E o \in Vacant :
               /\ Gives({o}, "resource")
               /\ home' = [home EXCEPT ![o] = home[p]]
          /\ refs' = HolderOf(home[p], 1)
          /\ UNCHANGED list

\* The resources of the job share a runtime; without resources it goes at once.
qrmi_service_resources(t) ==
  /\ MayCall(t)
  /\ \/ FailAnyhow(t)
     \/ /\ Succeeds(t)
        /\ list = {}
        /\ \E S \in SUBSET Vacant, r \in Runtimes :
             /\ refs[r] = 0
             /\ heap' = Fill(heap, S, "resource")
             /\ home' = Fill(home, S, r)
             /\ refs' = HolderOf(r, Cardinality(S))
             /\ list' = S
        /\ UNCHANGED mine

qrmi_service_resources_free(t) == qrmi_provider_resources_free(t)

-----------------------------------------------------------------------------
(* The system. *)

Calls(t) ==
  \/ qrmi_log_callback_set(t)
  \/ qrmi_string_free(t) \/ qrmi_string_array_free(t)
  \/ qrmi_config_load(t) \/ qrmi_config_free(t)
  \/ qrmi_config_resource_def_get(t) \/ qrmi_config_resource_def_free(t)
  \/ qrmi_config_resource_names_get(t)
  \/ qrmi_config_resource_type_to_str(t) \/ qrmi_config_resource_type_from_str(t)
  \/ qrmi_resource_new(t) \/ qrmi_resource_new_from_config(t) \/ qrmi_resource_free(t)
  \/ qrmi_resource_is_accessible(t) \/ qrmi_resource_type(t) \/ qrmi_resource_release(t)
  \/ qrmi_resource_task_stop(t) \/ qrmi_resource_task_status(t)
  \/ qrmi_resource_id(t) \/ qrmi_resource_acquire(t) \/ qrmi_resource_task_start(t)
  \/ qrmi_resource_task_result(t) \/ qrmi_resource_task_logs(t) \/ qrmi_resource_target(t)
  \/ qrmi_resource_status(t) \/ qrmi_resource_status_free(t)
  \/ qrmi_resource_status_healthy(t) \/ qrmi_resource_status_busy(t)
  \/ qrmi_resource_status_pending_job_count(t) \/ qrmi_resource_status_reason(t)
  \/ qrmi_resource_status_capacity(t) \/ qrmi_resource_capacity_free(t)
  \/ qrmi_resource_metadata(t) \/ qrmi_resource_metadata_free(t)
  \/ qrmi_resource_metadata_value(t) \/ qrmi_resource_metadata_keys(t)
  \/ qrmi_provider_new(t) \/ qrmi_provider_free(t)
  \/ qrmi_provider_resources(t) \/ qrmi_provider_resources_free(t)
  \/ qrmi_provider_least_busy(t)
  \/ qrmi_service_resources(t) \/ qrmi_service_resources_free(t)

\* A call that has met an error goes on.
Proceeds(t) == Log(t) \/ StoreMessage(t) \/ ReplaceSink(t)

Next == \E t \in Threads : Calls(t) \/ Proceeds(t) \/ CallbackReturns(t)

-----------------------------------------------------------------------------
(* Properties. *)

\* What a thread reads of its last error is that of the call that failed in this
\* thread: threads and log callbacks that fail in between leave it alone, but
\* that a callback's failure changes the kind of the error being recorded.
ErrorIsMine ==
  \A t \in Threads : told[t] # "none" /\ Outermost(t) =>
     /\ qrmi_get_last_error(t) = told[t]
     /\ told[t] \in Kinds /\ ~crossed[t] => qrmi_get_last_error_kind(t) = told[t]

\* What the program was given and has not freed is there, and its runtime runs:
\* also when the provider of the handles is gone, and when the memory of a freed
\* list has been used again before the list is freed once more.
HandlesLive ==
  /\ \A o \in Objects : mine[o] # "none" => heap[o] = mine[o] /\ o \notin list
  /\ \A o \in list : heap[o] = "resource"
  /\ \A o \in Objects : heap[o] \in {"resource", "provider"} => refs[home[o]] > 0

\* Whoever replaces the log callback never waits for a callback that runs, least
\* of all for itself: a callback may replace the callback.
ReplacingNeverWaits ==
  \A t \in Threads : Inside(t, "write") => readers = {} /\ writer = Nobody
=============================================================================

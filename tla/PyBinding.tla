------------------------------ MODULE PyBinding ------------------------------
(***************************************************************************)
(* The Python interface (src/src/pyext.rs).  An object has a tokio runtime *)
(* of its own, whose workers may log (dependencies log at RUST_LOG=trace): *)
(* the sink is Python code, for which a worker needs the GIL.  A method    *)
(* runs without the GIL and logs like a worker.  A constructor, the        *)
(* replacing of the callback and every destructor run under the GIL, that  *)
(* of a replaced callback under the lock of the log sink, too.             *)
(*                                                                         *)
(* One worker stands for those of its runtime and for block_on.  One       *)
(* object of a thread is in use at a time, and nothing of the service once *)
(* it is built: its resources are objects like others.  A callback that    *)
(* handles a record of its own thread calls nothing of the library (but    *)
(* see CBinding); the destructor of a callback may do what any code does.  *)
(***************************************************************************)
EXTENDS LogSink

CONSTANT
  Threads     \* bound: the Python threads

VARIABLES
  trace,      \* RUST_LOG lets the records of the workers through
  gil,        \* the thread, or the runtime whose worker, that holds the GIL
  at,         \* what each thread does
  has,        \* the object of each thread
  work,       \* what the tasks of each runtime do
  voice       \* whether its worker logs

pyVars == <<trace, gil, at, has, work, voice>>

Runtimes == Threads \X {"object", "service"}
Object(t) == <<t, "object">>
Service(t) == <<t, "service">>

\* "code" and "built" need the GIL; "method" and "discovery" are in block_on;
\* "drop" and "dropObject" wait for the end of a runtime.  "reads", in a
\* constructor that logs, and "writes" wait for the lock of the log sink;
\* "callback" is the sink, in the thread that logs.
At == {"code", "method", "discovery", "built", "drop", "dropObject",
       "reads", "writes", "callback"}

\* "logging": Python's own, through python_log_sink.
PySinks == Sinks \cup {NoSink, "logging"}

\* "idle": a connection is kept, "ending": the runtime is shut down.
Work == {"none", "busy", "idle", "ending"}

TypeOK ==
  /\ sink \in PySinks /\ readers \subseteq Runtimes \cup Threads
  /\ writer \in Threads \cup {Nobody}
  /\ trace \in BOOLEAN
  /\ gil \in Threads \cup Runtimes \cup {Nobody}
  /\ at \in [Threads -> At]
  /\ has \in [Threads -> {"none", "QuantumResource", "ResourceProvider"}]
  /\ work \in [Runtimes -> Work]
  /\ voice \in [Runtimes -> {"silent", "asking", "waiting", "speaking"}]

PyInit ==
  /\ gil = Nobody
  /\ at = [t \in Threads |-> "code"]
  /\ has = [t \in Threads |-> "none"]
  /\ work = [r \in Runtimes |-> "none"]
  /\ voice = [r \in Runtimes |-> "silent"]

-----------------------------------------------------------------------------
(* Threads. *)

Runs(t) == at[t] = "code" /\ gil = t
Goes(t, place) == at' = [at EXCEPT ![t] = place]
Turns(r, w) == work' = [work EXCEPT ![r] = w]

\* The interpreter switches threads.
LetGo(t) ==
  /\ at[t] \in {"code", "callback"} /\ gil = t
  /\ gil' = Nobody
  /\ UNCHANGED <<trace, at, has, work, voice, sinkVars>>

Attach(t) ==
  /\ at[t] \in {"code", "built", "callback"} /\ gil = Nobody
  /\ gil' = t
  /\ UNCHANGED <<trace, at, has, work, voice, sinkVars>>

\* create_resource may log before it returns.
Makes(t, class) ==
  /\ Runs(t)
  /\ has[t] = "none" /\ work[Object(t)] = "none"
  /\ has' = [has EXCEPT ![t] = class]
  /\ Goes(t, "code") \/ Goes(t, "reads")
  /\ UNCHANGED <<trace, gil, work, voice, sinkVars>>

\* The record of a constructor.  Its callback is called where it is made.
Records(t) ==
  /\ at[t] = "reads"
  /\ DispatchToSink(t)
  /\ Goes(t, IF sink = NoSink THEN "code" ELSE "callback")
  /\ UNCHANGED <<trace, gil, has, work, voice>>

CallbackReturns(t) ==
  /\ at[t] = "callback" /\ gil = t
  /\ SinkReturned(t)
  /\ Goes(t, "code")
  /\ UNCHANGED <<trace, gil, has, work, voice>>

PyQuantumResource_new(t) == Makes(t, "QuantumResource")
PyQuantumResource_from_config(t) == Makes(t, "QuantumResource")
PyResourceProvider_new(t) == Makes(t, "ResourceProvider")

\* py.detach(|| rt.block_on(...)).
Blocks(t, r, place) ==
  /\ Runs(t)
  /\ gil' = Nobody
  /\ Goes(t, place)
  /\ Turns(r, "busy")
  /\ UNCHANGED <<trace, has, voice, sinkVars>>

PyQuantumResource_methods(t) ==
  /\ has[t] = "QuantumResource"
  /\ Blocks(t, Object(t), "method")

\* The resources that a provider gives are objects like others.
PyResourceProvider_methods(t) ==
  /\ has[t] = "ResourceProvider"
  /\ Blocks(t, Object(t), "method")

\* The future has its answer, which the worker received.
Returns(t) ==
  /\ \/ at[t] = "method" /\ work[Object(t)] = "idle" /\ Goes(t, "code")
     \/ at[t] = "discovery" /\ work[Service(t)] = "idle" /\ Goes(t, "built")
  /\ UNCHANGED <<trace, gil, has, work, voice, sinkVars>>

ShutDown(r) == IF work[r] = "none" THEN "none" ELSE "ending"

\* MUTANT of PyQuantumResource_drop: the destructor of the runtime itself.
DropWaits(t) ==
  /\ Runs(t) /\ has[t] # "none"
  /\ has' = [has EXCEPT ![t] = "none"]
  /\ Turns(Object(t), ShutDown(Object(t)))
  /\ Goes(t, "dropObject")
  /\ UNCHANGED <<trace, gil, voice, sinkVars>>

\* shutdown_background: nothing is waited for.
PyQuantumResource_drop(t) ==
  /\ Runs(t) /\ has[t] # "none"
  /\ has' = [has EXCEPT ![t] = "none"]
  /\ Turns(Object(t), ShutDown(Object(t)))
  /\ UNCHANGED <<trace, gil, at, voice, sinkVars>>

\* QRMIService::new asks every resource of the job for its status.
PyQRMIService_new(t) ==
  /\ work[Service(t)] = "none"
  /\ Blocks(t, Service(t), "discovery")

\* At its end, and under the GIL, the destructor of its runtime runs.
DropServiceRuntime(t) ==
  /\ at[t] = "built" /\ gil = t
  /\ Goes(t, "drop")
  /\ Turns(Service(t), "ending")
  /\ UNCHANGED <<trace, gil, has, voice, sinkVars>>

Awaited(t) == IF at[t] \in {"discovery", "drop"} THEN Service(t) ELSE Object(t)

Dropped(t) ==
  /\ at[t] \in {"drop", "dropObject"} /\ work[Awaited(t)] = "none"
  /\ Goes(t, "code")
  /\ UNCHANGED <<trace, gil, has, work, voice, sinkVars>>

\* None: records go to stderr, not back to Python's logging.
set_log_callback(t) ==
  /\ Runs(t)
  /\ Goes(t, "writes")
  /\ UNCHANGED <<trace, gil, has, work, voice, sinkVars>>

\* The callback that is replaced has the last reference to its callable, or not.  The
\* destructor is code of the thread like other code.
ReplaceSink(t) ==
  /\ at[t] = "writes"
  /\ \E s \in Sinks \cup {NoSink}, runsCode \in BOOLEAN :
       /\ runsCode => sink \in Sinks
       /\ SetLogSink(t, s, runsCode)
  /\ Goes(t, "code")
  /\ UNCHANGED <<trace, gil, has, work, voice>>

\* The destructor has returned, and set_log_callback with it.
DestructorReturns(t) ==
  /\ Runs(t)
  /\ SinkDropped(t)
  /\ UNCHANGED pyVars

-----------------------------------------------------------------------------
(* Workers. *)

\* Dependencies log at trace level, a call itself also at others.
WantsToLog(r) ==
  /\ work[r] = "busy" \/ (trace /\ work[r] # "none")
  /\ voice[r] = "silent"
  /\ voice' = [voice EXCEPT ![r] = "asking"]
  /\ UNCHANGED <<trace, gil, at, has, work, sinkVars>>

FindsSink(r) ==
  /\ voice[r] = "asking"
  /\ DispatchToSink(r)
  /\ voice' = [voice EXCEPT ![r] = IF sink = NoSink THEN "silent" ELSE "waiting"]
  /\ UNCHANGED <<trace, gil, at, has, work>>

\* python_log_sink, or the closure of set_log_callback: Python::try_attach.
python_log_sink(r) ==
  /\ voice[r] = "waiting" /\ gil = Nobody
  /\ gil' = r
  /\ voice' = [voice EXCEPT ![r] = "speaking"]
  /\ UNCHANGED <<trace, at, has, work, sinkVars>>

Logged(r) ==
  /\ voice[r] = "speaking"
  /\ SinkReturned(r)
  /\ gil' = Nobody
  /\ voice' = [voice EXCEPT ![r] = "silent"]
  /\ UNCHANGED <<trace, at, has, work>>

\* A request is answered, or the tasks of a runtime that is shut down are gone.
WorkDone(r) ==
  /\ voice[r] = "silent"
  /\ work[r] \in {"busy", "ending"}
  /\ Turns(r, IF work[r] = "busy" THEN "idle" ELSE "none")
  /\ UNCHANGED <<trace, gil, at, has, voice, sinkVars>>

Next ==
  \/ \E t \in Threads :
       \/ LetGo(t) \/ Attach(t)
       \/ PyQuantumResource_new(t) \/ PyQuantumResource_from_config(t)
       \/ PyResourceProvider_new(t)
       \/ PyQuantumResource_methods(t) \/ PyResourceProvider_methods(t) \/ Returns(t)
       \/ PyQuantumResource_drop(t)
       \/ PyQRMIService_new(t) \/ DropServiceRuntime(t) \/ Dropped(t)
       \/ Records(t) \/ CallbackReturns(t)
       \/ set_log_callback(t) \/ ReplaceSink(t) \/ DestructorReturns(t)
  \/ \E r \in Runtimes :
       WantsToLog(r) \/ FindsSink(r) \/ python_log_sink(r) \/ Logged(r) \/ WorkDone(r)

-----------------------------------------------------------------------------
(* Properties. *)

Waits(t) == at[t] \in {"method", "discovery", "drop", "dropObject"}

\* A thread that has the GIL or the lock waits for what needs it: for the lock, whose
\* holder needs the GIL, or for a worker that needs the one or the other to log.
Stuck(t) ==
  \/ gil = t /\ at[t] \in {"reads", "writes"} /\ writer # Nobody
  \/ gil = t /\ at[t] = "writes" /\ readers # {}
  \/ gil = t /\ Waits(t) /\ voice[Awaited(t)] = "waiting"
  \/ t \in {gil, writer} /\ Waits(t) /\ voice[Awaited(t)] = "asking" /\ writer # Nobody

\* Methods, constructors, log callbacks and the destructors of objects never lock
\* the process up.  What may is the end of QRMIService(), and the destructor of a
\* replaced callback, which has the lock while it runs.
NobodyStuck == \A t \in Threads : Stuck(t) => at[t] = "drop" \/ writer # Nobody

\* There is no need to worry that the runtime of QRMIService() deadlocks when it is
\* dropped (the comment in PyQRMIService::new).
ServiceDropReturns == \A t \in Threads : at[t] = "drop" => ~Stuck(t)
=============================================================================

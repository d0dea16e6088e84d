# A TLA+ model of QRMI

QRMI (Quantum Resource Management Interface) gives a job of a workload manager
(Slurm) one interface to quantum resources of many vendors.  A resource is an
implementation of the Rust trait `QuantumResource` (`src/src/lib.rs`): it is
acquired and released, and tasks are started, watched, stopped and their
results fetched on it.  Every implementation translates these calls to requests
of a remote service that runs on its own, is shared with other users, and whose
replies can be late or lost.  Programs in Rust, Python, C and Lua use resources
through runners, bindings and adapters that have states of their own.  This
directory models the parts of QRMI whose correctness depends on that.

## Inventory

Paths are relative to `src/`.

| Component | State | Operations | What is hard | What makes it correct |
|---|---|---|---|---|
| `QuantumResource` (`src/lib.rs`, `src/error.rs`) | none | the trait | the contract of `task_start`: an error of a kind other than `Other` means that no task exists; `task_stop` must cancel a running task | every resource keeps it |
| Maestro Local (`src/maestro/local.rs`, `dependencies/maestro_rust_library`) | session, remembered terminal states, a flag shared by clones of a client; on the daemon: sessions, tasks, diagnostics | acquire, release, task_start (schema 2 and legacy), task_stop, task_status, task_result, task_logs, one command over the socket | each call is up to ten socket exchanges; the daemon, its workers and other clients act in between; replies time out; identifiers come back | no orphan, no false verdict, cancellation recovered, nothing leaks between sessions |
| Task runner (`src/bin/task_runner.rs`) | `IS_RUNNING`, the running block | main, signal task, run_task, reading of input files | a signal at any time; each step of the block can fail; the task may vanish | success is a delivery; the task is always stopped; the run ends |
| Python task runner (`python/qrmi/tools/task_runner/main.py`) | flag, job id | run, cleanup, reading of input files | as above, and KeyboardInterrupt | as above, and both runners take the same files |
| IBM Quantum System (`src/ibm/quantum_system.rs`, `dependencies/quantum_system_client`) | access token under a mutex; on the service: jobs, lanes, a bucket | task calls over POST, GET, cancel and DELETE of jobs, object store; programs under `app/` | layers repeat requests: retries for lost replies, renewal for rejected tokens; programs look and then act | one job per start, the contract of task_start, every call returns |
| IQM Server (`src/iqm/server.rs`, `src/iqm/error.rs`) | none; on the server: jobs, artifacts, a default calibration set | task calls, status, target | check, then cancel; three concurrent requests for a result | races are tolerated, a result is whole |
| IBM Quantum Compute Service and Qiskit Runtime Service (`src/ibm/quantum_compute_service.rs`, `qiskit_runtime_service.rs`) | session_id, bearer token and its age; on the service: sessions, jobs | acquire, release, task calls, status, target | sessions close, another token is released, tokens expire between two requests, pages of jobs shift | no session is forgotten open, no job stays in a closed one |
| Alice & Bob Felis (`src/alice_bob/felis.rs`) | none | task calls, target | a job exists before its input | the contract |
| Pasqal Cloud, Pasqal Local (`src/pasqal/`) | task kinds, token; acquisition token | task calls; acquire and release; configuration files | what is remembered only in the instance that started a task | the contract |
| OQTOPUS (`src/oqtopus/`, `dependencies/oqtopus`) | Python client | task calls | submissions that the configuration has repeated | the contract, one task per start |
| Discovery and settings (`src/service.rs`, `src/resource_provider.rs`, `src/common/`, the providers of `src/ibm/`) | map of resources; the environment of the process | QRMIService::new, providers, filters, constructors | settings are written to and read from an environment that all threads share; backends go on- and offline while they are listed | a resource is of one service, and one of those asked for |
| Logging sink (`src/common/logging.rs`) | one optional callback behind a lock | set, clear, log | a callback that logs or replaces the sink; a replaced one whose destructor runs code | no deadlock |
| C interface (`src/cext.rs`, `src/cext/`) | last error of each thread, objects on the heap | every exported function | a log callback runs in the middle of the recording of an error; objects share a runtime | an error is the caller's own; no use after free |
| Lua interface (`lua/`) | handles with cached tokens | acquire, release, detach, free, task calls | tokens given away or forgotten; code of the program runs inside a call | every session is remembered, or known to be lost; every text is freed once |
| Python interface (`src/pyext.rs`) | a runtime per object, the GIL | constructors, methods, destructors, set_log_callback | a worker needs the GIL to log while a destructor holds it; a thread logs under the GIL while another has the lock of the sink | nobody is stuck |
| Python layers (`python/qrmi/`) | polled jobs, batches, backends of Qiskit | primitives, Pulser connection, IQM provider | partial batches, remembered statuses, refreshed targets | no orphan, final states stay final, one calibration |

The components interact by calls: the task runner (or a Python layer, or a
binding) calls a resource, which takes `&mut self`, so one instance runs one
call at a time.  Instances meet in the remote service: several processes of a
job share the session that Slurm's plugin acquired, and other users act on the
same jobs.  Shared inside one process are the environment, the flag of the
runner, the token manager of an HTTP client, the version flag of Maestro's
client, the logging sink, and in Python the GIL.

## Modules

| Module | Models |
|---|---|
| `MaestroServer` | the Maestro daemon as its clients use it: sessions, tasks, retained diagnostics (external) |
| `MaestroLocal` | any number of `MaestroLocal` instances over one daemon |
| `TaskLifecycle` | abstract specification: what an instance promises about the tasks it names |
| `MaestroLocal_proofs` | theorems about `MaestroLocal`: its safety properties and its refinement of `TaskLifecycle` |
| `MaestroRequest` | the client of the daemon's request API, its clones and their flag |
| `MaestroWire` | one command over the socket: the line that goes out, time limits, the pieces that come back, what is taken for an answer |
| `TaskRunner` | the process `qrmi_task_runner`; its calls of the resource are left open |
| `RunnerContract` | `TaskRunner` over any resource that keeps the contract of the trait: abstract specification |
| `MaestroRun`, `MaestroRun_proofs` | `TaskRunner` composed with an instance of `MaestroLocal`; theorems about a run |
| `PythonRunner` | the Python task runner, over the resource of `RunnerContract` |
| `Payloads` | what both runners, Lua and C make of the input they are given |
| `QuantumSystem`, `QuantumSystem_proofs` | the IBM Quantum System resource, its HTTP client and the service's jobs; theorems about it |
| `HttpLayers` | the layers that `ClientBuilder` puts around a request of that client |
| `ClientApps` | the programs `run_job`, `run_primitive`, `cancel_job`, `utility` that come with it |
| `VendorCall` | one instance that runs one call at a time, and the tasks on a vendor's server |
| `IqmServer`, `Felis`, `PasqalLocal`, `PasqalCloud`, `Oqtopus`, `QuantumCompute`, `QiskitRuntime` | the resources of these vendors; the last is its predecessor under an older name |
| `Vendors`, `Vendors_proofs` | one of them, and the contract of the trait; theorems about all of them |
| `DeviceQueries` | `is_accessible`, `status` and `target` of every vendor |
| `BusyDevice` | `status` of a backend of the Quantum Compute Service, which pages through jobs |
| `Discovery` | `QRMIService::new` and the providers, over the environment of the process |
| `BackendListing` | the backends of a service that a filter asks for |
| `Settings` | what a constructor takes from the environment, a map or a file |
| `PrimitiveJob` | the jobs that Qiskit gives its user |
| `QiskitBackend`, `IqmBackend` | the two backends of Qiskit |
| `PulserConnection` | batches of Pulser |
| `Clients`, `Clients_proofs` | one of the programs and libraries on either side of a resource; theorems about them |
| `LogSink` | the callback that log records go to, and its lock |
| `CBinding` | the C interface: errors, callbacks, objects |
| `LuaBinding`, `LuaCall` | the Lua interface: the sessions of its handles; one call after another |
| `PyBinding` | the Python interface: runtimes, workers, the GIL |
| `Bindings`, `Bindings_proofs` | a program in one of these languages; theorems about it |
| `MCVendors`, `MCBindings` | the symmetries of these two, for TLC; the other runs take their module as it is |

`PROJECT.json` maps each definition to the lines of the source that it stands for;
the lines of a Rust item begin with its documentation comment, which in
`src/cext.rs` is where ownership and return values are described.

`MaestroLocal` EXTENDS `MaestroServer`; `RunnerContract` and `PythonRunner`
EXTEND `TaskRunner`; `MaestroRun` EXTENDS `MaestroLocal` and INSTANCEs
`TaskRunner`; the vendors' modules EXTEND `VendorCall`, `QiskitRuntime`
EXTENDS `QuantumCompute`; `CBinding` and `PyBinding` EXTEND `LogSink`.
`Vendors`, `Clients` and `Bindings` INSTANCE one module per alternative; which
of them a behaviour is about (`vendor`, `client`, `host`) is chosen in the
initial state and never changes, and the variables of the others keep their
initial value.  So one run checks one statement, such as the contract of
`task_start`, of every implementation of it.

### Maestro Local

One action is one socket exchange with all that the call does until the next
one.  `pc[c]` is the exchange that comes next in instance `c`, `call[c]` the
running call, `out[c]` how the last one returned.  `session`, `cache` are the
fields `session_id` and `terminal_tasks`.  The other fields of the model are
history: `gen` counts the tasks that have had an identifier, `fate` tells how
each of them ended, `handle` which of them the instance started, `call.made`
and `call.clean` what a call did on the daemon.

    acquire        SessionExists, SessionCreate
    release        SessionDelete
    task_start     Submit | TaskCreate, Configure, Execute, SubmitCleanup
    task_status    Lookup, AskExists, AskFailed, AskFinished, AskFailedAgain,
                   AskRunning, Recheck, ReadHistory
    task_stop      the status, then Cancel, then the status again
    task_result    the status, then Ensure, GetResults, GetRecheck

`Trouble` says what may go wrong in an exchange: the daemon is unreachable, it
obeys and the reply is lost, it refuses what it could do.  `Construct` is both
the death of a process, in any call, and its replacement.

Abstractions: the six or seven setters of the legacy submission are one
exchange, because the code treats their replies alike and stops at the first
failure; negotiation and submission of a schema-2 request are one exchange;
`task_logs` reads only; payloads, results and error texts have no content.

Two modules look inside what is one step there.  `MaestroRequest` has the clones
of a client negotiate and submit at the same time, over a server that may be
replaced by one of another version.  `MaestroWire` is one exchange: the text is
made one line (`OneLine`, which is `set_qasm_at`'s), goes out, the daemon obeys
in its own time, and the reply comes back in pieces (`Complete`) before the
time limit of the command (`ReplyTimeout`) or not.

### The task runners

`stage` is where the process is, `running` the flag `IS_RUNNING`, `asked` and
`answer` the `.await` on the resource.  `Signal` may happen at any time between
`Signals::new` and the end of `run_task`, `Kill` (SIGKILL, SIGINT, or SIGTERM
before `Signals::new`) at any time at all.  `RunnerContract` answers with what
the trait promises, of a resource whose calls may fail (`faulty`) or of one whose
calls do not: a terminal status is the truth, a failed call promises
nothing, `task_stop` that returns Ok leaves no active task.  `MaestroRun`
answers with the calls of a Maestro Local instance beside other instances, and
is shown to implement `RunnerContract` with `job` mapped to the fate of the
task that this run's `task_start` created.

`PythonRunner` goes through the same stages, with `KeyboardInterrupt` between
any two steps; `lost` records that it came where no finally block follows (while
`task_start`'s identifier is not assigned yet, or within the finally block).

`Payloads` is functions rather than steps: `Build` picks a program and what it
is given, and records what `task_start` gets.  The readers of the two runners,
the C structure and the Lua table are definitions of their own, so that they can
be compared.  `Width32` is the range of a 32-bit number; a document is a record of the kinds of its
fields.

### IBM Quantum System

A call is a sequence of requests (`req`); a request passes through
`AuthMiddleware` (`token`, `renewed`) and the retry middleware (`attempt`).
Failures without an answer, 408 and 5xx are one kind of event, because the
client treats them alike (transient, and `Other` in the end).  429 and 423 are
repeated without a bound by an inner layer: such an attempt changes nothing and
is not a step, but `full` disables the submission.  What the service answers to
a request it cannot obey is taken from the comments of the client's functions;
where they do not name the status, every kind is possible.

`HttpLayers` has the layers one by one, and says what is sent, how often, and
what the caller is told: `built` is what `ClientBuilder` was asked for, a
request goes down (`entered`) and a reply comes up (`came`), and `tally` counts.
`ClientApps` has the programs that run a job through the library's functions
that no resource uses; `cancel_job` or `utility` runs beside them.

### The other vendors

`VendorCall` holds the running call (`call`), the requests it still has to make,
how the last one returned (`out`) and the tasks (`job`).  A call is begun with
its list of requests and takes one of them per step; between two of them tasks
run on, end, or are cancelled by other users, tokens age and sessions close.  An
action of a vendor's module is one request with what the code does with its
answer: the requests and the answers' kinds are the generated client's, the
mapping to `QrmiError` that of the resource.

* `IqmServer`: no request is repeated.  `get_job_v1` waits for the end of the
  job for up to 30 seconds: the model's answer is the status of any later
  moment.  The two artifact requests of `task_result` are answered in any order;
  the third one, for metadata, cannot fail the call and is left out.
* `Felis`: a job is created, then its input is uploaded.
* `PasqalLocal`: `session` is the warden's, `token` the resource's.
* `PasqalCloud`: `kind` is what the instance remembers of the tasks that it
  started, `sort` what they are; `auth` is the token, `creds` whether it can be
  renewed.
* `Oqtopus`: `retries` are the methods that the configuration has repeated.
* `QuantumCompute`: `held` is `session_id`, `sess` the sessions of the service,
  `low` those that are almost used up, `runsIn` the session of a job; `timely`
  is a bearer token that was checked in this call; `stray` says that another
  session than the one held was released, or that a reply about one was lost.

### What a resource tells of its device

`DeviceQueries` has one call of `is_accessible`, `status` or `target` of any
vendor: its requests in their order, or at once where the code joins them, the
device changing in between, and what is put together of the answers.
`BusyDevice` is `status` of the Quantum Compute Service, where the list of
backends and the search for a dedicated session run at the same time.

### How a resource is made

`Discovery` has several threads of one process call `QRMIService::new` and the
providers: `env` is the environment that they share.  `BackendListing` is the
`resources` function of the three IBM providers up to the list of the backends:
the filter is parsed, the backends are listed, and all are asked about at once.
`Settings` is what each constructor reads, from the environment, from a map or
from the configuration file of Pasqal Cloud: every combination of
the settings of one subject, given well, given badly or missing.

### Qiskit and Pulser

`PrimitiveJob` is one job of one of three classes, asked about again and again
while the resource ends the task and forgets it.  `PulserConnection` submits,
watches and cancels batches one task at a time.  `QiskitBackend` keeps three
parts of what the resource told, and refreshes one after the other, while the
device is calibrated and two threads use the backend.  `IqmBackend` is the name
of a quantum computer on its way from Slurm to the server and back, the
calibration set, and the strings of bits.

### The bindings

`CBinding`: `frames` is each thread's stack of calls, because a log callback may
call the library from within a call; `lastKind`, `lastMsg` are the thread-local
error, `told` what the program was told; `heap` and `home` are the objects and
the runtime they live on, `refs` who shares it.  `LuaBinding` follows sessions
(`cached`, `open`, `away`): a request to release or to acquire may fail before or
after the server has obeyed it, and `untold` are the sessions of acquires that
failed after.  `LuaCall` is the steps of one function of `lua_qrmi.c` at a time:
`holds` are the texts that C gave it and it must free.

`PyBinding`: `gil` is who holds the GIL, `work` the task of a runtime, `voice`
whether its worker logs: it asks for the sink, waits for the GIL, speaks.  `at` is
what each thread does.  In a method it has let the GIL go, and what it logs there
counts as its runtime's `voice`.  In a constructor (`reads`) and in
`set_log_callback` (`writes`) it waits for the lock of the sink under the GIL.
`LogSink` keeps who has that lock, `readers` and `writer`.  `dispatch_to_sink` gives it
back before the callback runs, so `readers` is empty between steps.  `set_log_sink` drops the
replaced callback before it gives it back: when the callable's last reference goes,
its destructor runs code of the program, in which the thread is `writer` and may do
whatever it does elsewhere (let the GIL go, make objects, call methods, log,
replace the callback), until `DestructorReturns`.  A C callback is a function
pointer, and its replacing is one step (`ReplaceSink` of `CBinding`).

## What the runs check

| Run | Bounds | Shows |
|---|---|---|
| `maestro_shared` | 2 instances, 1 session, 1 identifier, every trouble | `StartContract`, `NoSilentOrphan`, `StopSettles`, and the refinement `KeepsPromise` of `TaskLifecycle` |
| `maestro_reuse` | 1 instance, 2 sessions, an identifier given twice, every trouble | `VerdictsScoped`, `VerdictsTruthful` when the daemon reuses identifiers |
| `maestro_recovery` | 2 instances, 1 identifier, the daemon can be reached, fair | `CancellationRecovered`: a cancellation is never reported as a missing task; `CallsReturn` |
| `maestro_run_trouble` | 2 instances, every trouble | `RunKeepsContract`: the composition implements `RunnerContract` |
| `maestro_run_calm` | 2 instances, no trouble, fair | `RunLeavesNothing`, `EndedTaskEndsRun` |
| `quantum_system_trouble` | 2 jobs, 2 retries, every trouble, fair | `OneJobPerStart`, `ContractWithoutRepeats`, `StopSettles`, `RenewalHelps`, `CallsReturn` |
| `quantum_system_retry` | 1 job, 1 retry | violation, see Findings |
| `vendors` | 2 jobs, 2 sessions, every trouble, seven vendors | `StartContract`, `OneJobPerStart`, `StopSettles`, `FinalStatusIsFinal`, `StatusAnswers`, `ResultWhole`, `NoSessionForgotten`, `NoJobLeftInSession` |
| `iqm_stop_race` | 1 job | violation, see Findings |
| `clients` | sixteen clients, see below | `ToldIsTrue`, `NoTaskLeftBehind`, `RefusalIsDefinite`, `ResourceOfOneService`, `InputArrives`, and `RunEnds` under fairness |
| `bindings` | four kinds of programs, see below | `ErrorIsMine`, `HandlesLive`, `CallsTidy`, `SessionsAccounted`, `NobodyStuck` |
| `py_service_drop` | the same | violation, see Findings |

The `TypeOK` of each of `MaestroLocal`, `QuantumSystem`, `Vendors`, `Clients`
and `Bindings` is an invariant of its first run; those of the composed modules
are conjuncts of theirs.  What must hold only of calls that nothing disturbs is
stated with the call's own history (`met`), so the runs under every trouble
check it too, beside and after disturbed calls.

The properties of `Clients` are conjunctions: one statement, for every client
that it is about.

| Property | Of | Says |
|---|---|---|
| `ToldIsTrue` | `RunnerContract`, `PythonRunner` | a run that succeeds has delivered the result of a task that completed |
| | `PrimitiveJob`, `PulserConnection` | a job tells one final status; a batch that is told to have ended has |
| | `MaestroWire` | what is taken for an answer is the daemon's; a cancellation is waited for |
| | `DeviceQueries`, `BusyDevice` | what is told of a device was so at some moment of the call |
| | `QiskitBackend`, `IqmBackend` | what a backend shows is of one answer; of the computer that was asked for, and each bit where it was measured |
| | `HttpLayers` | a call returns what came last, after as many requests as the policies say |
| | `ClientApps` | the results that are printed are the job's; a listing shows each key once |
| `NoTaskLeftBehind` | the runners, `PulserConnection`, `ClientApps` | over a resource that works, what was started has ended or was stopped |
| `RefusalIsDefinite` | `MaestroRequest` | a submission that is reported refused was not made |
| `ResourceOfOneService` | `Discovery`, `BackendListing`, `Settings` | a resource is made of the settings of one service, is one that was asked for, and takes what was given for it |
| `InputArrives` | `Payloads`, `MaestroWire` | what a program is given reaches `task_start`, and the daemon, as it is, or is refused |

The following are excepted in the properties, because the code does otherwise
and nothing it says forbids it.  Where the model has a state for the exception
its name is given.

* Vendors: `NoSessionForgotten` excepts a caller that released another session
  than the one held, or met a lost reply about one (`stray`).  `StatusAnswers`
  excepts a malformed token of Pasqal Cloud and missing credentials.
* Runners: `NoTaskLeftBehind` excepts an interrupt of `main.py` where no finally
  block follows (`lost`), and a runner that is killed.
* Jobs: `RuntimeJobV2` and `IQMJobCustom` may raise after they told a final
  status, because they ask again.
* Devices: Felis is always told accessible; Pasqal Cloud is unless it is
  retired; an IQM target with the calibration set `default` may be put together
  of two sets; a dedicated session that runs all the time can be missed between
  two pages (`slips`).
* Backends: overlapped refreshes, an option set since, and properties that are
  taken one by one (`QiskitBackend`); an IQM name is right only when its only
  colon is its last separator; a register of which no bit was measured is left
  out, fewer shots than asked for are an `IndexError`, and nothing warns that
  the default calibration set changed.
* Discovery: a provider whose settings were written over by another thread
  (`crossed`); a simulator that the Quantum Compute Service does not mark as one,
  and a backend about which a request failed (`missed`).
* Settings: a blank key of Pasqal Cloud's map hides the lower-case one and the
  file is read; the two credentials of a pair may be of two sources; an unusable
  `QRMI_IBM_QCS_TIMEOUT_SECONDS` hides the job's own limit; a Pasqal Local
  resource made from a map without a session takes that of the environment
  (`src/pasqal/local.rs:108`).
* Payloads: `main.py` quotes texts of a JSON file once more; Lua's number of
  runs wraps; a Qiskit program other than the two primitives (`executor`) passes `main.py` only; a `schema_version`
  of 2.0 is accepted by Python and refused by the resource; a `//` comment in a
  circuit swallows what follows it in the one line (`src/dependencies/maestro_rust_library/src/maestro/session.rs:520`).
* Bindings: an open session of a Lua program that no handle caches and that was not
  detached, when its release failed or another token was released (`excused`), or when
  the acquire that opened it failed (`untold`): the reply was lost, or the token was no
  C string, which `src/cext.rs:1596-1607` drops.  `l_acquire` then returns an error and caches
  nothing, so neither the program nor its handles can release that session.
  A Python process can be locked up at the end of `QRMIService()` and while the
  destructor of a replaced log callback has the lock (see Findings).
  The kind of an error when a log callback failed while it was
  recorded (`crossed`); type names and the error text of `new_from_config` in
  Lua are never freed; Lua's `task_start` for Maestro holds its handle before it
  reads the fields (`slip`).
* Programs of the Quantum System client: `run_job` may print a cancelled job's
  stored results; a job is left when a request failed, when somebody else
  cancelled it, and when it had ended before it was cancelled.

### Bounds

Instances of Maestro Local interact only through
the daemon's entry for a task or a session, so two instances on one task show
every interference on it; with reuse one instance and two generations of one
identifier suffice to confuse two tasks, and two sessions to confuse sessions.
(`ReuseAssumption`: with reuse and several instances the code has no means to
tell its own task from another's, and nothing could be asked of it.)
`MaxGen` bounds how often an identifier is given, `Jobs` how many jobs are
submitted.  Of the retries only "none", "one more" and "the last" are
different, so two stand for five.

* Vendors: an instance names one task at a time, so two jobs are one that is
  asked about and one that is not; two sessions are that held and another one.
  `QiskitRuntime`, whose methods are `QuantumCompute`'s, meets failing requests
  only.
* Bindings: a C program has either two threads and no objects or one thread and
  three objects (a provider, what it gave, and something else): errors are per
  thread, and memory does not depend on the thread.  Callbacks nest two deep.  A
  Python object has one worker for all of its runtime's, and two threads show what
  one does to another; a Python log callback that handles a record of its own
  thread calls nothing of the library (a C callback does).  A Lua program has two
  handles and two sessions; metadata has one key, and errors of memory that Lua
  raises are left out.
* Runners: one task.  Batches: two of two tasks (`Width`, `MaxTasks`), so that
  one of a batch may fail and a second may be submitted over the first.
* `MaestroRequest`: two clones.  `MaestroWire`: texts of three pieces, time in
  units of 15 seconds: 1 for an ordinary reply, 4 for that of a cancellation, 2
  for the daemon's cleanup.
* `Payloads`: three bits stand for 32; every document over the kinds of its
  fields, but no fields both of other vendors and unknown, and beside a request at
  most one field of another envelope, which is what refuses it.
* `Discovery`: two threads, one backend.  `BackendListing`: two backends, one of
  them plain, and two segments of a filter; a backend toggles only where the
  filter asks for the status, and until it was asked.
* `DeviceQueries`: at most two changes of the device in a call, only of what the
  method reads.  `BusyDevice`: pages of two for 200, two pages before
  `MAX_OFFSET`, at most five pending jobs, one of them in the dedicated session
  and one in another; `paused` stands for offline too; the backend is online at
  first, and changes once, before it was looked at.
* `Settings`: the settings of one subject vary, and the others are given well;
  files of at most two lines, directories of at most two entries; the
  environment stays while a constructor reads it.
* `QiskitBackend`: calibrated again once, an option set once, two threads.
  `IqmBackend`: two servers, names of at most two separators, two registers of
  at most two bits, three measured bits, two shots, one change of the default
  set.
* `HttpLayers`: one retry stands for five; a call asks for a token three times
  at most (at first, after a 401, and once more if the new one expired at once);
  429 and 423 are waited out.
* `ClientApps`: pages of two keys, five keys; one of `cancel_job` and `utility`
  beside one program.

### Assumptions

A call is shorter than the 360 seconds by which a token of the Quantum Compute
Service must outlive its check; the identifier of a CUDA-Q job is accepted where
that of a batch is asked for; servers answer what the code and its comments
expect them to; the Quantum System service stores a result before its job is
`Completed`; `convert_to_target` of qiskit-ibm-runtime leaves faulty qubits out;
the default strategy of `reqwest_retry` holds 408, 429, 5xx, broken connections
and timeouts for transient.  Symmetry is used in `vendors` over jobs and sessions and in
`bindings` over threads, objects, sessions and handles, which the code only
compares, and in no run that checks liveness.

### Fairness

`CallsReturn` of Maestro Local assumes that every exchange ends, which the reply
timeout of the socket client sees to; nothing is assumed of the daemon.
`RunFairSpec` adds that the runner's threads run.  `Spec` of `Clients`
assumes of both task runners that their threads run and that every call of the
resource returns, that a call of `task_stop` ends the task or fails, and, with
strong fairness, that a task's terminal status is told in the end: an error of
task_status is tried again without a bound.  That `main.py` begins its run
belongs to the first.  `FairSpec` of `QuantumSystem` needs strong fairness,
because other users may take the lanes again and again: a submission that finds
them full at each attempt never returns, and this is what the code does.
Nothing else is assumed fair: a task may run for ever, a signal may never come.

Deadlock is checked except in `clients`, `bindings`, `py_service_drop` and the
two runs of `MaestroRun`: there the program ends, or is locked up, which is a
finding.

## What is proved

For every value of the constants that satisfies their named assumptions, by
`tlapm`.  Each theorem is `Spec => []P` for a `P` that a run checks too, except
where something else is said.

| Module | Theorems | Properties |
|---|---|---|
| `MaestroLocal_proofs` | `TypeCorrect`, `ContractHolds`, `ScopedAlways`, `TruthfulAlways`, `StopSettlesAlways`, `OrphanNever` | `TypeOK`, `StartContract`, `VerdictsScoped`, `VerdictsTruthful`, `StopSettles`, `NoSilentOrphan` |
| | `PromiseKept` | `KeepsPromise`: `MaestroLocal` implements `TaskLifecycle` |
| | `CancellationRecoveredAlways` | the action property `CancellationRecovered` |
| `MaestroRun_proofs` | `RunContractKept` | `RunKeepsContract`: `MaestroRun` implements `RunnerContract` |
| | `RunLeavesNothingAlways` | `RunLeavesNothing` |
| `QuantumSystem_proofs` | `TypeCorrect`, `ContractHolds`, `OneJobAlways`, `StopSettlesAlways`, `RenewalAlwaysHelps` | `TypeOK`, `ContractWithoutRepeats`, `OneJobPerStart`, `StopSettles`, `RenewalHelps` |
| `Vendors_proofs` | `TypeCorrect`, `StartContractAlways`, `OneJobAlways`, `StopSettlesAlways`, `FinalAlways`, `StatusAnswersAlways`, `ResultAlways`, `SessionsRemembered`, `SessionsEmptied` | `TypeOK`, `StartContract`, `OneJobPerStart`, `StopSettles`, `FinalStatusIsFinal`, `StatusAnswers`, `ResultWhole`, `NoSessionForgotten`, `NoJobLeftInSession` |
| `Bindings_proofs` | `TypeCorrect`, `ErrorIsMineAlways`, `HandlesLiveAlways`, `SessionsAccountedAlways`, `NobodyStuckAlways` | `TypeOK`, `ErrorIsMine`, `HandlesLive`, `SessionsAccounted`, `NobodyStuck` |
| `Clients_proofs` | `RefusalIsDefiniteAlways`, `NoTaskLeftBehindAlways` | `RefusalIsDefinite`, `NoTaskLeftBehind` |
| | `TasksToldAlways` | `TasksToldAsTheyAre`: of `ToldIsTrue`, what is said of tasks |
| | `BackendAgreesAlways` | of `ToldIsTrue`, what `QiskitBackend` shows of its device |
| | `FoundOfOneServiceAlways` | `Discovery`'s part of `ResourceOfOneService` |

None of the properties is inductive: each speaks of calls that have returned, or
of what a program holds, and follows from what is true in the middle of a call.

**Maestro Local** (any number of instances, sessions, identifiers and
generations, any `Trouble`).  A step of `Configure` reads `task[call[c].key]`,
so the type of a call must say that from `taskCreate` on the key is one of the
session, and that task_status, task_stop and task_result have a key;
`StartContract` needs that a running `task_start` has made a task only from
`configure` on, where no path returns a refusal any more.  This is `Calls` of
`MaestroLocal_proofs`.  The other properties rest on two more invariants.
`Books` relates what the daemon keeps to the history: the present task of an
identifier has the fate `active`, no other has, a diagnostic record is of a
cancelled present task, and without reuse an identifier is given once.  `Sober`
says what each instance may believe at each exchange: what it remembers is of a
session it holds, of a task not older than its own and true (`Remembers`); what
the running call has established when it takes the exchange at `pc` (`Fits`: that
nothing is remembered of a task that is asked about, that a failure which is
looked for again is of a task that is not active, that the task is over once its
history is read or, when no exchange goes wrong, once it was cancelled); and
what a returned call has told (`Tells`).  The
daemon's steps are classified by what they may do to an identifier (`Grows`,
`Undisturbed`, `OnlyTouches`), so that the belief of every *other* instance is
shown to survive them once and not for each action.

`PromiseKept` shows the refinement from that invariant: the initial state
maps to an initial state, and every action is, under the mapping, a step of
`TaskLifecycle` (`Advance`, one step per action) or leaves its variables alone.
`CancellationRecoveredAlways` needs one more invariant, `RInv`: in a session that
is still live, a cancelled task that the instance started is in its memory, or
its own `task_stop` is under way and the daemon's record is there.

**A run on Maestro Local** (any number of instances, sessions and identifiers, any
`Trouble`).  `RunContractKept` composes two proofs: the mapping takes the job of
`RunnerContract` from the fate that the daemon's books give the run's task, so
that a step of the daemon, or of another instance, must be the job beginning or
ending or nothing, and every step in which a call of the runner's instance
returns must be an answer that the contract allows.  `RunInv` says, on top of the
invariants of `MaestroLocal`, where the process is when it has a task and which
call it waits for (`Placed`); that the exchanges under way are of that call, and of
the task of this run and no other (`CallFits`); that what the instance returned
last is what the process goes by (`OutFits`), so that nothing happens between an
answer and its use that would make it false for the process; what it may rely on
of its task (`Knows`); and that an accepted submission has made the task, and a
terminal status and a result are true of it (`Speaks`), which `StopSettles` says
of an `Ok` of task_stop.  `Sober` of `MaestroLocal` gives this for *some*
task of the identifier that is not older; that this one is the run's own needs
that identifiers are not given again (`RunnerAssumption`).  `RunLeavesNothing` follows
from `Knows` and `NoSilentOrphan`.

**IBM Quantum System** (any set of jobs, any number of retries, any `Trouble`).
`IInv` adds to the types and the properties themselves: which call a request
under way belongs to (`Belongs`), that a submission that was not repeated has
made nothing (`Submitting`), that a `task_stop` that met no trouble deletes only
what does not run (`Stopping`), and that a token that was renewed and is bad was
revoked since (`Renewing`).  `StartContract` itself is not claimed: the run
`quantum_system_retry` violates it.

**The other vendors** (any sets of jobs and sessions, any `Trouble`).  A step is
one of a few kinds, whatever the vendor: the server moves on (`Passes`), a call
begins, continues, or returns (`Begins`, `Continues`, `Returns`).  That these
keep the statements about all vendors (`Common`) is proved once.  For each
vendor an invariant says what the requests of a call know (`FelisKnows`, `IqmKnows`,
...: of which method a request is, before which of them a job has been made, and
what the answers that have come say of the job, such as the artifacts of IQM's
two concurrent requests), and every action is shown to be of one of the kinds and
to keep it.  For
the IBM services it also relates sessions to jobs: unless `stray`, an open
session is that held, and a session that is draining or closed has no pending
job.  `QiskitRuntime` is `QuantumCompute` with fewer troubles; its steps are
shown to be steps of the latter with all of them.

**The bindings** (any number of threads, sessions and handles, any finite
memory).  The conjuncts of `IInv` are those of the languages.  For C errors,
`Stacked` lists what may be on a thread's stack of calls that met an error: the
outermost has recorded its kind and is the one the program will be told of, and
only a log callback that failed meanwhile may have written over the kind.  For
memory (`HeapInv`), `refs[r]` is the number of objects whose `home` is `r`, what
the program holds is not in the list, and exactly handles have a runtime;
`RuntimeJoined` and `RuntimeLeft` count how sharing and freeing change that number.
For Lua, a detached token is in no handle (`Cached`).  For Python, a thread that
holds the GIL runs code, waits for the lock of the sink or ends `QRMIService()`
(`PyInv`); C and Python share the sink, whose lock nobody reads under between steps
(`SinkInv`) and, but for a Python thread in the destructor of a callback, nobody
holds (`SinkFree`).  So while no such destructor runs a thread waits for the lock only
until others have taken their one step with it.

**The clients** (any number of tasks in a batch, of clones of Maestro's client, of
threads that discover resources or share a backend of Qiskit, and of backends).
One client is chosen and the others keep their initial values: a step of
`Clients` is a step of one component, and of the others a stutter (`OneClient`),
so the invariants of the components are kept one by one.  What each of them must know in the middle of a call:

* the runners (`RunnersInv`): which answers a stage can have, that a delivered
  result is of a completed task, and that a task is not active once the cleanup
  that follows every way out has stopped it;
* a submission over the request API (`RequestInv`): for each clone, what its
  exchange has done so far, whatever the flag that it shares says and whichever
  server it met first.  A refusal is definite because each branch that refuses
  comes before a request that can create a task, or after an answer that says
  that none was;
* a job of Qiskit (`JobsInv`): a final status that is kept is that of the task;
* a batch (`BatchesInv`): how far the walk over the tasks has come (`Walking`), and
  that what it has collected is true of the tasks it has passed, although the
  others go on meanwhile;
* the programs of the Quantum System client (`AppsInv`): what is true of the job at
  each request, and of what has been printed;
* discovery (`FindingsInv`): the environment of a backend is of one service unless
  it has been crossed (`Unmixed`), and what a thread has read of it so far is of
  that one (`Making`), whatever other threads write;
* a backend of Qiskit (`BackendInv`): unless two threads have refreshed at a time
  only one does (`Alone`), and the parts that it has kept so far are those of the
  answer it brings, which is no older than the refresh (`Brings`).

Assumptions used: `ServerAssumption`, `ClientAssumption` and `ReuseAssumption`
of Maestro Local, `Assumption` of `QuantumSystem`, that of `VendorCall` and
`SessionAssumption` of `Vendors`, `BindingsAssumption` and `KindsAssumption` of `Bindings`,
`RunnerAssumption` of `MaestroRun` and `BoundsAssumption` of `Clients`.  They say that the
values that stand for "none" are none of the others, that bounds are numbers, and
that memory is finite; TLC evaluates them in every run.

Only model-checked:

* liveness (`CallsReturn`, `RunEnds`, `EndedTaskEndsRun`) and what needs ENABLED,
  which are out of the proof system's reach;
* `CallsTidy`: `LuaCall` has no constants and the functions of `lua_qrmi.c` are
  fixed sequences of steps, so TLC sees every behaviour of it.  A proof would be an
  induction over these sequences;
* of `Clients`, the rest of `ToldIsTrue` and of `ResourceOfOneService`, `InputArrives`,
  and `TypeOK` as a whole.  They are about modules that depend on no constant
  (`MaestroWire`, `DeviceQueries`, `HttpLayers`, `IqmBackend`, `Settings`,
  `BackendListing`, `Payloads` and others), of which TLC sees every behaviour
  within the inputs that they enumerate, so that a theorem would say no more
  than the run; and several are computed by a recursion over data (`SelectSeq`,
  `FoldLeft`, the readers of names and listings), which the provers cannot follow.

## Findings

Shown by a run:

* `quantum_system_retry`: the HTTP client of IBM Quantum System repeats the
  submission of a job, with the same identifier, when a reply is lost.  If the
  lost attempt created the job, the repetition is answered with 409, which
  becomes `InvalidInput`: task_start reports that no task exists for a job that
  runs (`src/lib.rs:280`, `src/error.rs:120`).  Without a retry policy the
  contract holds (`ContractWithoutRepeats` in `quantum_system_trouble`).
* `iqm_stop_race`: the comment of IQM's task_stop says that the cancellation's
  own result is discarded because the job may end before it arrives; the code
  returns the error.  The job is stopped all the same (`StopSettles` in
  `vendors`).
* `py_service_drop`: a comment says that the runtime on which `QRMIService()`
  asks for the resources need not worry about its destructor, as no methods are
  called after that; the requests were made on it, so a worker may have something
  to log, for which it needs the GIL, while the destructor waits for it under the
  GIL (`src/pyext.rs:658`).
Read in the code, and not run as findings of their own:

* `set_log_sink` assigns under the write lock, so the replaced callback is dropped
  under it, in Python under the GIL too (`src/common/logging.rs:40`).  When its
  destructor is code of the program that lets the GIL go (a `__del__`, the closing
  of a file), another thread that then makes a resource which logs, or calls
  `set_log_callback`, waits for the lock and keeps the GIL; the destructor waits for
  the GIL and keeps the lock.  A destructor that itself logs or replaces the
  callback waits for its own lock.  The notes of `set_log_callback` call a callback
  safe as long as every call that blocks lets the GIL go (`src/pyext.rs:826`), and
  the comment on `LogSink` wants no code of a sink under the lock
  (`src/common/logging.rs:26`).  The model has these states (`ReplaceSink` and `Stuck`
  of `PyBinding`): `NobodyStuck` without its exception for a `writer` is violated
  after a thread's second `set_log_callback`.
* `qrmi_get_last_error`'s comment says that it clears the error (`src/cext.rs:785`);
  it does not.  `qrmi_get_last_error_kind`'s says that an error without a kind
  has a generic one; the kind of an earlier error stays (`src/cext.rs:818`).
  Some functions record no error when they fail, a name that is not found
  (`src/cext.rs:557`) or a result with a NUL in it (`src/cext.rs:1514`): a Lua
  program is then given the message of an earlier failure (`lua/lua_qrmi.c:64`).
  Releasing a token that is not UTF-8 reports success (`src/cext.rs:1662`).
* Lua leaks strings that the example of the C documentation frees
  (`lua/lua_qrmi.c:103`, `:321`, `:434`, `:1335`).
* `QRMI_PLUGIN_ERROR` is documented (`src/service.rs:62`) and never looked at.
* `_query_job_progress` does not raise if a job has no result, says its
  docstring; an error of the resource escapes it
  (`python/qrmi/pulser/connection.py:202`).
* IQM's provider says that the calibration is queried on every run, and compares
  with a target that it keeps (`python/qrmi/qiskit_iqm/iqm_provider.py:175`,
  `:312`); it writes every `:` of a name as `_`, and the resource turns the last
  one back (`src/iqm/server.rs:100`).  A target of the set `default` may be of
  two sets when the default changes between two requests (`src/iqm/server.rs:490`).
* A failed Felis job cannot be stopped again (`src/alice_bob/felis.rs:177`), and
  one without events ends the process (`felis.rs:110`).
* A comment says that a token is acquired once per call
  (`dependencies/quantum_system_client/src/client.rs:553`): a 401 makes it
  twice, and a token that has expired when it arrives three times.
* `main.py` makes JSON texts of texts (`main.py:198`, `:207`, `:218`), where the
  Rust runner requires a text.  Lua's number of runs wraps
  (`lua/lua_qrmi.c:692`), while that of Maestro is checked.
* The one line that a circuit is sent in is called semantically safe
  (`dependencies/maestro_rust_library/src/maestro/session.rs:520`): a `//`
  comment takes the rest of it.
* The search for a dedicated session can miss one that runs all the time, when
  newer jobs end between two pages (`src/ibm/quantum_compute_service.rs:136`).
* A value that is one quotation mark panics `strip_quotes`
  (`src/pasqal/cloud_config.rs:126`); `PASQAL_CONFIG_ROOT` with a variable that
  is not set reads a file of the working directory; one name that is not UTF-8
  hides a library of Python (`src/oqtopus/lib.rs:46`).
* `get_result` of `run_primitive.rs` parses an error of the object store, which
  is XML, as JSON (`run_primitive.rs:285`).  The program `run_job` fetches
  results without a look at the status, and both programs end without deleting a
  job whose cancellation came too late (`app/run_job/src/main.rs:147`).

## What is not modelled, and the plan

Not modelled, because there is nothing that steps or states could get wrong
beyond what a compiler or a unit test shows: the records of the generated API
clients and those of their functions that nobody calls, `src/models.rs`,
formatting and messages.  They and the unit tests inside the source files make
up most of the repository.  Left out, although they could be modelled: the
bridge's conversions between Rust and Python for OQTOPUS, arguments and results
of `pyext.rs`, `Config::load` of `src/models/config.rs`, transpilation and the
encoding of circuits in the Python layers, and the small programs of the Quantum
System client that print one answer.

A killed runner leaves its task behind; nothing is persisted that could find it
again, and no property asks for it.

What could be added, in this order: the conversions left out above, as operators
beside `Payloads`; a `Config` component of `Settings`; and, should a prover with
induction over data be at hand, theorems about the folds of `Clients`.

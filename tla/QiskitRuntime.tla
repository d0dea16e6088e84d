--------------------------- MODULE QiskitRuntime ---------------------------
(***************************************************************************)
(* The IBM Qiskit Runtime Service resource                                 *)
(* (src/ibm/qiskit_runtime_service.rs), the older name of the Quantum      *)
(* Compute Service: each of its methods makes the requests that the method *)
(* of QuantumCompute makes.  It has no status of its device.               *)
(***************************************************************************)
EXTENDS QuantumCompute

acquire == Acquire \/ GetSession \/ CreateSession
release == Release \/ ListJobs \/ CloseSession \/ UpdateSession
task_start == TaskStart \/ RejectStart \/ CreateJob
task_stop == TaskStop \/ (call.op = "stop" /\ (GetJob \/ CancelJob))
task_status == TaskStatus \/ (call.op = "status" /\ GetJob)
task_result == TaskResult \/ (call.op = "result" /\ (GetJob \/ GetResults))
task_logs == TaskLogs \/ GetLogs
is_accessible == Query \/ GetBackend

\* check_token of every method, and the service on its own.
Others ==
  \/ Progress(Moves) /\ UNCHANGED computeVars
  \/ TokenAges \/ SessionAges \/ SessionEnds \/ CheckToken

RuntimeNext ==
  \/ acquire \/ release \/ task_start \/ task_stop \/ task_status \/ task_result
  \/ task_logs \/ is_accessible \/ Others
=============================================================================

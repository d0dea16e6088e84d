---------------------------- MODULE PrimitiveJob ----------------------------
(***************************************************************************)
(* The job that Qiskit gives its user: QRMIPasqalJob                       *)
(* (python/qrmi/primitives/pasqal/sampler.py), RuntimeJobV2                *)
(* (python/qrmi/primitives/runtime_job_v2.py) or IQMJobCustom              *)
(* (python/qrmi/qiskit_iqm/iqm_provider.py).  Its task was started; the    *)
(* resource ends it, and may forget it later.                              *)
(***************************************************************************)
CONSTANT Terminal     \* the final states

VARIABLES
  class,
  task,       \* the resource's task
  gone,       \* the resource has forgotten the task
  last,       \* _last_status
  kept,       \* _result is there
  waiting,    \* result() polls
  told,       \* what status() returned last, or raised
  final       \* history: the first final status told

jobVars == <<class, task, gone, last, kept, waiting, told, final>>

Class == {"QRMIPasqalJob", "RuntimeJobV2", "IQMJobCustom"}

JobTypeOK ==
  /\ class \in Class
  /\ task \in {"active"} \cup Terminal
  /\ {gone, kept, waiting} \subseteq BOOLEAN
  /\ {last, final} \subseteq {"none", "Pending"} \cup Terminal
  /\ told \in {"none", "Pending", "raised"} \cup Terminal

JobInit ==
  /\ class \in Class
  /\ task = "active" /\ gone = FALSE
  /\ last = "none" /\ kept = FALSE /\ waiting = FALSE
  /\ told = "none" /\ final = "none"

-----------------------------------------------------------------------------
(* The resource. *)

TaskEnds ==
  /\ task = "active"
  /\ task' \in Terminal
  /\ UNCHANGED <<class, gone, last, kept, waiting, told, final>>

Forgets ==
  /\ task # "active"
  /\ gone' = TRUE
  /\ UNCHANGED <<class, task, last, kept, waiting, told, final>>

\* task_status: it may be late, and it may fail.
Answers == {"raised", "Pending"} \cup (IF gone THEN {} ELSE {task} \cap Terminal)

-----------------------------------------------------------------------------
(* The user's calls. *)

\* What status() returned, or raised.
Tells(a) ==
  /\ told' = a
  /\ final' = IF final = "none" /\ a \in Terminal THEN a ELSE final

\* MUTANT of Remembered: the status of the task is compared, not that of the job.
NeverRemembered == FALSE

\* The status that is kept is compared with statuses of Qiskit.  QRMIPasqalJob keeps
\* one of those; RuntimeJobV2 keeps a TaskStatus, which none of them is equal to, and
\* IQMJobCustom keeps none.
Remembered == class = "QRMIPasqalJob" /\ last \in Terminal

Asks ==
  /\ \/ /\ Remembered
        /\ Tells(last)
        /\ UNCHANGED last
     \/ /\ ~Remembered
        /\ \E a \in Answers :
             /\ Tells(a)
             /\ last' = IF a = "raised" \/ class = "IQMJobCustom" THEN last ELSE a
  /\ UNCHANGED <<class, task, gone, kept>>

status == ~waiting /\ Asks /\ UNCHANGED waiting

\* A result that is there is returned at once.  IQMJobCustom asks for the status first.
HasResult ==
  /\ kept
  /\ \/ class = "RuntimeJobV2"
     \/ class = "QRMIPasqalJob" /\ last = "Completed"

result == ~waiting /\ ~HasResult /\ Asks /\ waiting' = TRUE

\* A round of the polling.
ResultPolls == waiting /\ told = "Pending" /\ Asks /\ UNCHANGED waiting

\* An exception of status(), or a timeout, ends result().  RuntimeJobV2 has none.
ResultRaises ==
  /\ waiting
  /\ told = "raised" \/ (class # "RuntimeJobV2" /\ told = "Pending")
  /\ waiting' = FALSE
  /\ UNCHANGED <<class, task, gone, last, kept, told, final>>

\* After the polling.  RuntimeJobV2 asks for the result however the task ended.
ResultEnds ==
  /\ waiting /\ told \in Terminal
  /\ \/ /\ task = "Completed" /\ ~gone
        /\ kept' = TRUE
     \/ UNCHANGED kept
  /\ waiting' = FALSE
  /\ UNCHANGED <<class, task, gone, last, told, final>>

\* cancel, and the destructor of a job that is to be deleted: task_stop ends an
\* active task, and may delete it with its result, or fails.  IQMJobCustom has none.
cancel ==
  /\ ~waiting
  /\ class # "IQMJobCustom"
  /\ task' = IF task = "active" THEN "Cancelled" ELSE task
  /\ gone' \in {gone, TRUE}
  /\ UNCHANGED <<class, last, kept, waiting, told, final>>

JobNext ==
  \/ TaskEnds \/ Forgets
  \/ status \/ result \/ ResultPolls \/ ResultRaises \/ ResultEnds \/ cancel

-----------------------------------------------------------------------------
(* Properties. *)

\* A job that has told a final status tells no other, and it is how the task ended.
\* QRMIPasqalJob tells it even when the resource has forgotten the task or does not
\* answer; the other two ask again, and may raise.
FinalStaysFinal ==
  final # "none" =>
    /\ task = final
    /\ told = final \/ (class # "QRMIPasqalJob" /\ told \in {"raised", "Pending"})
=============================================================================

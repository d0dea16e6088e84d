--------------------------- MODULE MaestroServer ---------------------------
(***************************************************************************)
(* The Maestro daemon, as the commands of the QRMI client use it.  The     *)
(* daemon is not part of the repository: its sessions, its tasks and the   *)
(* diagnostics it retains are modelled from the commands that              *)
(* dependencies/maestro_rust_library sends, from the replies that          *)
(* src/maestro/local.rs distinguishes and from the scripted server of      *)
(* src/maestro/tests/local.rs.                                             *)
(*                                                                         *)
(* gen and fate are history variables: gen counts the tasks that were ever *)
(* given an identifier, fate says how each of them ended.  The daemon may  *)
(* give a free identifier again (Reuse), so an identifier alone does not   *)
(* name a task: an identifier and a generation do.                         *)
(***************************************************************************)
EXTENDS Naturals

CONSTANTS
  Sessions,     \* session identifiers
  TaskIds,      \* task identifiers, chosen by the daemon within a session
  MaxGen,       \* bound: how often one identifier is given to a task
  Reuse,        \* may the daemon give the identifier of a removed task or session again?
  Diagnostics   \* does the daemon retain the event history of removed tasks?

ASSUME ServerAssumption ==
  /\ MaxGen \in Nat \ {0}
  /\ Reuse \in BOOLEAN
  /\ Diagnostics \in BOOLEAN

VARIABLES
  live,       \* sessions that exist
  opened,     \* history: sessions that ever existed
  task,       \* what the daemon keeps under each identifier
  gen,        \* history: number of tasks an identifier has named so far
  fate,       \* history: how each of those tasks ended
  recorded    \* identifiers whose retained history ends with "cancelled"

srv == <<live, opened, task, gen, fate, recorded>>

Key == Sessions \X TaskIds
Gens == 1..MaxGen

Active == {"created", "queued", "running"}
TaskState == {"absent", "completed", "failed"} \cup Active

Terminal == {"Completed", "Failed", "Cancelled"}
Fate == {"none", "active", "dropped"} \cup Terminal

KeysOf(s) == {k \in Key : k[1] = s}

ServerTypeOK ==
  /\ live \subseteq Sessions
  /\ opened \subseteq Sessions
  /\ task \in [Key -> TaskState]
  /\ gen \in [Key -> 0..MaxGen]
  /\ fate \in [Key -> [Gens -> Fate]]
  /\ recorded \subseteq Key

ServerInit ==
  /\ live \in SUBSET Sessions
  /\ opened = live
  /\ task = [k \in Key |-> "absent"]
  /\ gen = [k \in Key |-> 0]
  /\ fate = [k \in Key |-> [g \in Gens |-> "none"]]
  /\ recorded = {}

-----------------------------------------------------------------------------
(* The effects of the commands. *)

\* SESSION CREATE.
OpenSession(s) ==
  /\ s \notin live
  /\ ~Reuse => s \notin opened
  /\ live' = live \cup {s}
  /\ opened' = opened \cup {s}
  /\ UNCHANGED <<task, gen, fate, recorded>>

\* SESSION DELETE, and the expiry of the session's lease: the worker is
\* stopped, the tasks and their diagnostics go with the session.
DropSession(s) ==
  /\ s \in live
  /\ live' = live \ {s}
  /\ task' = [k \in Key |-> IF k[1] = s THEN "absent" ELSE task[k]]
  /\ fate' = [k \in Key |-> [g \in Gens |->
                IF k[1] = s /\ fate[k][g] = "active" THEN "dropped" ELSE fate[k][g]]]
  /\ recorded' = recorded \ KeysOf(s)
  /\ UNCHANGED <<opened, gen>>

\* An identifier the daemon may give to a new task.
Free(k) ==
  /\ k[1] \in live
  /\ task[k] = "absent"
  /\ gen[k] < MaxGen
  /\ ~Reuse => gen[k] = 0

\* TASK CREATE (st = "created") and API submit (st = "queued").
NewTask(k, st) ==
  /\ Free(k)
  /\ task' = [task EXCEPT ![k] = st]
  /\ gen' = [gen EXCEPT ![k] = @ + 1]
  /\ fate' = [fate EXCEPT ![k][gen[k] + 1] = "active"]
  /\ recorded' = recorded \ {k}
  /\ UNCHANGED <<live, opened>>

\* TASK EXECUTE.
StartTask(k) ==
  /\ task[k] = "created"
  /\ task' = [task EXCEPT ![k] = "queued"]
  /\ UNCHANGED <<live, opened, gen, fate, recorded>>

\* TASK CANCEL: only an active task is cancelled, and it is removed.
CancelTask(k) ==
  /\ task[k] \in Active
  /\ task' = [task EXCEPT ![k] = "absent"]
  /\ fate' = [fate EXCEPT ![k][gen[k]] = "Cancelled"]
  /\ recorded' = IF Diagnostics THEN recorded \cup {k} ELSE recorded
  /\ UNCHANGED <<live, opened, gen>>

\* TASK GET_RESULTS: the result is handed out once, and the task is removed.
ConsumeTask(k) ==
  /\ task[k] = "completed"
  /\ task' = [task EXCEPT ![k] = "absent"]
  /\ UNCHANGED <<live, opened, gen, fate, recorded>>

-----------------------------------------------------------------------------
(* What the daemon does on its own. *)

RunTask(k) ==
  /\ task[k] = "queued"
  /\ task' = [task EXCEPT ![k] = "running"]
  /\ UNCHANGED <<live, opened, gen, fate, recorded>>

FinishTask(k) ==
  /\ task[k] = "running"
  /\ \/ /\ task' = [task EXCEPT ![k] = "completed"]
        /\ fate' = [fate EXCEPT ![k][gen[k]] = "Completed"]
     \/ /\ task' = [task EXCEPT ![k] = "failed"]
        /\ fate' = [fate EXCEPT ![k][gen[k]] = "Failed"]
  /\ UNCHANGED <<live, opened, gen, recorded>>

\* FINISHED answers YES for a failed task too.
Finished(k) == task[k] \in {"completed", "failed"}
=============================================================================

---------------------------- MODULE MaestroLocal ----------------------------
(***************************************************************************)
(* The Maestro Local resource (src/maestro/local.rs) over the socket       *)
(* client of dependencies/maestro_rust_library.                            *)
(*                                                                         *)
(* Each client is one MaestroLocal instance.  Its methods take &mut self,  *)
(* so an instance runs one call at a time; a call is a sequence of socket  *)
(* exchanges, and the daemon and the other instances may act between two   *)
(* of them.  One action is one exchange with everything the call does      *)
(* until the next one.                                                     *)
(***************************************************************************)
EXTENDS MaestroServer

CONSTANTS
  Clients,      \* MaestroLocal instances, possibly of several processes
  Trouble,      \* what may go wrong in an exchange, a subset of AnyTrouble
  NoSession, NoKey

\* "unreachable": the exchange fails and the daemon changed nothing.
\* "lost": the daemon obeyed a command that changes its state, and the reply
\*         is lost or comes after the timeout.
\* "refused": the daemon declines a CANCEL or DELETE it could obey.
AnyTrouble == {"unreachable", "lost", "refused"}

ASSUME ClientAssumption ==
  /\ Trouble \subseteq AnyTrouble
  /\ NoSession \notin Sessions
  /\ NoKey \notin Key

\* When identifiers are reused, an instance cannot tell its task from the
\* later one of another instance: reuse is modelled for one instance.
ASSUME ReuseAssumption == Reuse => \A c, d \in Clients : c = d

VARIABLES
  session,    \* session_id of the instance
  cache,      \* terminal_tasks: terminal states the instance has observed
  handle,     \* history: generation of the last task the instance started under a key
  pc,         \* the next exchange of the running call, or "idle"
  call,       \* the running call
  out         \* how the last call returned

client == <<session, cache, handle>>
vars == <<live, opened, task, gen, fate, recorded, session, cache, handle, pc, call, out>>

Op == {"none", "acquire", "release", "start", "status", "stop", "result"}

\* again: task_stop looks at the status for the second time.  The rest is
\* history.  named: the generation the caller's identifier names.  made: the
\* call made the daemon create a task.  clean: every exchange of a task_start
\* was answered, and its cleanup not refused.
Call == [op : Op, key : Key \cup {NoKey}, target : Sessions \cup {NoSession},
         named : 0..MaxGen, again : BOOLEAN, made : BOOLEAN, clean : BOOLEAN]
NoCall == [op |-> "none", key |-> NoKey, target |-> NoSession,
           named |-> 0, again |-> FALSE, made |-> FALSE, clean |-> TRUE]

Refusal == {"InvalidInput", "UnsupportedPayload", "UnsupportedFunction",
            "InvalidConfig", "TaskNotFound"}
Result == {"none", "Ok", "Other", "TaskNotReady", "Queued", "Running"}
            \cup Terminal \cup Refusal

Step == {"idle", "sessionExists", "sessionCreate", "sessionDelete",
         "submit", "taskCreate", "configure", "execute", "cleanup",
         "lookup", "exists", "failed", "finished", "failedAgain", "running",
         "recheck", "logs", "cancel", "ensure", "getResults", "getRecheck"}

TypeOK ==
  /\ ServerTypeOK
  /\ session \in [Clients -> Sessions \cup {NoSession}]
  /\ cache \in [Clients -> [Key -> Terminal \cup {"none"}]]
  /\ handle \in [Clients -> [Key -> 0..MaxGen]]
  /\ pc \in [Clients -> Step]
  /\ call \in [Clients -> Call]
  /\ out \in [Clients -> [call : Call, res : Result]]

NoVerdicts == [k \in Key |-> "none"]
NoHandles == [k \in Key |-> 0]
NoOut == [call |-> NoCall, res |-> "none"]

\* new and from_config: a session may be configured, and may not exist.
Init ==
  /\ ServerInit
  /\ session \in [Clients -> Sessions \cup {NoSession}]
  /\ cache = [c \in Clients |-> NoVerdicts]
  /\ handle = [c \in Clients |-> NoHandles]
  /\ pc = [c \in Clients |-> "idle"]
  /\ call = [c \in Clients |-> NoCall]
  /\ out = [c \in Clients |-> NoOut]

-----------------------------------------------------------------------------
(* How a call moves on. *)

Goto(c, step) ==
  /\ pc' = [pc EXCEPT ![c] = step]
  /\ UNCHANGED <<call, out>>

\* As Goto, after an exchange that went wrong.
GotoUnclean(c, step) ==
  /\ pc' = [pc EXCEPT ![c] = step]
  /\ call' = [call EXCEPT ![c].clean = FALSE]
  /\ UNCHANGED out

\* The call returns res to the application; final is the call as it ends.
ReturnFrom(c, final, res) ==
  /\ pc' = [pc EXCEPT ![c] = "idle"]
  /\ call' = [call EXCEPT ![c] = NoCall]
  /\ out' = [out EXCEPT ![c] = [call |-> final, res |-> res]]

Return(c, res) == ReturnFrom(c, call[c], res)
ReturnUnclean(c, res) == ReturnFrom(c, [call[c] EXCEPT !.clean = FALSE], res)

At(c, step) == pc[c] = step
Unreachable == "unreachable" \in Trouble
Lost == "lost" \in Trouble
Refused == "refused" \in Trouble

\* The application calls an idle instance.
Enter(c, step, begun) ==
  /\ At(c, "idle")
  /\ pc' = [pc EXCEPT ![c] = step]
  /\ call' = [call EXCEPT ![c] = begun]
  /\ out' = [out EXCEPT ![c] = NoOut]
  /\ UNCHANGED srv
  /\ UNCHANGED client

-----------------------------------------------------------------------------
(* Construction.  A process that dies loses the instance, whatever call it *)
(* was in; the next one is constructed with the session of its environment.*)

Construct(c, s) ==
  /\ session' = [session EXCEPT ![c] = s]
  /\ cache' = [cache EXCEPT ![c] = NoVerdicts]
  /\ handle' = [handle EXCEPT ![c] = NoHandles]
  /\ pc' = [pc EXCEPT ![c] = "idle"]
  /\ call' = [call EXCEPT ![c] = NoCall]
  /\ out' = [out EXCEPT ![c] = NoOut]
  /\ UNCHANGED srv

-----------------------------------------------------------------------------
(* acquire *)

Acquire(c) ==
  Enter(c, IF session[c] = NoSession THEN "sessionCreate" ELSE "sessionExists",
        [NoCall EXCEPT !.op = "acquire"])

\* Only a confirmed absence replaces the session.
SessionExists(c) ==
  /\ At(c, "sessionExists")
  /\ UNCHANGED srv
  /\ \/ /\ session[c] \in live
        /\ Return(c, "Ok")
        /\ UNCHANGED client
     \/ /\ session[c] \notin live
        /\ session' = [session EXCEPT ![c] = NoSession]
        /\ cache' = [cache EXCEPT ![c] = NoVerdicts]
        /\ handle' = [handle EXCEPT ![c] = NoHandles]
        /\ Goto(c, "sessionCreate")
     \/ /\ Unreachable
        /\ Return(c, "Other")
        /\ UNCHANGED client

SessionCreate(c) ==
  /\ At(c, "sessionCreate")
  /\ UNCHANGED <<cache, handle>>
  /\ \/ \E s \in Sessions :
          /\ OpenSession(s)
          /\ session' = [session EXCEPT ![c] = s]
          /\ Return(c, "Ok")
     \/ /\ Lost
        /\ \E s \in Sessions : OpenSession(s)
        /\ Return(c, "Other")
        /\ UNCHANGED session
     \/ /\ Return(c, "Other")            \* the daemon declines, or is unreachable
        /\ UNCHANGED srv
        /\ UNCHANGED session

(* release: the token names the session, whichever one the instance holds. *)

Release(c, s) == Enter(c, "sessionDelete", [NoCall EXCEPT !.op = "release", !.target = s])

\* MUTANT of VerdictsWithout: release leaves terminal_tasks alone.
VerdictsKept(c, s) == cache[c]

\* terminal_tasks.retain: only what was learnt in the deleted session goes.
VerdictsWithout(c, s) == [k \in Key |-> IF k[1] = s THEN "none" ELSE cache[c][k]]

SessionDelete(c) ==
  LET s == call[c].target IN
  /\ At(c, "sessionDelete")
  /\ \/ /\ DropSession(s)
        /\ session' = [session EXCEPT ![c] = IF @ = s THEN NoSession ELSE @]
        /\ cache' = [cache EXCEPT ![c] = VerdictsWithout(c, s)]
        /\ handle' = [handle EXCEPT ![c] = [k \in Key |-> IF k[1] = s THEN 0 ELSE handle[c][k]]]
        /\ Return(c, "Ok")
     \/ /\ Lost
        /\ DropSession(s)
        /\ Return(c, "Other")
        /\ UNCHANGED client
     \/ /\ s \notin live \/ Refused \/ Unreachable
        /\ Return(c, "Other")
        /\ UNCHANGED srv
        /\ UNCHANGED client

-----------------------------------------------------------------------------
(* task_start *)

Starting == [NoCall EXCEPT !.op = "start"]

\* Errors found before anything is sent.
RejectStart(c) ==
  /\ At(c, "idle")
  /\ \E res \in {"InvalidInput", "UnsupportedPayload", "InvalidConfig"} :
        /\ res = "InvalidConfig" => session[c] = NoSession
        /\ ReturnFrom(c, Starting, res)
  /\ UNCHANGED srv
  /\ UNCHANGED client

\* A schema-2 request is submitted in one exchange, a legacy job in several.
StartTaskCall(c) ==
  /\ session[c] # NoSession
  /\ \E step \in {"submit", "taskCreate"} : Enter(c, step, Starting)

\* The instance starts to use k for the task it has just started.
Adopt(c, k, g) ==
  /\ cache' = [cache EXCEPT ![c][k] = "none"]
  /\ handle' = [handle EXCEPT ![c][k] = g]
  /\ UNCHANGED session

\* What a created task leaves in the call's history.
Made(c, k) == [call[c] EXCEPT !.key = k, !.made = TRUE]

\* Negotiation and submission of a schema-2 request.  Only a well-formed v2
\* refusal is reported as a refusal; MaestroRequest models the two exchanges.
Submit(c) ==
  /\ At(c, "submit")
  /\ \/ \E t \in TaskIds :
          LET k == <<session[c], t>> IN
          /\ NewTask(k, "queued")
          /\ Adopt(c, k, gen[k] + 1)
          /\ ReturnFrom(c, Made(c, k), "Ok")
     \/ /\ \E res \in (Refusal \ {"UnsupportedPayload"}) \cup {"Other"} : Return(c, res)
        /\ UNCHANGED srv
        /\ UNCHANGED client
     \/ /\ Unreachable
        /\ ReturnUnclean(c, "Other")
        /\ UNCHANGED srv
        /\ UNCHANGED client
     \/ /\ Lost
        /\ \E t \in TaskIds :
             LET k == <<session[c], t>> IN
             /\ NewTask(k, "queued")
             /\ ReturnFrom(c, [Made(c, k) EXCEPT !.clean = FALSE], "Other")
        /\ UNCHANGED client

TaskCreate(c) ==
  /\ At(c, "taskCreate")
  /\ UNCHANGED client
  /\ \/ \E t \in TaskIds :
          LET k == <<session[c], t>> IN
          /\ NewTask(k, "created")
          /\ pc' = [pc EXCEPT ![c] = "configure"]
          /\ call' = [call EXCEPT ![c] = Made(c, k)]
          /\ UNCHANGED out
     \/ /\ Lost
        /\ \E t \in TaskIds :
             LET k == <<session[c], t>> IN
             /\ NewTask(k, "created")
             /\ ReturnFrom(c, [Made(c, k) EXCEPT !.clean = FALSE], "Other")
     \/ /\ Return(c, "Other")
        /\ UNCHANGED srv

\* The six setters (seven for an estimate), whose replies are all treated
\* alike: anything but an acknowledgement ends the submission.
Configure(c) ==
  /\ At(c, "configure")
  /\ UNCHANGED srv
  /\ UNCHANGED client
  /\ \/ /\ task[call[c].key] = "created"
        /\ Goto(c, "execute")
     \/ Goto(c, "cleanup")
     \/ /\ Unreachable \/ Lost
        /\ GotoUnclean(c, "cleanup")

Execute(c) ==
  LET k == call[c].key IN
  /\ At(c, "execute")
  /\ \/ /\ StartTask(k)
        /\ Adopt(c, k, gen[k])
        /\ Return(c, "Ok")
     \/ /\ Goto(c, "cleanup")
        /\ UNCHANGED srv
        /\ UNCHANGED client
     \/ /\ Unreachable
        /\ GotoUnclean(c, "cleanup")
        /\ UNCHANGED srv
        /\ UNCHANGED client
     \/ /\ Lost
        /\ StartTask(k)
        /\ GotoUnclean(c, "cleanup")
        /\ UNCHANGED client

\* MUTANT of FailedAfterCreation: the setter's own error is passed on.
FailedAsRejected == "InvalidInput"

\* Whether or not the CANCEL succeeds, the task was created.
FailedAfterCreation == "Other"

\* MUTANT of SubmitCleanup: the failed submission is left on the daemon.
NoCleanup(c) ==
  /\ At(c, "cleanup")
  /\ Return(c, FailedAfterCreation)
  /\ UNCHANGED srv
  /\ UNCHANGED client

SubmitCleanup(c) ==
  LET k == call[c].key IN
  /\ At(c, "cleanup")
  /\ UNCHANGED client
  /\ \/ /\ CancelTask(k)
        /\ Return(c, FailedAfterCreation)
     \/ /\ Lost
        /\ CancelTask(k)
        /\ ReturnUnclean(c, FailedAfterCreation)
     \/ /\ task[k] \notin Active
        /\ Return(c, FailedAfterCreation)
        /\ UNCHANGED srv
     \/ /\ Refused \/ Unreachable
        /\ ReturnUnclean(c, FailedAfterCreation)
        /\ UNCHANGED srv

-----------------------------------------------------------------------------
(* task_status, task_stop and task_result all begin with the status.       *)

\* The generation the application means by k.
Named(c, k) == IF Reuse THEN handle[c][k] ELSE gen[k]

Ask(c, op, t) ==
  LET k == <<session[c], t>> IN
  /\ session[c] # NoSession
  /\ Enter(c, "lookup", [NoCall EXCEPT !.op = op, !.key = k, !.named = Named(c, k)])

\* The status is known, or an error: the call goes on with it.
Conclude(c, res) ==
  LET op == call[c].op IN
  \/ /\ op = "status"
     /\ Return(c, res)
  \/ /\ op = "stop"
     /\ \/ /\ res \in Terminal
           /\ Return(c, "Ok")
        \/ /\ res \notin Terminal
           /\ call[c].again
           /\ Return(c, IF res = "TaskNotFound" THEN res ELSE "Other")
        \/ /\ res \notin Terminal
           /\ ~call[c].again
           /\ IF res \in {"Queued", "Running"} THEN Goto(c, "cancel") ELSE Return(c, res)
  \/ /\ op = "result"
     /\ \/ /\ res = "Completed"
           /\ Goto(c, "ensure")
        \/ /\ res \in {"TaskNotFound", "Other"}
           /\ Return(c, res)
        \/ /\ res \notin {"Completed", "TaskNotFound", "Other"}
           /\ Return(c, "TaskNotReady")

\* A terminal status obtained from the daemon is remembered.
Learn(c, res) ==
  /\ cache' = [cache EXCEPT ![c][call[c].key] = res]
  /\ UNCHANGED <<session, handle>>
  /\ Conclude(c, res)

Lookup(c) ==
  LET known == cache[c][call[c].key] IN
  /\ At(c, "lookup")
  /\ UNCHANGED srv
  /\ UNCHANGED client
  /\ \/ /\ known # "none"
        /\ Conclude(c, known)
     \/ /\ known = "none"
        /\ Goto(c, "exists")

\* ensure_task_exists, first exchange of server_task_status.
AskExists(c) ==
  LET k == call[c].key IN
  /\ At(c, "exists")
  /\ UNCHANGED srv
  /\ UNCHANGED client
  /\ \/ /\ task[k] # "absent"
        /\ Goto(c, "failed")
     \/ /\ task[k] = "absent"
        /\ Goto(c, "logs")
     \/ /\ Unreachable \/ k[1] \notin live
        /\ Conclude(c, "Other")

\* FAILED, FINISHED and RUNNING fail when the task has gone.
AskFailed(c) ==
  LET k == call[c].key IN
  /\ At(c, "failed")
  /\ UNCHANGED srv
  /\ \/ /\ task[k] = "failed"
        /\ Learn(c, "Failed")
     \/ /\ task[k] \notin {"absent", "failed"}
        /\ Goto(c, "finished")
        /\ UNCHANGED client
     \/ /\ task[k] = "absent" \/ Unreachable
        /\ Goto(c, "recheck")
        /\ UNCHANGED client

AskFinished(c) ==
  LET k == call[c].key IN
  /\ At(c, "finished")
  /\ UNCHANGED srv
  /\ UNCHANGED client
  /\ \/ /\ Finished(k)
        /\ Goto(c, "failedAgain")
     \/ /\ task[k] # "absent"
        /\ ~Finished(k)
        /\ Goto(c, "running")
     \/ /\ task[k] = "absent" \/ Unreachable
        /\ Goto(c, "recheck")

\* MUTANT of AskFailedAgain: FINISHED is taken for success.
TrustFinished(c) ==
  /\ At(c, "failedAgain")
  /\ UNCHANGED srv
  /\ Learn(c, "Completed")

\* Failure can become visible between FAILED and FINISHED: it is read again.
AskFailedAgain(c) ==
  LET k == call[c].key IN
  /\ At(c, "failedAgain")
  /\ UNCHANGED srv
  /\ \/ /\ task[k] = "failed"
        /\ Learn(c, "Failed")
     \/ /\ task[k] \notin {"absent", "failed"}
        /\ Learn(c, "Completed")
     \/ /\ task[k] = "absent" \/ Unreachable
        /\ Goto(c, "recheck")
        /\ UNCHANGED client

\* MUTANT of AskRunning: a status that is not final is remembered.
RememberRunning(c) ==
  /\ At(c, "running")
  /\ UNCHANGED srv
  /\ Learn(c, IF task[call[c].key] = "running" THEN "Running" ELSE "Queued")

AskRunning(c) ==
  LET k == call[c].key IN
  /\ At(c, "running")
  /\ UNCHANGED srv
  /\ UNCHANGED client
  /\ \/ /\ task[k] = "running"
        /\ Conclude(c, "Running")
     \/ /\ task[k] \notin {"absent", "running"}
        /\ Conclude(c, "Queued")
     \/ /\ task[k] = "absent" \/ Unreachable
        /\ Goto(c, "recheck")

\* task_response: only a confirmed absence turns the failure into TaskNotFound.
Recheck(c) ==
  LET k == call[c].key IN
  /\ At(c, "recheck")
  /\ UNCHANGED srv
  /\ UNCHANGED client
  /\ \/ /\ task[k] = "absent"
        /\ Goto(c, "logs")
     \/ /\ task[k] # "absent" \/ Unreachable \/ k[1] \notin live
        /\ Conclude(c, "Other")

\* MUTANTS of ReadHistory: a missing task is taken for a cancelled one; the
\* history is not read.
MissingIsCancelled(c) ==
  /\ At(c, "logs")
  /\ UNCHANGED srv
  /\ Learn(c, "Cancelled")

MissingIsUnknown(c) ==
  /\ At(c, "logs")
  /\ UNCHANGED srv
  /\ UNCHANGED client
  /\ Conclude(c, "TaskNotFound")

\* cancellation_recorded: any failure to read the history answers false.
ReadHistory(c) ==
  LET k == call[c].key IN
  /\ At(c, "logs")
  /\ UNCHANGED srv
  /\ \/ /\ k \in recorded
        /\ Learn(c, "Cancelled")
     \/ /\ k \notin recorded
        /\ Conclude(c, "TaskNotFound")
        /\ UNCHANGED client
     \/ /\ Unreachable
        /\ Conclude(c, "TaskNotFound")
        /\ UNCHANGED client

-----------------------------------------------------------------------------
(* task_stop *)

\* MUTANT of LookAgain: the task is assumed to have ended on its own.
AssumeStopped(c) ==
  /\ Return(c, "Ok")
  /\ UNCHANGED client

\* MUTANT of LookAgain: a task that still runs is cancelled again.
CancelUntilEnded(c) ==
  /\ pc' = [pc EXCEPT ![c] = "lookup"]
  /\ UNCHANGED <<call, out>>
  /\ UNCHANGED client

\* After anything but a positive acknowledgement, the status decides.
LookAgain(c) ==
  /\ pc' = [pc EXCEPT ![c] = "lookup"]
  /\ call' = [call EXCEPT ![c].again = TRUE]
  /\ UNCHANGED out
  /\ UNCHANGED client

Cancel(c) ==
  LET k == call[c].key IN
  /\ At(c, "cancel")
  /\ \/ /\ CancelTask(k)
        /\ cache' = [cache EXCEPT ![c][k] = "Cancelled"]
        /\ UNCHANGED <<session, handle>>
        /\ Return(c, "Ok")
     \/ /\ Lost
        /\ CancelTask(k)
        /\ LookAgain(c)
     \/ /\ task[k] \notin Active \/ Refused \/ Unreachable
        /\ UNCHANGED srv
        /\ LookAgain(c)

-----------------------------------------------------------------------------
(* task_result *)

Ensure(c) ==
  LET k == call[c].key IN
  /\ At(c, "ensure")
  /\ UNCHANGED srv
  /\ UNCHANGED client
  /\ \/ /\ task[k] # "absent"
        /\ Goto(c, "getResults")
     \/ /\ task[k] = "absent"
        /\ Return(c, "TaskNotFound")
     \/ /\ Unreachable \/ k[1] \notin live
        /\ Return(c, "Other")

GetResults(c) ==
  LET k == call[c].key IN
  /\ At(c, "getResults")
  /\ UNCHANGED client
  /\ \/ /\ ConsumeTask(k)
        /\ Return(c, "Ok")
     \/ /\ Lost
        /\ ConsumeTask(k)
        /\ Goto(c, "getRecheck")
     \/ /\ task[k] # "completed" \/ Unreachable
        /\ UNCHANGED srv
        /\ Goto(c, "getRecheck")

GetRecheck(c) ==
  LET k == call[c].key IN
  /\ At(c, "getRecheck")
  /\ UNCHANGED srv
  /\ UNCHANGED client
  /\ \/ /\ task[k] = "absent"
        /\ Return(c, "TaskNotFound")
     \/ /\ task[k] # "absent" \/ Unreachable \/ k[1] \notin live
        /\ Return(c, "Other")

-----------------------------------------------------------------------------
(* The system. *)

Daemon ==
  /\ \/ \E s \in Sessions : DropSession(s)
     \/ \E k \in Key : RunTask(k) \/ FinishTask(k)
  /\ UNCHANGED <<session, cache, handle, pc, call, out>>

\* The running call of an instance takes its next step.
Advance(c) ==
  \/ SessionExists(c) \/ SessionCreate(c) \/ SessionDelete(c)
  \/ Submit(c) \/ TaskCreate(c) \/ Configure(c) \/ Execute(c) \/ SubmitCleanup(c)
  \/ Lookup(c) \/ AskExists(c) \/ AskFailed(c) \/ AskFinished(c)
  \/ AskFailedAgain(c) \/ AskRunning(c) \/ Recheck(c) \/ ReadHistory(c)
  \/ Cancel(c) \/ Ensure(c) \/ GetResults(c) \/ GetRecheck(c)

\* The application calls an instance, or replaces it by a new one.
Use(c) ==
  \/ \E s \in Sessions \cup {NoSession} : Construct(c, s)
  \/ Acquire(c)
  \/ \E s \in Sessions : Release(c, s)
  \/ RejectStart(c)
  \/ StartTaskCall(c)
  \/ \E op \in {"status", "stop", "result"}, t \in TaskIds : Ask(c, op, t)

Next ==
  \/ Daemon
  \/ \E c \in Clients : Advance(c) \/ Use(c)

Spec == Init /\ [][Next]_vars

\* Every exchange ends: with a reply, or with the reply timeout.
FairSpec == Spec /\ \A c \in Clients : WF_vars(Advance(c))

-----------------------------------------------------------------------------
(* Properties. *)

\* The contract of task_start (src/lib.rs, src/error.rs): an error of any
\* kind other than Other means that the call created no task.
StartContract ==
  \A c \in Clients :
    out[c].call.op = "start" /\ out[c].res \in Refusal => ~out[c].call.made

\* A task_start that fails leaves no active task behind, unless a reply was
\* lost or the daemon refused the cleanup: the application never learns the
\* identifier, so nothing else would stop the task.
NoSilentOrphan ==
  \A c \in Clients :
    LET o == out[c] IN
    o.call.op = "start" /\ o.call.made /\ o.call.clean /\ o.res # "Ok"
      => task[o.call.key] \notin Active

\* When task_stop returns Ok or TaskNotFound the task the caller named is not
\* active any more; without trouble this holds whatever it returns.
StopSettles ==
  \A c \in Clients :
    LET o == out[c] IN
    (/\ o.call.op = "stop"
     /\ o.call.named > 0
     /\ o.res \in {"Ok", "TaskNotFound"} \/ Trouble = {})
    => fate[o.call.key][o.call.named] # "active"

\* A terminal state the instance remembers is how a task of that identifier
\* ended, and none older than the one the instance started itself: a failure
\* published late is not taken for success, a reused identifier does not
\* inherit the state of its predecessor.
VerdictsTruthful ==
  \A c \in Clients, k \in Key : cache[c][k] # "none" =>
    \E g \in Gens : g >= handle[c][k] /\ fate[k][g] = cache[c][k]

\* Everything an instance remembers belongs to the session it holds: no state
\* outlives its session, whose identifiers the daemon may give again.
VerdictsScoped ==
  \A c \in Clients, k \in Key :
    cache[c][k] # "none" \/ handle[c][k] # 0 => k[1] = session[c]

\* With a daemon that retains diagnostics and can be reached, a task that was
\* cancelled in a session that still exists is never reported missing: a lost
\* acknowledgement, or another client's cancellation, is recovered.
CancellationRecovered ==
  [][\A c \in Clients :
       LET o == out'[c] IN
       (/\ pc[c] # "idle" /\ pc'[c] = "idle"
        /\ o.call.op \in {"status", "stop"} /\ o.res = "TaskNotFound"
        /\ Diagnostics /\ ~Unreachable
        /\ o.call.key[1] \in live /\ o.call.named > 0)
       => fate[o.call.key][o.call.named] # "Cancelled"]_vars

\* Every call returns.
CallsReturn == \A c \in Clients : pc[c] # "idle" ~> pc[c] = "idle"

\* The instance keeps the promise of TaskLifecycle.
Promise == INSTANCE TaskLifecycle WITH verdict <- cache
KeepsPromise == Promise!Spec
=============================================================================

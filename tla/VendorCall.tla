----------------------------- MODULE VendorCall -----------------------------
(***************************************************************************)
(* One instance of a vendor's resource, whose methods take &mut self and   *)
(* so run one call at a time, and the tasks on the vendor's server.  A     *)
(* call is a sequence of requests; tasks move on, and other users cancel   *)
(* them, between two requests.  The vendors' modules extend this one.      *)
(*                                                                         *)
(* The servers are not part of the repository: they answer what the code   *)
(* and its comments expect them to answer.                                 *)
(***************************************************************************)
EXTENDS Naturals

CONSTANTS
  Jobs,       \* bound: the identifiers of the tasks that are ever submitted
  Trouble,    \* what may go wrong, a subset of AnyTrouble
  NoJob

\* "failed": a request fails and the server changed nothing: it did not arrive,
\*           its credentials are rejected, the server has an error.
\* "lost": the server obeyed a request, and its reply is lost or unreadable.
\* "renewal": the access token cannot be renewed.
AnyTrouble == {"failed", "lost", "renewal"}

ASSUME Assumption ==
  /\ Trouble \subseteq AnyTrouble
  /\ NoJob \notin Jobs

VARIABLES
  job,        \* the tasks of the server
  pc,         \* the next request of the running call, or "idle"
  call,       \* the running call
  out         \* how the last call returned

callVars == <<job, pc, call, out>>

\* "created": the task exists, and waits for its input.
\* "cancelling": a cancellation was accepted, and will take effect.
Active == {"created", "queued", "running"}
Terminal == {"Completed", "Failed", "Cancelled"}
JobState == {"absent", "cancelling"} \cup Active \cup Terminal

\* made: history, how many tasks the call made the server create.  ripe:
\* history, the task was completed when the call began.  met: history, the
\* troubles that requests of the call met.
Op == {"start", "status", "stop", "result", "logs",
       "acquire", "release", "query"}
Call == [op : Op \cup {"none"}, id : Jobs \cup {NoJob},
         made : 0..2, ripe : BOOLEAN, met : SUBSET AnyTrouble]
NoCall == [op |-> "none", id |-> NoJob, made |-> 0, ripe |-> FALSE, met |-> {}]
NoOut == [call |-> NoCall, res |-> "none"]

Refusal == {"InvalidInput", "UnsupportedPayload", "AuthenticationFailed",
            "ResourceNotFound", "TaskNotFound", "EnvVarNotSet"}
Result == {"none", "Ok", "Other", "TaskNotReady", "Queued", "Running"}
            \cup Terminal \cup Refusal

CallTypeOK ==
  /\ job \in [Jobs -> JobState]
  /\ call \in Call
  /\ out \in [call : Call, res : Result]

CallInit ==
  /\ job = [j \in Jobs |-> "absent"]
  /\ pc = "idle"
  /\ call = NoCall
  /\ out = NoOut

-----------------------------------------------------------------------------
(* The server on its own: tasks move on, and other users cancel them. *)

Moves == {<<"queued", "running">>, <<"running", "Completed">>, <<"running", "Failed">>,
          <<"created", "Cancelled">>, <<"queued", "Cancelled">>, <<"running", "Cancelled">>}

Progress(moves) ==
  /\ \E j \in Jobs, st \in JobState :
        /\ <<job[j], st>> \in moves
        /\ job' = [job EXCEPT ![j] = st]
  /\ UNCHANGED <<pc, call, out>>

-----------------------------------------------------------------------------
(* How a call moves on. *)

ReturnFrom(final, res) ==
  /\ pc' = "idle"
  /\ call' = NoCall
  /\ out' = [call |-> final, res |-> res]

Return(res) == ReturnFrom(call, res)

\* The call returns after a trouble.
Met(trouble) == [call EXCEPT !.met = @ \cup {trouble}]
ReturnTroubled(trouble, res) ==
  /\ trouble \in Trouble
  /\ ReturnFrom(Met(trouble), res)

Goto(step) ==
  /\ pc' = step
  /\ UNCHANGED <<call, out>>

\* A request fails without effect, and becomes an error of one of kinds.
Fails(kinds) ==
  /\ \E res \in kinds : ReturnTroubled("failed", res)
  /\ UNCHANGED job

\* The application calls the idle instance.
Begin(step, begun) ==
  /\ pc = "idle"
  /\ pc' = step
  /\ call' = begun
  /\ out' = NoOut
  /\ UNCHANGED job

Starting == [NoCall EXCEPT !.op = "start"]
About(op, j) == [NoCall EXCEPT !.op = op, !.id = j, !.ripe = (job[j] = "Completed")]

BeginAbout(op, step) == \E j \in Jobs : Begin(step, About(op, j))

\* An error that is found before anything is sent.
Refuse(begun, kinds) ==
  /\ pc = "idle"
  /\ \E res \in kinds : ReturnFrom(begun, res)
  /\ UNCHANGED job

Reject(kinds) == Refuse(Starting, kinds)

\* The server takes a task, and the call goes on or returns as then says.
\* Bound: one task for each identifier in Jobs.
Creates(state, then(_)) ==
  \E j \in Jobs :
    /\ job[j] = "absent"
    /\ job' = [job EXCEPT ![j] = state]
    /\ then([call EXCEPT !.id = j, !.made = @ + 1])

ReturnsOk(made) == ReturnFrom(made, "Ok")
LosesReply(made) ==
  /\ "lost" \in Trouble
  /\ ReturnFrom([made EXCEPT !.met = @ \cup {"lost"}], "Other")

\* A cancellation that arrives while the task is active, and one that arrives
\* too late: the server declines it with an error of one of kinds.
Cancels(state, kinds) ==
  \/ /\ job[call.id] \in Active
     /\ job' = [job EXCEPT ![call.id] = state]
     /\ Return("Ok") \/ ReturnTroubled("lost", "Other")
  \/ /\ job[call.id] \notin Active
     /\ \E res \in kinds : Return(res)
     /\ UNCHANGED job

\* The server is asked for a task: it goes on as then says, or is unknown.
Gets(then(_), missing) ==
  /\ UNCHANGED job
  /\ \/ /\ job[call.id] # "absent"
        /\ then(job[call.id])
     \/ /\ job[call.id] = "absent"
        /\ \E res \in missing : Return(res)
=============================================================================

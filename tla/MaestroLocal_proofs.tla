------------------------ MODULE MaestroLocal_proofs ------------------------
(***************************************************************************)
(* Theorems about MaestroLocal, for every value of its constants: its      *)
(* types and the contract of task_start; then what an instance remembers,  *)
(* reports and leaves behind, and that it implements TaskLifecycle.        *)
(***************************************************************************)
EXTENDS MaestroLocal, TLAPS

USE ServerAssumption, ClientAssumption

(* The commands of the daemon keep its state well typed. *)

LEMMA DropSessionType ==
  ASSUME ServerTypeOK, NEW s \in Sessions, DropSession(s)
  PROVE  ServerTypeOK'
BY DEF ServerTypeOK, DropSession, KeysOf, Key, Gens, TaskState, Active, Fate, Terminal

LEMMA NewTaskType ==
  ASSUME ServerTypeOK, NEW k \in Key, NEW st \in Active, NewTask(k, st)
  PROVE  ServerTypeOK'
<1>1. gen[k] + 1 \in Gens
  BY DEF ServerTypeOK, NewTask, Free, Gens
<1>2. gen' \in [Key -> 0..MaxGen]
  BY <1>1 DEF ServerTypeOK, NewTask, Gens
<1>3. fate' \in [Key -> [Gens -> Fate]]
  BY <1>1 DEF ServerTypeOK, NewTask, Fate
<1>4. QED
  BY <1>2, <1>3 DEF ServerTypeOK, NewTask, TaskState

LEMMA CancelTaskType ==
  ASSUME ServerTypeOK, NEW k \in Key, CancelTask(k)
  PROVE  ServerTypeOK'
<1>1. fate' \in [Key -> [Gens -> Fate]]
  BY DEF ServerTypeOK, CancelTask, Fate, Terminal
<1>2. QED
  BY <1>1 DEF ServerTypeOK, CancelTask, TaskState

(* How a call moves on keeps the calls well typed. *)

CallTypeOK ==
  /\ pc \in [Clients -> Step]
  /\ call \in [Clients -> Call]
  /\ out \in [Clients -> [call : Call, res : Result]]

ClientTypeOK ==
  /\ session \in [Clients -> Sessions \cup {NoSession}]
  /\ cache \in [Clients -> [Key -> Terminal \cup {"none"}]]
  /\ handle \in [Clients -> [Key -> 0..MaxGen]]

LEMMA Unclean ==
  ASSUME NEW x \in Call
  PROVE  LET y == [x EXCEPT !.clean = FALSE]
         IN  y \in Call /\ y.op = x.op /\ y.made = x.made
BY DEF Call

LEMMA NoCallType == NoCall \in Call /\ ~NoCall.made
BY DEF NoCall, Call, Op

LEMMA Labelled ==
  ASSUME NEW op \in Op
  PROVE  LET y == [NoCall EXCEPT !.op = op] IN y \in Call /\ y.op = op /\ ~y.made
<1>1. ASSUME NEW x \in Call, ~x.made
      PROVE  LET y == [x EXCEPT !.op = op] IN y \in Call /\ y.op = op /\ ~y.made
  BY <1>1 DEF Call
<1>2. QED
  BY <1>1, NoCallType

LEMMA GotoType ==
  ASSUME CallTypeOK, NEW c \in Clients, NEW step \in Step,
         Goto(c, step) \/ GotoUnclean(c, step)
  PROVE  CallTypeOK'
<1>1. CASE Goto(c, step)
  BY <1>1 DEF CallTypeOK, Goto
<1>2. CASE GotoUnclean(c, step)
  <2>1. [call[c] EXCEPT !.clean = FALSE] \in Call
    BY Unclean DEF CallTypeOK
  <2>2. call' = [call EXCEPT ![c] = [call[c] EXCEPT !.clean = FALSE]]
    BY <1>2 DEF GotoUnclean
  <2>3. QED
    BY <1>2, <2>1, <2>2 DEF CallTypeOK, GotoUnclean
<1>3. QED
  BY <1>1, <1>2

LEMMA ReturnFromType ==
  ASSUME CallTypeOK, NEW c \in Clients, NEW final \in Call, NEW res \in Result,
         ReturnFrom(c, final, res)
  PROVE  CallTypeOK'
<1>1. NoCall \in Call
  BY DEF NoCall, Call, Op
<1>2. "idle" \in Step
  BY DEF Step
<1>3. QED
  BY <1>1, <1>2 DEF CallTypeOK, ReturnFrom

LEMMA ReturnType ==
  ASSUME CallTypeOK, NEW c \in Clients, NEW res \in Result,
         Return(c, res) \/ ReturnUnclean(c, res)
  PROVE  CallTypeOK'
<1>1. call[c] \in Call /\ [call[c] EXCEPT !.clean = FALSE] \in Call
  BY Unclean DEF CallTypeOK
<1>2. QED
  BY <1>1, ReturnFromType DEF Return, ReturnUnclean

LEMMA EnterType ==
  ASSUME CallTypeOK, NEW c \in Clients, NEW step \in Step, NEW begun \in Call,
         Enter(c, step, begun)
  PROVE  CallTypeOK'
<1>1. NoOut \in [call : Call, res : Result]
  BY DEF NoOut, NoCall, Call, Op, Result
<1>2. QED
  BY <1>1 DEF CallTypeOK, Enter

LEMMA ConcludeType ==
  ASSUME CallTypeOK, NEW c \in Clients,
         NEW res \in Terminal \cup {"Queued", "Running", "TaskNotFound", "Other"},
         Conclude(c, res)
  PROVE  CallTypeOK'
<1>1. /\ res \in Result
      /\ {"Ok", "Other", "TaskNotFound", "TaskNotReady"} \subseteq Result
      /\ {"cancel", "ensure"} \subseteq Step
  BY DEF Result, Terminal, Refusal, Step
<1>2. \/ \E r \in Result : Return(c, r)
      \/ \E step \in Step : Goto(c, step)
  BY <1>1 DEF Conclude
<1>3. QED
  BY <1>2, ReturnType, GotoType

(* The three groups of variables and what leaves them alone. *)

LEMMA TypeParts ==
  /\ TypeOK <=> ServerTypeOK /\ ClientTypeOK /\ CallTypeOK
  /\ TypeOK' <=> ServerTypeOK' /\ ClientTypeOK' /\ CallTypeOK'
BY DEF TypeOK, ClientTypeOK, CallTypeOK

LEMMA SameServer == ASSUME ServerTypeOK, UNCHANGED srv PROVE ServerTypeOK'
BY DEF ServerTypeOK, srv

LEMMA SameClient == ASSUME ClientTypeOK, UNCHANGED client PROVE ClientTypeOK'
BY DEF ClientTypeOK, client

LEMMA SmallCommandsType ==
  ASSUME ServerTypeOK
  PROVE  /\ \A s \in Sessions : OpenSession(s) => ServerTypeOK'
         /\ \A k \in Key : StartTask(k) \/ ConsumeTask(k) \/ RunTask(k) => ServerTypeOK'
         /\ \A k \in Key : FinishTask(k) => ServerTypeOK'
<1>1. \A s \in Sessions : OpenSession(s) => ServerTypeOK'
  BY DEF ServerTypeOK, OpenSession
<1>2. \A k \in Key : StartTask(k) \/ ConsumeTask(k) \/ RunTask(k) => ServerTypeOK'
  BY DEF ServerTypeOK, StartTask, ConsumeTask, RunTask, TaskState, Active
<1>3. ASSUME NEW k \in Key, FinishTask(k) PROVE ServerTypeOK'
  <2>1. PICK st \in {"completed", "failed"}, f \in {"Completed", "Failed"} :
          /\ task' = [task EXCEPT ![k] = st]
          /\ fate' = [fate EXCEPT ![k][gen[k]] = f]
    BY <1>3 DEF FinishTask
  <2>2. fate' \in [Key -> [Gens -> Fate]]
    BY <2>1 DEF ServerTypeOK, Fate, Terminal
  <2>3. task' \in [Key -> TaskState]
    BY <2>1 DEF ServerTypeOK, TaskState
  <2>4. QED
    BY <1>3, <2>2, <2>3 DEF ServerTypeOK, FinishTask
<1>4. QED
  BY <1>1, <1>2, <1>3

LEMMA AdoptType ==
  ASSUME ClientTypeOK, NEW c \in Clients, NEW k \in Key, NEW g \in 0..MaxGen, Adopt(c, k, g)
  PROVE  ClientTypeOK'
<1>1. cache' \in [Clients -> [Key -> Terminal \cup {"none"}]]
  BY DEF ClientTypeOK, Adopt
<1>2. handle' \in [Clients -> [Key -> 0..MaxGen]]
  BY DEF ClientTypeOK, Adopt
<1>3. QED
  BY <1>1, <1>2 DEF ClientTypeOK, Adopt

LEMMA LearnType ==
  ASSUME ClientTypeOK, CallTypeOK, NEW c \in Clients, call[c].key \in Key,
         NEW res \in Terminal, Learn(c, res)
  PROVE  ClientTypeOK' /\ CallTypeOK'
<1>1. cache' \in [Clients -> [Key -> Terminal \cup {"none"}]]
  BY DEF ClientTypeOK, Learn
<1>2. CallTypeOK'
  BY ConcludeType DEF Learn
<1>3. QED
  BY <1>1, <1>2 DEF ClientTypeOK, Learn

LEMMA MadeType ==
  ASSUME CallTypeOK, NEW c \in Clients, NEW k \in Key
  PROVE  Made(c, k) \in Call /\ [Made(c, k) EXCEPT !.clean = FALSE] \in Call
<1>1. call[c] \in Call
  BY DEF CallTypeOK
<1>2. QED
  BY <1>1 DEF Made, Call

(***************************************************************************)
(* Which call is at which exchange, and what the calls that returned tell. *)
(***************************************************************************)

StatusStep == {"lookup", "exists", "failed", "finished", "failedAgain",
               "running", "recheck", "logs"}

ShapeOf(c) ==
  /\ pc[c] \in {"sessionExists", "sessionCreate"} => call[c].op = "acquire"
  /\ pc[c] = "sessionDelete" => call[c].op = "release" /\ call[c].target \in Sessions
  /\ pc[c] \in {"submit", "taskCreate"} =>
       call[c].op = "start" /\ ~call[c].made /\ session[c] \in Sessions
  /\ pc[c] \in {"configure", "execute", "cleanup"} =>
       call[c].op = "start" /\ call[c].key \in Key
  /\ pc[c] \in StatusStep =>
       call[c].op \in {"status", "stop", "result"} /\ call[c].key \in Key
  /\ pc[c] = "cancel" => call[c].op = "stop" /\ call[c].key \in Key
  /\ pc[c] \in {"ensure", "getResults", "getRecheck"} =>
       call[c].op = "result" /\ call[c].key \in Key

KeepsContract(final, res) == final.op = "start" /\ res \in Refusal => ~final.made

SoundCall(c) == ShapeOf(c) /\ KeepsContract(out[c].call, out[c].res)

Calls == CallTypeOK /\ \A c \in Clients : SoundCall(c)

(* A step of one instance leaves the calls of the others sound. *)
LEMMA OneMoves ==
  ASSUME Calls, CallTypeOK', NEW c \in Clients, SoundCall(c)',
         \A d \in Clients \ {c} : /\ pc'[d] = pc[d] /\ call'[d] = call[d]
                                  /\ out'[d] = out[d] /\ session'[d] = session[d]
  PROVE  Calls'
BY DEF Calls, SoundCall, ShapeOf, KeepsContract

(* The ways in which a call moves on keep the calls sound. *)

LEMMA GotoKeeps ==
  ASSUME Calls, NEW c \in Clients, NEW step \in Step,
         Goto(c, step) \/ GotoUnclean(c, step),
         \A d \in Clients \ {c} : session'[d] = session[d],
         \/ pc[c] \in StatusStep /\ step \in StatusStep
         \/ pc[c] \in StatusStep /\ step = "cancel" /\ call[c].op = "stop"
         \/ pc[c] \in StatusStep /\ step = "ensure" /\ call[c].op = "result"
         \/ /\ pc[c] \in {"configure", "execute"}
            /\ step \in {"execute", "cleanup"}
         \/ /\ pc[c] \in {"ensure", "getResults"}
            /\ step \in {"getResults", "getRecheck"}
         \/ pc[c] = "sessionExists" /\ step = "sessionCreate"
  PROVE  Calls'
<1>1. CallTypeOK'
  BY GotoType DEF Calls
<1>2. \A d \in Clients \ {c} : pc'[d] = pc[d] /\ call'[d] = call[d] /\ out'[d] = out[d]
  BY DEF Goto, GotoUnclean, Calls, CallTypeOK
<1>3. /\ pc'[c] = step
      /\ call'[c].op = call[c].op /\ call'[c].key = call[c].key
      /\ out'[c] = out[c]
  BY DEF Goto, GotoUnclean, Calls, CallTypeOK, Call
<1>4. ShapeOf(c)
  BY DEF Calls, SoundCall
<1>5. ShapeOf(c)'
  BY <1>3, <1>4 DEF ShapeOf, StatusStep
<1>6. SoundCall(c)'
  BY <1>3, <1>5 DEF Calls, SoundCall, KeepsContract
<1>7. QED
  BY <1>1, <1>2, <1>6, OneMoves

LEMMA ReturnFromKeeps ==
  ASSUME Calls, NEW c \in Clients, NEW final \in Call, NEW res \in Result,
         ReturnFrom(c, final, res), KeepsContract(final, res),
         \A d \in Clients \ {c} : session'[d] = session[d]
  PROVE  Calls'
<1>1. CallTypeOK'
  BY ReturnFromType DEF Calls
<1>2. \A d \in Clients \ {c} : pc'[d] = pc[d] /\ call'[d] = call[d] /\ out'[d] = out[d]
  BY DEF ReturnFrom, Calls, CallTypeOK
<1>3. pc'[c] = "idle" /\ out'[c].call = final /\ out'[c].res = res
  BY DEF ReturnFrom, Calls, CallTypeOK
<1>4. SoundCall(c)'
  BY <1>3 DEF SoundCall, ShapeOf, StatusStep, KeepsContract
<1>5. QED
  BY <1>1, <1>2, <1>4, OneMoves

LEMMA ReturnKeeps ==
  ASSUME Calls, NEW c \in Clients, NEW res \in Result,
         Return(c, res) \/ ReturnUnclean(c, res),
         call[c].op = "start" /\ res \in Refusal => ~call[c].made,
         \A d \in Clients \ {c} : session'[d] = session[d]
  PROVE  Calls'
<1>1. call[c] \in Call
  BY DEF Calls, CallTypeOK
<1>2. [call[c] EXCEPT !.clean = FALSE] \in Call
  BY <1>1, Unclean
<1>3. KeepsContract(call[c], res) /\ KeepsContract([call[c] EXCEPT !.clean = FALSE], res)
  BY <1>1, Unclean DEF KeepsContract
<1>4. QED
  BY <1>1, <1>2, <1>3, ReturnFromKeeps DEF Return, ReturnUnclean

Answer == Terminal \cup {"Queued", "Running", "TaskNotFound", "Other"}

LEMMA ConcludeKeeps ==
  ASSUME Calls, NEW c \in Clients, NEW res \in Answer, pc[c] \in StatusStep,
         Conclude(c, res), UNCHANGED session
  PROVE  Calls'
<1>1. call[c].op # "start"
  BY DEF Calls, SoundCall, ShapeOf
<1>2. /\ res \in Result
      /\ {"Ok", "Other", "TaskNotFound", "TaskNotReady"} \subseteq Result
      /\ {"cancel", "ensure"} \subseteq Step
  BY DEF Answer, Result, Terminal, Refusal, Step
<1>3. \/ \E r \in Result : Return(c, r)
      \/ call[c].op = "stop" /\ Goto(c, "cancel")
      \/ call[c].op = "result" /\ Goto(c, "ensure")
  BY <1>2 DEF Conclude
<1>4. QED
  BY <1>1, <1>2, <1>3, ReturnKeeps, GotoKeeps

LEMMA LearnKeeps ==
  ASSUME ClientTypeOK, Calls, NEW c \in Clients, NEW res \in Terminal,
         pc[c] \in StatusStep, Learn(c, res)
  PROVE  ClientTypeOK' /\ Calls'
<1>1. call[c].key \in Key
  BY DEF Calls, SoundCall, ShapeOf
<1>2. ClientTypeOK'
  BY <1>1, LearnType DEF Calls
<1>3. Calls'
  BY ConcludeKeeps DEF Learn, Answer
<1>4. QED
  BY <1>2, <1>3

LEMMA EnterKeeps ==
  ASSUME Calls, NEW c \in Clients, NEW step \in Step, NEW begun \in Call,
         Enter(c, step, begun),
         \/ step \in {"sessionExists", "sessionCreate"} /\ begun.op = "acquire"
         \/ step = "sessionDelete" /\ begun.op = "release" /\ begun.target \in Sessions
         \/ /\ step \in {"submit", "taskCreate"}
            /\ begun.op = "start" /\ ~begun.made /\ session[c] \in Sessions
         \/ /\ step = "lookup"
            /\ begun.op \in {"status", "stop", "result"} /\ begun.key \in Key
  PROVE  Calls'
<1>1. CallTypeOK'
  BY EnterType DEF Calls
<1>2. \A d \in Clients \ {c} : /\ pc'[d] = pc[d] /\ call'[d] = call[d]
                               /\ out'[d] = out[d] /\ session'[d] = session[d]
  BY DEF Enter, client, Calls, CallTypeOK
<1>3. pc'[c] = step /\ call'[c] = begun /\ out'[c] = NoOut /\ session'[c] = session[c]
  BY DEF Enter, client, Calls, CallTypeOK
<1>4. ShapeOf(c)'
  BY <1>3 DEF ShapeOf, StatusStep
<1>5. KeepsContract(out[c].call, out[c].res)'
  BY <1>3 DEF KeepsContract, NoOut, NoCall
<1>6. QED
  BY <1>1, <1>2, <1>4, <1>5, OneMoves DEF SoundCall

(***************************************************************************)
(* The inductive invariant, and every action of the application.           *)
(***************************************************************************)

IInv == ServerTypeOK /\ ClientTypeOK /\ Calls

LEMMA ConstructStep ==
  ASSUME IInv, NEW c \in Clients, NEW s \in Sessions \cup {NoSession}, Construct(c, s)
  PROVE  IInv'
<1>1. ServerTypeOK'
  BY SameServer DEF IInv, Construct
<1>2. ClientTypeOK'
  BY DEF IInv, ClientTypeOK, Construct, NoVerdicts, NoHandles
<1>3. NoCall \in Call /\ NoOut \in [call : Call, res : Result]
  BY DEF NoCall, NoOut, Call, Op, Result
<1>4. CallTypeOK'
  BY <1>3 DEF IInv, Calls, CallTypeOK, Construct, Step
<1>5. \A d \in Clients \ {c} : /\ pc'[d] = pc[d] /\ call'[d] = call[d]
                               /\ out'[d] = out[d] /\ session'[d] = session[d]
  BY DEF Construct, IInv, ClientTypeOK, Calls, CallTypeOK
<1>6. pc'[c] = "idle" /\ out'[c] = NoOut
  BY DEF Construct, IInv, Calls, CallTypeOK
<1>7. SoundCall(c)'
  BY <1>6 DEF SoundCall, ShapeOf, StatusStep, KeepsContract, NoOut, NoCall
<1>8. QED
  BY <1>1, <1>2, <1>4, <1>5, <1>7, OneMoves DEF IInv

LEMMA EnterStep ==
  ASSUME IInv, NEW c \in Clients, NEW step \in Step, NEW begun \in Call,
         Enter(c, step, begun), Calls'
  PROVE  IInv'
BY SameServer, SameClient DEF IInv, Enter

LEMMA UseStep ==
  ASSUME IInv, NEW c \in Clients, Use(c)
  PROVE  IInv'
<1>1. ASSUME Acquire(c) PROVE IInv'
  <2>1. /\ [NoCall EXCEPT !.op = "acquire"] \in Call
        /\ [NoCall EXCEPT !.op = "acquire"].op = "acquire"
    BY Labelled DEF Op
  <2>2. \E step \in {"sessionExists", "sessionCreate"} :
          Enter(c, step, [NoCall EXCEPT !.op = "acquire"])
    BY <1>1 DEF Acquire
  <2>3. {"sessionExists", "sessionCreate"} \subseteq Step
    BY DEF Step
  <2>4. QED
    BY <2>1, <2>2, <2>3, EnterKeeps, EnterStep DEF IInv
<1>2. ASSUME NEW s \in Sessions, Release(c, s) PROVE IInv'
  <2> DEFINE begun == [NoCall EXCEPT !.op = "release", !.target = s]
  <2>1. begun \in Call /\ begun.op = "release" /\ begun.target = s /\ "sessionDelete" \in Step
    <3>1. ASSUME NEW x \in Call
          PROVE  LET y == [x EXCEPT !.op = "release", !.target = s]
                 IN  y \in Call /\ y.op = "release" /\ y.target = s
      BY DEF Call, Op
    <3>2. QED
      BY <3>1, NoCallType DEF Step
  <2>2. Enter(c, "sessionDelete", begun)
    BY <1>2 DEF Release
  <2> HIDE DEF begun
  <2>3. QED
    BY <2>1, <2>2, EnterKeeps, EnterStep DEF IInv
<1>3. ASSUME RejectStart(c) PROVE IInv'
  <2>1. Starting \in Call /\ ~Starting.made
    BY Labelled DEF Starting, Op
  <2>2. PICK res \in {"InvalidInput", "UnsupportedPayload", "InvalidConfig"} :
          ReturnFrom(c, Starting, res)
    BY <1>3 DEF RejectStart
  <2>3. res \in Result /\ KeepsContract(Starting, res)
    BY <2>1 DEF Result, Refusal, KeepsContract
  <2>4. UNCHANGED srv /\ UNCHANGED client
    BY <1>3 DEF RejectStart
  <2>5. Calls'
    BY <2>1, <2>2, <2>3, <2>4, ReturnFromKeeps DEF IInv, client
  <2>6. QED
    BY <2>4, <2>5, SameServer, SameClient DEF IInv
<1>4. ASSUME StartTaskCall(c) PROVE IInv'
  <2>1. Starting \in Call /\ Starting.op = "start" /\ ~Starting.made
    BY Labelled DEF Starting, Op
  <2>2. PICK step \in {"submit", "taskCreate"} : Enter(c, step, Starting)
    BY <1>4 DEF StartTaskCall
  <2>3. step \in Step /\ session[c] \in Sessions
    BY <1>4 DEF StartTaskCall, Step, IInv, ClientTypeOK
  <2>4. QED
    BY <2>1, <2>2, <2>3, EnterKeeps, EnterStep DEF IInv
<1>5. ASSUME NEW op \in {"status", "stop", "result"}, NEW t \in TaskIds, Ask(c, op, t)
      PROVE  IInv'
  <2> DEFINE k == <<session[c], t>>
             begun == [NoCall EXCEPT !.op = op, !.key = k, !.named = Named(c, k)]
  <2>1. k \in Key
    BY <1>5 DEF Ask, IInv, ClientTypeOK, Key
  <2>2. Named(c, k) \in 0..MaxGen
    BY <2>1 DEF Named, IInv, ServerTypeOK, ClientTypeOK
  <2>3. Enter(c, "lookup", begun)
    BY <1>5 DEF Ask
  <2> HIDE DEF k
  <2>4. begun \in Call /\ begun.op = op /\ begun.key = k /\ "lookup" \in Step
    <3>1. ASSUME NEW x \in Call, NEW g \in 0..MaxGen
          PROVE  LET y == [x EXCEPT !.op = op, !.key = k, !.named = g]
                 IN  y \in Call /\ y.op = op /\ y.key = k
      BY <2>1 DEF Call, Op
    <3>2. QED
      BY <2>2, <3>1, NoCallType DEF Step
  <2> HIDE DEF begun
  <2>5. QED
    BY <2>1, <2>3, <2>4, EnterKeeps, EnterStep DEF IInv
<1>6. QED
  BY <1>1, <1>2, <1>3, <1>4, <1>5, ConstructStep DEF Use

(***************************************************************************)
(* The exchanges.                                                          *)
(***************************************************************************)

(* An exchange of a status query only moves the call, or teaches the       *)
(* instance how its task ended.                                            *)
LEMMA QueryStep ==
  ASSUME IInv, NEW c \in Clients, pc[c] \in StatusStep, UNCHANGED srv,
         \/ UNCHANGED client /\ \E step \in StatusStep : Goto(c, step)
         \/ UNCHANGED client /\ \E res \in Answer : Conclude(c, res)
         \/ \E res \in Terminal : Learn(c, res)
  PROVE  IInv'
<1>1. ServerTypeOK'
  BY SameServer DEF IInv
<1>2. ASSUME UNCHANGED client, NEW step \in StatusStep, Goto(c, step) PROVE IInv'
  <2>1. step \in Step
    BY DEF StatusStep, Step
  <2>2. Calls'
    BY <1>2, <2>1, GotoKeeps DEF IInv, client
  <2>3. QED
    BY <1>1, <1>2, <2>2, SameClient DEF IInv
<1>3. ASSUME UNCHANGED client, NEW res \in Answer, Conclude(c, res) PROVE IInv'
  <2>1. Calls'
    BY <1>3, ConcludeKeeps DEF IInv, client
  <2>2. QED
    BY <1>1, <1>3, <2>1, SameClient DEF IInv
<1>4. ASSUME NEW res \in Terminal, Learn(c, res) PROVE IInv'
  BY <1>1, <1>4, LearnKeeps DEF IInv
<1>5. QED
  BY <1>2, <1>3, <1>4

LEMMA QueriesStep ==
  ASSUME IInv, NEW c \in Clients,
         \/ Lookup(c) \/ AskExists(c) \/ AskFailed(c) \/ AskFinished(c)
         \/ AskFailedAgain(c) \/ AskRunning(c) \/ Recheck(c) \/ ReadHistory(c)
  PROVE  IInv'
<1> DEFINE Moves == UNCHANGED client /\ \E step \in StatusStep : Goto(c, step)
           Answers == UNCHANGED client /\ \E res \in Answer : Conclude(c, res)
           Learns == \E res \in Terminal : Learn(c, res)
<1>1. /\ {"exists", "failed", "finished", "failedAgain", "running", "recheck", "logs"}
              \subseteq StatusStep
      /\ {"Queued", "Running", "TaskNotFound", "Other"} \subseteq Answer
      /\ {"Completed", "Failed", "Cancelled"} \subseteq Terminal
      /\ Terminal \subseteq Answer
  BY DEF StatusStep, Answer, Terminal
<1>2. CASE Lookup(c)
  <2>1. pc[c] \in StatusStep /\ UNCHANGED srv
    BY <1>2 DEF Lookup, At, StatusStep
  <2>2. call[c].key \in Key
    BY <2>1 DEF IInv, Calls, SoundCall, ShapeOf
  <2>3. cache[c][call[c].key] \in Terminal \cup {"none"}
    BY <2>2 DEF IInv, ClientTypeOK
  <2>4. Moves \/ Answers
    BY <1>1, <1>2, <2>3 DEF Lookup
  <2>5. QED
    BY <2>1, <2>4, QueryStep
<1>3. CASE AskExists(c)
  <2>1. pc[c] \in StatusStep /\ UNCHANGED srv
    BY <1>3 DEF AskExists, At, StatusStep
  <2>2. Moves \/ Answers
    BY <1>1, <1>3 DEF AskExists
  <2>3. QED
    BY <2>1, <2>2, QueryStep
<1>4. CASE AskFailed(c)
  <2>1. pc[c] \in StatusStep /\ UNCHANGED srv
    BY <1>4 DEF AskFailed, At, StatusStep
  <2>2. Moves \/ Learns
    BY <1>1, <1>4 DEF AskFailed
  <2>3. QED
    BY <2>1, <2>2, QueryStep
<1>5. CASE AskFinished(c)
  <2>1. pc[c] \in StatusStep /\ UNCHANGED srv
    BY <1>5 DEF AskFinished, At, StatusStep
  <2>2. Moves
    BY <1>1, <1>5 DEF AskFinished
  <2>3. QED
    BY <2>1, <2>2, QueryStep
<1>6. CASE AskFailedAgain(c)
  <2>1. pc[c] \in StatusStep /\ UNCHANGED srv
    BY <1>6 DEF AskFailedAgain, At, StatusStep
  <2>2. Moves \/ Learns
    BY <1>1, <1>6 DEF AskFailedAgain
  <2>3. QED
    BY <2>1, <2>2, QueryStep
<1>7. CASE AskRunning(c)
  <2>1. pc[c] \in StatusStep /\ UNCHANGED srv
    BY <1>7 DEF AskRunning, At, StatusStep
  <2>2. Moves \/ Answers
    BY <1>1, <1>7 DEF AskRunning
  <2>3. QED
    BY <2>1, <2>2, QueryStep
<1>8. CASE Recheck(c)
  <2>1. pc[c] \in StatusStep /\ UNCHANGED srv
    BY <1>8 DEF Recheck, At, StatusStep
  <2>2. Moves \/ Answers
    BY <1>1, <1>8 DEF Recheck
  <2>3. QED
    BY <2>1, <2>2, QueryStep
<1>9. CASE ReadHistory(c)
  <2>1. pc[c] \in StatusStep /\ UNCHANGED srv
    BY <1>9 DEF ReadHistory, At, StatusStep
  <2>2. Answers \/ Learns
    BY <1>1, <1>9 DEF ReadHistory
  <2>3. QED
    BY <2>1, <2>2, QueryStep
<1>10. QED
  BY <1>2, <1>3, <1>4, <1>5, <1>6, <1>7, <1>8, <1>9

(* An exchange that ends the call, or moves it within its method. *)

Ends(c) ==
  \E res \in Result :
    /\ Return(c, res) \/ ReturnUnclean(c, res)
    /\ call[c].op # "start" \/ res \notin Refusal \/ ~call[c].made

GoesOn(c) ==
  \/ /\ pc[c] \in {"configure", "execute"}
     /\ \E step \in {"execute", "cleanup"} : Goto(c, step) \/ GotoUnclean(c, step)
  \/ /\ pc[c] \in {"ensure", "getResults"}
     /\ \E step \in {"getResults", "getRecheck"} : Goto(c, step)
  \/ /\ pc[c] = "sessionExists"
     /\ Goto(c, "sessionCreate")

LEMMA PlainStep ==
  ASSUME IInv, NEW c \in Clients, ServerTypeOK', ClientTypeOK',
         \A d \in Clients \ {c} : session'[d] = session[d],
         Ends(c) \/ GoesOn(c)
  PROVE  IInv'
<1>1. {"execute", "cleanup", "getResults", "getRecheck", "sessionCreate"} \subseteq Step
  BY DEF Step
<1>2. CASE Ends(c)
  <2>1. ASSUME NEW res \in Result, Return(c, res) \/ ReturnUnclean(c, res),
               call[c].op # "start" \/ res \notin Refusal \/ ~call[c].made
        PROVE  Calls'
    BY <2>1, ReturnKeeps DEF IInv
  <2>2. Calls'
    BY <1>2, <2>1 DEF Ends
  <2>3. QED
    BY <2>2 DEF IInv
<1>3. CASE GoesOn(c)
  <2>1. Calls'
    BY <1>1, <1>3, GotoKeeps DEF IInv, GoesOn
  <2>2. QED
    BY <2>1 DEF IInv
<1>4. QED
  BY <1>2, <1>3

(* Results and refusals that the steps below need to tell apart. *)
LEMMA Kinds ==
  /\ Refusal \cup {"Ok", "Other", "TaskNotFound"} \subseteq Result
  /\ "Ok" \notin Refusal /\ "Other" \notin Refusal
BY DEF Result, Refusal

LEMMA SessionStep ==
  ASSUME IInv, NEW c \in Clients, SessionExists(c) \/ SessionCreate(c) \/ SessionDelete(c)
  PROVE  IInv'
<1>1. CASE SessionExists(c)
  <2>1. pc[c] = "sessionExists" /\ ServerTypeOK'
    BY <1>1, SameServer DEF SessionExists, At, IInv
  <2>2. ClientTypeOK'
    <3>1. CASE UNCHANGED client
      BY <3>1, SameClient DEF IInv
    <3>2. CASE /\ session' = [session EXCEPT ![c] = NoSession]
               /\ cache' = [cache EXCEPT ![c] = NoVerdicts]
               /\ handle' = [handle EXCEPT ![c] = NoHandles]
      BY <3>2 DEF IInv, ClientTypeOK, NoVerdicts, NoHandles
    <3>3. QED
      BY <1>1, <3>1, <3>2 DEF SessionExists
  <2>3. \A d \in Clients \ {c} : session'[d] = session[d]
    BY <1>1 DEF SessionExists, IInv, ClientTypeOK, client
  <2>4. Return(c, "Ok") \/ Return(c, "Other") \/ Goto(c, "sessionCreate")
    BY <1>1 DEF SessionExists
  <2>5. QED
    BY <2>1, <2>2, <2>3, <2>4, Kinds, PlainStep DEF Ends, GoesOn
<1>2. CASE SessionCreate(c)
  <2>1. ServerTypeOK'
    BY <1>2, SameServer, SmallCommandsType DEF SessionCreate, IInv
  <2>2. ClientTypeOK' /\ \A d \in Clients \ {c} : session'[d] = session[d]
    BY <1>2 DEF SessionCreate, IInv, ClientTypeOK
  <2>3. Return(c, "Ok") \/ Return(c, "Other")
    BY <1>2 DEF SessionCreate
  <2>4. QED
    BY <2>1, <2>2, <2>3, Kinds, PlainStep DEF Ends
<1>3. CASE SessionDelete(c)
  <2>1. call[c].target \in Sessions
    BY <1>3 DEF SessionDelete, At, IInv, Calls, SoundCall, ShapeOf
  <2>2. ServerTypeOK'
    BY <1>3, <2>1, SameServer, DropSessionType DEF SessionDelete, IInv
  <2>3. VerdictsWithout(c, call[c].target) \in [Key -> Terminal \cup {"none"}]
    BY DEF VerdictsWithout, IInv, ClientTypeOK
  <2>4. ClientTypeOK' /\ \A d \in Clients \ {c} : session'[d] = session[d]
    <3>1. CASE UNCHANGED client
      BY <3>1, SameClient DEF IInv, client
    <3> DEFINE s == call[c].target
               kept == [k \in Key |-> IF k[1] = s THEN 0 ELSE handle[c][k]]
    <3>2. ASSUME session' = [session EXCEPT ![c] = IF @ = s THEN NoSession ELSE @],
                 cache' = [cache EXCEPT ![c] = VerdictsWithout(c, s)],
                 handle' = [handle EXCEPT ![c] = kept]
          PROVE  ClientTypeOK' /\ \A d \in Clients \ {c} : session'[d] = session[d]
      <4>1. kept \in [Key -> 0..MaxGen]
        BY DEF IInv, ClientTypeOK
      <4> HIDE DEF kept, s
      <4>2. QED
        BY <2>3, <3>2, <4>1 DEF IInv, ClientTypeOK, s
    <3>3. QED
      BY <1>3, <3>1, <3>2 DEF SessionDelete
  <2>5. Return(c, "Ok") \/ Return(c, "Other")
    BY <1>3 DEF SessionDelete
  <2>6. QED
    BY <2>2, <2>4, <2>5, Kinds, PlainStep DEF Ends
<1>4. QED
  BY <1>1, <1>2, <1>3

(* A submission that is answered in one exchange, or not at all. *)
LEMMA CreatedStep ==
  ASSUME IInv, NEW c \in Clients, NEW k \in Key, NEW st \in Active, NewTask(k, st),
         ClientTypeOK', UNCHANGED session,
         \/ ReturnFrom(c, Made(c, k), "Ok")
         \/ ReturnFrom(c, [Made(c, k) EXCEPT !.clean = FALSE], "Other")
  PROVE  IInv'
<1>1. ServerTypeOK'
  BY NewTaskType DEF IInv
<1>2. Made(c, k) \in Call /\ [Made(c, k) EXCEPT !.clean = FALSE] \in Call
  BY MadeType DEF IInv, Calls
<1>3. \A x \in Call : KeepsContract(x, "Ok") /\ KeepsContract(x, "Other")
  BY Kinds DEF KeepsContract
<1>4. Calls'
  BY <1>2, <1>3, Kinds, ReturnFromKeeps DEF IInv
<1>5. QED
  BY <1>1, <1>4 DEF IInv

LEMMA SubmitStep ==
  ASSUME IInv, NEW c \in Clients, Submit(c)
  PROVE  IInv'
<1>1. pc[c] = "submit" /\ ~call[c].made /\ session[c] \in Sessions
  BY DEF Submit, At, IInv, Calls, SoundCall, ShapeOf
<1>2. "queued" \in Active
  BY DEF Active
<1>3. \A t \in TaskIds : <<session[c], t>> \in Key
  BY <1>1 DEF Key
<1>4. ASSUME NEW t \in TaskIds, NewTask(<<session[c], t>>, "queued"),
             Adopt(c, <<session[c], t>>, gen[<<session[c], t>>] + 1),
             ReturnFrom(c, Made(c, <<session[c], t>>), "Ok")
      PROVE  IInv'
  <2>1. gen[<<session[c], t>>] + 1 \in 0..MaxGen
    BY <1>3, <1>4 DEF NewTask, Free, IInv, ServerTypeOK
  <2>2. ClientTypeOK' /\ UNCHANGED session
    BY <1>3, <1>4, <2>1, AdoptType DEF IInv, Adopt
  <2>3. QED
    BY <1>2, <1>3, <1>4, <2>2, CreatedStep
<1>5. ASSUME \E res \in (Refusal \ {"UnsupportedPayload"}) \cup {"Other"} :
                Return(c, res) \/ ReturnUnclean(c, res),
             UNCHANGED srv, UNCHANGED client
      PROVE  IInv'
  BY <1>1, <1>5, Kinds, SameServer, SameClient, PlainStep DEF IInv, client, Ends
<1>6. ASSUME NEW t \in TaskIds, NewTask(<<session[c], t>>, "queued"),
             ReturnFrom(c, [Made(c, <<session[c], t>>) EXCEPT !.clean = FALSE], "Other"),
             UNCHANGED client
      PROVE  IInv'
  BY <1>2, <1>3, <1>6, SameClient, CreatedStep DEF IInv, client
<1>7. QED
  BY <1>4, <1>5, <1>6 DEF Submit

LEMMA TaskCreateStep ==
  ASSUME IInv, NEW c \in Clients, TaskCreate(c)
  PROVE  IInv'
<1>1. pc[c] = "taskCreate" /\ session[c] \in Sessions /\ call[c].op = "start"
  BY DEF TaskCreate, At, IInv, Calls, SoundCall, ShapeOf
<1>2. "created" \in Active
  BY DEF Active
<1>3. \A t \in TaskIds : <<session[c], t>> \in Key
  BY <1>1 DEF Key
<1>4. UNCHANGED client /\ ClientTypeOK' /\ UNCHANGED session
  BY SameClient DEF TaskCreate, IInv, client
<1>5. ASSUME NEW t \in TaskIds, NewTask(<<session[c], t>>, "created"),
             pc' = [pc EXCEPT ![c] = "configure"],
             call' = [call EXCEPT ![c] = Made(c, <<session[c], t>>)],
             UNCHANGED out
      PROVE  IInv'
  <2> DEFINE k == <<session[c], t>>
  <2>1. k \in Key
    BY <1>3
  <2>2. ServerTypeOK'
    BY <1>2, <1>5, <2>1, NewTaskType DEF IInv
  <2>3. Made(c, k) \in Call /\ Made(c, k).op = "start" /\ Made(c, k).key = k
    BY <1>1, <2>1, MadeType DEF Made, IInv, Calls, CallTypeOK, Call
  <2>4. CallTypeOK'
    BY <1>5, <2>3 DEF IInv, Calls, CallTypeOK, Step
  <2>5. /\ pc'[c] = "configure" /\ call'[c] = Made(c, k)
        /\ \A d \in Clients \ {c} : pc'[d] = pc[d] /\ call'[d] = call[d]
    BY <1>5 DEF IInv, Calls, CallTypeOK
  <2>6. ShapeOf(c)'
    BY <2>1, <2>3, <2>5 DEF ShapeOf, StatusStep
  <2>7. KeepsContract(out[c].call, out[c].res)'
    BY <1>5 DEF IInv, Calls, SoundCall, KeepsContract
  <2>8. Calls'
    BY <1>4, <1>5, <2>4, <2>5, <2>6, <2>7, OneMoves DEF IInv, SoundCall
  <2>9. QED
    BY <1>4, <2>2, <2>8 DEF IInv
<1>6. ASSUME NEW t \in TaskIds, NewTask(<<session[c], t>>, "created"),
             ReturnFrom(c, [Made(c, <<session[c], t>>) EXCEPT !.clean = FALSE], "Other")
      PROVE  IInv'
  BY <1>2, <1>3, <1>4, <1>6, CreatedStep
<1>7. ASSUME Return(c, "Other"), UNCHANGED srv
      PROVE  IInv'
  BY <1>4, <1>7, Kinds, SameServer, PlainStep DEF IInv, Ends
<1>8. QED
  BY <1>5, <1>6, <1>7 DEF TaskCreate

LEMMA LegacyStep ==
  ASSUME IInv, NEW c \in Clients, Configure(c) \/ Execute(c) \/ SubmitCleanup(c)
  PROVE  IInv'
<1>1. pc[c] \in {"configure", "execute", "cleanup"} /\ call[c].key \in Key
  BY DEF Configure, Execute, SubmitCleanup, At, IInv, Calls, SoundCall, ShapeOf
<1>2. CASE Configure(c)
  <2>1. ServerTypeOK' /\ ClientTypeOK' /\ UNCHANGED session
    BY <1>2, SameServer, SameClient DEF Configure, IInv, client
  <2>2. GoesOn(c)
    BY <1>2 DEF Configure, At, GoesOn
  <2>3. QED
    BY <2>1, <2>2, PlainStep
<1>3. CASE Execute(c)
  <2>1. ServerTypeOK'
    BY <1>1, <1>3, SameServer, SmallCommandsType DEF Execute, IInv
  <2>2. gen[call[c].key] \in 0..MaxGen
    BY <1>1 DEF IInv, ServerTypeOK
  <2>3. ClientTypeOK' /\ UNCHANGED session
    BY <1>1, <1>3, <2>2, SameClient, AdoptType DEF Execute, IInv, Adopt, client
  <2>4. GoesOn(c) \/ Return(c, "Ok")
    BY <1>3 DEF Execute, At, GoesOn
  <2>5. QED
    BY <2>1, <2>3, <2>4, Kinds, PlainStep DEF Ends
<1>4. CASE SubmitCleanup(c)
  <2>1. ServerTypeOK'
    BY <1>1, <1>4, SameServer, CancelTaskType DEF SubmitCleanup, IInv
  <2>2. ClientTypeOK' /\ UNCHANGED session
    BY <1>4, SameClient DEF SubmitCleanup, IInv, client
  <2>3. Return(c, "Other") \/ ReturnUnclean(c, "Other")
    BY <1>4 DEF SubmitCleanup, FailedAfterCreation
  <2>4. QED
    BY <2>1, <2>2, <2>3, Kinds, PlainStep DEF Ends
<1>5. QED
  BY <1>2, <1>3, <1>4

LEMMA CancelStep ==
  ASSUME IInv, NEW c \in Clients, Cancel(c)
  PROVE  IInv'
<1>1. pc[c] = "cancel" /\ call[c].op = "stop" /\ call[c].key \in Key
  BY DEF Cancel, At, IInv, Calls, SoundCall, ShapeOf
<1>2. ServerTypeOK'
  BY <1>1, SameServer, CancelTaskType DEF Cancel, IInv
<1>3. CASE /\ cache' = [cache EXCEPT ![c][call[c].key] = "Cancelled"]
           /\ UNCHANGED <<session, handle>>
           /\ Return(c, "Ok")
  <2>1. ClientTypeOK'
    BY <1>1, <1>3 DEF IInv, ClientTypeOK, Terminal
  <2>2. QED
    BY <1>2, <1>3, <2>1, Kinds, PlainStep DEF Ends
<1>4. CASE LookAgain(c)
  <2>1. ClientTypeOK' /\ UNCHANGED session
    BY <1>4, SameClient DEF LookAgain, IInv, client
  <2>2. [call[c] EXCEPT !.again = TRUE] \in Call
    <3>1. call[c] \in Call
      BY DEF IInv, Calls, CallTypeOK
    <3>2. QED
      BY <3>1 DEF Call
  <2>3. CallTypeOK'
    <3>1. call' = [call EXCEPT ![c] = [call[c] EXCEPT !.again = TRUE]]
      BY <1>4 DEF LookAgain
    <3>2. QED
      BY <1>4, <2>2, <3>1 DEF LookAgain, IInv, Calls, CallTypeOK, Step
  <2>4. /\ pc'[c] = "lookup" /\ call'[c].op = "stop" /\ call'[c].key = call[c].key
        /\ \A d \in Clients \ {c} : pc'[d] = pc[d] /\ call'[d] = call[d]
    BY <1>1, <1>4 DEF LookAgain, IInv, Calls, CallTypeOK, Call
  <2>5. ShapeOf(c)'
    BY <1>1, <2>4 DEF ShapeOf, StatusStep
  <2>6. KeepsContract(out[c].call, out[c].res)'
    BY <1>4 DEF LookAgain, IInv, Calls, SoundCall, KeepsContract
  <2>7. Calls'
    BY <1>4, <2>1, <2>3, <2>4, <2>5, <2>6, OneMoves DEF LookAgain, IInv, SoundCall
  <2>8. QED
    BY <1>2, <2>1, <2>7 DEF IInv
<1>5. QED
  BY <1>3, <1>4 DEF Cancel

LEMMA ResultStep ==
  ASSUME IInv, NEW c \in Clients, Ensure(c) \/ GetResults(c) \/ GetRecheck(c)
  PROVE  IInv'
<1>1. call[c].op = "result" /\ call[c].key \in Key
  BY DEF Ensure, GetResults, GetRecheck, At, IInv, Calls, SoundCall, ShapeOf
<1>2. ServerTypeOK'
  BY <1>1, SameServer, SmallCommandsType DEF Ensure, GetResults, GetRecheck, IInv
<1>3. ClientTypeOK' /\ UNCHANGED session
  BY SameClient DEF Ensure, GetResults, GetRecheck, IInv, client
<1>4. \/ GoesOn(c)
      \/ Return(c, "Ok") \/ Return(c, "TaskNotFound") \/ Return(c, "Other")
  BY DEF Ensure, GetResults, GetRecheck, At, GoesOn
<1>5. QED
  BY <1>1, <1>2, <1>3, <1>4, Kinds, PlainStep DEF Ends

LEMMA DaemonStep ==
  ASSUME IInv, Daemon
  PROVE  IInv'
<1>1. ServerTypeOK'
  BY DropSessionType, SmallCommandsType DEF Daemon, IInv
<1>2. ClientTypeOK' /\ Calls'
  BY DEF Daemon, IInv, ClientTypeOK, Calls, CallTypeOK, SoundCall, ShapeOf, KeepsContract
<1>3. QED
  BY <1>1, <1>2 DEF IInv

(***************************************************************************)
(* The types and the contract.                                             *)
(***************************************************************************)

LEMMA InitInv == Init => IInv
<1> SUFFICES ASSUME Init PROVE IInv
  OBVIOUS
<1>1. ServerTypeOK
  BY DEF Init, ServerInit, ServerTypeOK, TaskState, Fate
<1>2. ClientTypeOK
  BY DEF Init, ClientTypeOK, NoVerdicts, NoHandles
<1>3. NoOut \in [call : Call, res : Result]
  BY NoCallType DEF NoOut, Result
<1>4. CallTypeOK
  BY <1>3, NoCallType DEF Init, CallTypeOK, Step
<1>5. ASSUME NEW c \in Clients PROVE SoundCall(c)
  BY DEF Init, SoundCall, ShapeOf, StatusStep, KeepsContract, NoOut, NoCall
<1>6. QED
  BY <1>1, <1>2, <1>4, <1>5 DEF IInv, Calls

LEMMA NextInv == IInv /\ [Next]_vars => IInv'
<1> SUFFICES ASSUME IInv, [Next]_vars PROVE IInv'
  OBVIOUS
<1>1. CASE Daemon
  BY <1>1, DaemonStep
<1>2. ASSUME NEW c \in Clients, Advance(c) PROVE IInv'
  BY <1>2, SessionStep, SubmitStep, TaskCreateStep, LegacyStep, QueriesStep,
     CancelStep, ResultStep
     DEF Advance
<1>3. ASSUME NEW c \in Clients, Use(c) PROVE IInv'
  BY <1>3, UseStep
<1>4. CASE UNCHANGED vars
  BY <1>4 DEF vars, IInv, ServerTypeOK, ClientTypeOK, Calls, CallTypeOK,
              SoundCall, ShapeOf, KeepsContract
<1>5. QED
  BY <1>1, <1>2, <1>3, <1>4 DEF Next

(* The variables keep their types: every exchange of a call is one the call *)
(* may be at, with a session and a key where the exchange needs them.       *)
THEOREM TypeCorrect == Spec => []TypeOK
<1>1. IInv => TypeOK
  BY TypeParts DEF IInv, Calls
<1>2. QED
  BY <1>1, InitInv, NextInv, PTL DEF Spec

(* task_start never reports a refusal for a task it has created, whichever  *)
(* exchange of the submission failed (src/lib.rs 279-286).                  *)
THEOREM ContractHolds == Spec => []StartContract
<1>1. IInv => StartContract
  BY DEF IInv, Calls, SoundCall, KeepsContract, StartContract
<1>2. QED
  BY <1>1, InitInv, NextInv, PTL DEF Spec


(***************************************************************************)
(* The daemon's books: what it keeps agrees with the history.              *)
(***************************************************************************)

Tidy(k) ==
  /\ task[k] # "absent" => k[1] \in live /\ gen[k] > 0
  /\ task[k] \in Active => fate[k][gen[k]] = "active"
  /\ task[k] = "completed" => fate[k][gen[k]] = "Completed"
  /\ task[k] = "failed" => fate[k][gen[k]] = "Failed"
  /\ k \in recorded => gen[k] > 0 /\ fate[k][gen[k]] = "Cancelled"
  /\ gen[k] > 0 => k[1] \in opened
  /\ ~Reuse => gen[k] <= 1
  /\ \A g \in Gens : /\ g > gen[k] => fate[k][g] = "none"
                     /\ fate[k][g] = "active" => g = gen[k] /\ task[k] \in Active
  /\ /\ ~Reuse /\ Diagnostics /\ k[1] \in live
     /\ gen[k] > 0 /\ fate[k][gen[k]] = "Cancelled"
     => k \in recorded

Books == live \subseteq opened /\ \A k \in Key : Tidy(k)

(* What may happen to an identifier in one step of the daemon.             *)

Grows(k) ==
  /\ gen'[k] >= gen[k]
  /\ \A g \in Gens :
       /\ Promise!Progress(k, g)
       /\ g <= gen[k] /\ fate[k][g] # "active" => fate'[k][g] = fate[k][g]

\* No new task takes the identifier.
Undisturbed(k) ==
  /\ gen'[k] = gen[k]
  /\ task[k] \notin Active => task'[k] \notin Active

\* A command on one identifier, and what it leaves alone.
OnlyTouches(k) ==
  /\ UNCHANGED <<live, opened>>
  /\ \A j \in Key \ {k} : /\ task'[j] = task[j] /\ gen'[j] = gen[j] /\ fate'[j] = fate[j]
                          /\ j \in recorded' <=> j \in recorded

LEMMA Touched ==
  ASSUME ServerTypeOK, Books, NEW k \in Key, OnlyTouches(k), Tidy(k)', Grows(k)
  PROVE  Books' /\ \A j \in Key : Grows(j) /\ (j # k => Undisturbed(j))
<1>1. ASSUME NEW j \in Key, j # k PROVE Tidy(j)' /\ Grows(j) /\ Undisturbed(j)
  <2>1. Tidy(j)
    BY DEF Books
  <2>2. Tidy(j)'
    BY <1>1, <2>1 DEF Tidy, OnlyTouches
  <2>3. QED
    BY <1>1, <2>2 DEF ServerTypeOK, OnlyTouches, Grows, Undisturbed, Promise!Progress
<1>2. QED
  BY <1>1 DEF Books, OnlyTouches

LEMMA NewTaskBooks ==
  ASSUME ServerTypeOK, Books, NEW k \in Key, NEW st \in Active, NewTask(k, st)
  PROVE  /\ Books' /\ \A j \in Key : Grows(j) /\ (j # k => Undisturbed(j))
         /\ gen'[k] = gen[k] + 1 /\ k[1] \in live
<1> DEFINE g == gen[k]
<1>1. Tidy(k) /\ g \in 0..MaxGen /\ g + 1 \in Gens
  <2>1. Tidy(k)
    BY DEF Books
  <2>2. QED
    BY <2>1 DEF ServerTypeOK, NewTask, Free, Gens
<1>2. /\ task'[k] = st /\ gen'[k] = g + 1 /\ k \notin recorded'
      /\ \A i \in Gens : fate'[k][i] = IF i = g + 1 THEN "active" ELSE fate[k][i]
      /\ task[k] = "absent" /\ k[1] \in live /\ (~Reuse => g = 0)
      /\ UNCHANGED <<live, opened>>
  BY <1>1 DEF ServerTypeOK, NewTask, Free
<1>3. Tidy(k)'
  BY <1>1, <1>2 DEF Tidy, Active, Books, Gens
<1>4. Grows(k)
  BY <1>1, <1>2 DEF Tidy, Grows, Promise!Progress, Active, Gens
<1>5. OnlyTouches(k)
  BY DEF OnlyTouches, NewTask, ServerTypeOK
<1>6. QED
  BY <1>2, <1>3, <1>4, <1>5, Touched

\* A command that moves the task between states that are not final.
LEMMA MovesBooks ==
  ASSUME ServerTypeOK, Books, NEW k \in Key,
         StartTask(k) \/ RunTask(k) \/ ConsumeTask(k)
  PROVE  Books' /\ \A j \in Key : Grows(j) /\ Undisturbed(j)
<1>1. Tidy(k) /\ gen[k] \in 0..MaxGen
  BY DEF Books, ServerTypeOK
<1>2. /\ UNCHANGED <<live, opened, gen, fate, recorded>>
      /\ \A j \in Key \ {k} : task'[j] = task[j]
      /\ \/ task[k] \in Active /\ task'[k] \in Active
         \/ task[k] = "completed" /\ task'[k] = "absent"
  BY DEF StartTask, RunTask, ConsumeTask, ServerTypeOK, Active
<1>3. Tidy(k)'
  BY <1>1, <1>2 DEF Tidy, Active
<1>4. Grows(k) /\ Undisturbed(k)
  BY <1>1, <1>2 DEF Grows, Promise!Progress, Undisturbed, Active
<1>5. OnlyTouches(k)
  BY <1>2 DEF OnlyTouches
<1>6. QED
  BY <1>3, <1>4, <1>5, Touched

LEMMA EndsBooks ==
  ASSUME ServerTypeOK, Books, NEW k \in Key, FinishTask(k) \/ CancelTask(k)
  PROVE  Books' /\ \A j \in Key : Grows(j) /\ Undisturbed(j)
<1>1. Tidy(k) /\ gen[k] \in 0..MaxGen /\ task[k] \in Active
  BY DEF Books, ServerTypeOK, FinishTask, CancelTask, Active
<1>2. gen[k] \in Gens
  BY <1>1 DEF Tidy, Active, Gens
<1>3. /\ UNCHANGED <<live, opened, gen>>
      /\ \/ task'[k] = "completed" /\ fate'[k][gen[k]] = "Completed" /\ recorded' = recorded
         \/ task'[k] = "failed" /\ fate'[k][gen[k]] = "Failed" /\ recorded' = recorded
         \/ /\ task'[k] = "absent" /\ fate'[k][gen[k]] = "Cancelled"
            /\ recorded' = IF Diagnostics THEN recorded \cup {k} ELSE recorded
      /\ \A i \in Gens : i # gen[k] => fate'[k][i] = fate[k][i]
  BY <1>2 DEF ServerTypeOK, FinishTask, CancelTask
<1>4. OnlyTouches(k)
  BY DEF OnlyTouches, FinishTask, CancelTask, ServerTypeOK
<1>5. Tidy(k)'
  BY <1>1, <1>2, <1>3 DEF Tidy, Active
<1>6. Grows(k) /\ Undisturbed(k)
  BY <1>1, <1>2, <1>3
     DEF Tidy, Grows, Promise!Progress, Promise!Ended, Promise!Terminal, Undisturbed, Active
<1>7. QED
  BY <1>4, <1>5, <1>6, Touched

LEMMA SessionBooks ==
  ASSUME ServerTypeOK, Books, NEW s \in Sessions, OpenSession(s) \/ DropSession(s)
  PROVE  Books' /\ \A j \in Key : Grows(j) /\ Undisturbed(j)
<1>1. ASSUME OpenSession(s), NEW j \in Key PROVE Tidy(j)' /\ Grows(j) /\ Undisturbed(j)
  <2>1. Tidy(j)
    BY DEF Books
  <2>2. QED
    BY <1>1, <2>1
       DEF OpenSession, Tidy, Grows, Promise!Progress, Undisturbed, ServerTypeOK
<1>2. ASSUME DropSession(s), NEW j \in Key PROVE Tidy(j)' /\ Grows(j) /\ Undisturbed(j)
  <2>1. Tidy(j) /\ gen[j] \in 0..MaxGen
    BY DEF Books, ServerTypeOK
  <2>2. /\ task'[j] = (IF j[1] = s THEN "absent" ELSE task[j])
        /\ \A g \in Gens : fate'[j][g] =
             IF j[1] = s /\ fate[j][g] = "active" THEN "dropped" ELSE fate[j][g]
        /\ UNCHANGED <<opened, gen>>
        /\ live' = live \ {s}
        /\ j \in recorded' <=> j \in recorded /\ j[1] # s
    BY <1>2 DEF DropSession, KeysOf
  <2>3. gen[j] > 0 => gen[j] \in Gens
    BY <2>1 DEF Gens
  <2>4. Tidy(j)'
    BY <2>1, <2>2, <2>3 DEF Tidy, Active
  <2>5. Grows(j) /\ Undisturbed(j)
    BY <2>1, <2>2
       DEF Grows, Promise!Progress, Promise!Ended, Undisturbed, Active
  <2>6. QED
    BY <2>4, <2>5
<1>3. live' \subseteq opened'
  BY DEF OpenSession, DropSession, Books
<1>4. QED
  BY <1>1, <1>2, <1>3 DEF Books

(***************************************************************************)
(* What an instance may believe, and what its calls may say.               *)
(***************************************************************************)

Settled(k, n) == n > 0 => fate[k][n] # "active"

Remembers(c, k) ==
  /\ handle[c][k] <= gen[k]
  /\ cache[c][k] # "none" \/ handle[c][k] # 0 => k[1] = session[c]
  /\ cache[c][k] # "none" => \E g \in Gens : g >= handle[c][k] /\ fate[k][g] = cache[c][k]

KeyStep == StatusStep \cup {"configure", "execute", "cleanup", "cancel",
                            "ensure", "getResults", "getRecheck"}

\* The running call may take this exchange next.
Fits(c, step) ==
  LET k == call[c].key
      n == call[c].named IN
  /\ step = "sessionCreate" => session[c] = NoSession
  /\ step # "idle" => out[c] = NoOut
  /\ step \in KeyStep => k[1] = session[c]
  /\ step \in {"configure", "execute", "cleanup"} => gen[k] > handle[c][k]
  /\ step \in (StatusStep \ {"lookup"}) \cup {"cancel"} => cache[c][k] = "none"
  /\ step = "failedAgain" => gen[k] > 0 /\ task[k] \notin Active
  /\ step \in StatusStep \cup {"cancel"} =>
        /\ n <= gen[k]
        /\ IF Reuse THEN n = handle[c][k] ELSE n <= 1
        /\ step = "logs" => Settled(k, n)
        /\ Trouble = {} /\ (step = "recheck" \/ call[c].again) => Settled(k, n)

\* A call may end so.
Tells(final, res) ==
  /\ final.op = "stop" =>
       /\ final.key \in Key
       /\ final.named <= gen[final.key]
       /\ res \in {"Ok", "TaskNotFound"} \/ Trouble = {} => Settled(final.key, final.named)
  /\ final.op = "start" /\ final.made =>
       /\ final.key \in Key
       /\ gen[final.key] > 0
       /\ final.clean /\ res # "Ok" => task[final.key] \notin Active

Sober(c) ==
  /\ \A k \in Key : Remembers(c, k)
  /\ Fits(c, pc[c])
  /\ Tells(out[c].call, out[c].res)

SInv == Books /\ \A c \in Clients : Sober(c)

(* What stays true while identifiers only grow.                            *)

LEMMA SettledStays ==
  ASSUME ServerTypeOK, ServerTypeOK', NEW k \in Key, Grows(k),
         NEW n \in 0..MaxGen, n <= gen[k], Settled(k, n)
  PROVE  n <= gen'[k] /\ Settled(k, n)'
<1>1. n > 0 => n \in Gens
  BY DEF Gens
<1>2. gen[k] \in 0..MaxGen /\ gen'[k] \in 0..MaxGen /\ gen'[k] >= gen[k]
  BY DEF ServerTypeOK, Grows
<1>3. QED
  BY <1>1, <1>2 DEF Settled, Grows

LEMMA RemembersStays ==
  ASSUME ServerTypeOK, ServerTypeOK', ClientTypeOK, NEW c \in Clients, NEW k \in Key,
         Remembers(c, k), Grows(k),
         session'[c] = session[c], cache'[c][k] = cache[c][k], handle'[c][k] = handle[c][k]
  PROVE  Remembers(c, k)'
<1>1. /\ gen[k] \in 0..MaxGen /\ gen'[k] \in 0..MaxGen /\ gen'[k] >= gen[k]
      /\ handle[c][k] \in 0..MaxGen /\ cache[c][k] \in Terminal \cup {"none"}
  BY DEF ServerTypeOK, ClientTypeOK, Grows
<1>2. \A g \in Gens : fate[k][g] \in Terminal => fate'[k][g] = fate[k][g]
  BY DEF Grows, Promise!Progress, Terminal
<1>3. QED
  BY <1>1, <1>2 DEF Remembers

\* A task that is not active leaves no generation of its name active.
LEMMA InactiveSettles ==
  ASSUME ServerTypeOK, Books, NEW k \in Key, task[k] \notin Active, NEW n \in 0..MaxGen
  PROVE  Settled(k, n)
<1>1. Tidy(k) /\ (n > 0 => n \in Gens)
  BY DEF Books, Gens
<1>2. QED
  BY <1>1 DEF Tidy, Settled

\* Nor does a verdict about a later one.
LEMMA VerdictSettles ==
  ASSUME ServerTypeOK, Books, NEW k \in Key, NEW n \in 0..MaxGen,
         NEW g \in Gens, g >= n, fate[k][g] \in Terminal
  PROVE  Settled(k, n)
<1>1. Tidy(k) /\ (n > 0 => n \in Gens) /\ gen[k] \in 0..MaxGen
  BY DEF Books, Gens, ServerTypeOK
<1>2. g <= gen[k]
  BY <1>1 DEF Tidy, Terminal, Gens
<1>3. QED
  BY <1>1, <1>2 DEF Tidy, Settled, Terminal, Gens

\* What the other instances, and the daemon, leave an instance in.
LEMMA OthersSober ==
  ASSUME IInv, IInv', NEW c \in Clients, Sober(c),
         /\ session'[c] = session[c] /\ cache'[c] = cache[c] /\ handle'[c] = handle[c]
         /\ pc'[c] = pc[c] /\ call'[c] = call[c] /\ out'[c] = out[c],
         \A k \in Key : Grows(k) /\ (gen[k] > 0 => Undisturbed(k))
  PROVE  Sober(c)'
<1>1. ServerTypeOK /\ ServerTypeOK' /\ ClientTypeOK
  BY DEF IInv
<1>2. \A k \in Key : Remembers(c, k)'
  BY <1>1, RemembersStays DEF Sober
<1>3. /\ call[c] \in Call /\ out[c] \in [call : Call, res : Result]
      /\ pc[c] \in KeyStep => call[c].key \in Key
  BY DEF IInv, Calls, CallTypeOK, SoundCall, ShapeOf, KeyStep, StatusStep
<1>4. \A k \in Key : /\ gen[k] \in 0..MaxGen /\ gen'[k] \in 0..MaxGen /\ gen'[k] >= gen[k]
                     /\ handle[c][k] \in 0..MaxGen
  BY <1>1 DEF ServerTypeOK, ClientTypeOK, Grows
<1>5. Fits(c, pc[c])'
  <2>1. Fits(c, pc[c])
    BY DEF Sober
  <2>2. CASE pc[c] \notin KeyStep
    BY <2>1, <2>2 DEF Fits, KeyStep, StatusStep
  <2>3. CASE pc[c] \in KeyStep
    <3> DEFINE k == call[c].key
               n == call[c].named
    <3>1. k \in Key /\ n \in 0..MaxGen
      BY <1>3, <2>3 DEF Call
    <3>2. n <= gen[k] => n <= gen'[k] /\ (Settled(k, n) => Settled(k, n)')
      BY <1>1, <1>4, <3>1, SettledStays
    <3>3. gen[k] > 0 => gen'[k] > 0 /\ (task[k] \notin Active => task'[k] \notin Active)
      BY <1>4, <3>1 DEF Undisturbed
    <3>4. gen[k] > handle[c][k] => gen'[k] > handle[c][k]
      BY <1>4, <3>1
    <3>5. (Settled(k, n) => Settled(k, n)') \/ ~(n <= gen[k])
      BY <3>2
    <3> HIDE DEF k, n
    <3>6. QED
      BY <2>1, <3>2, <3>3, <3>4 DEF Fits, k, n, KeyStep, StatusStep
  <2>4. QED
    BY <2>2, <2>3
<1>6. Tells(out[c].call, out[c].res)'
  <2> DEFINE f == out[c].call
  <2>1. f \in Call /\ f.named \in 0..MaxGen
    BY <1>3 DEF Call
  <2>2. Tells(f, out[c].res)
    BY DEF Sober
  <2>3. ASSUME f.key \in Key, f.named <= gen[f.key]
        PROVE  f.named <= gen'[f.key] /\ (Settled(f.key, f.named) => Settled(f.key, f.named)')
    BY <1>1, <1>4, <2>1, <2>3, SettledStays
  <2>4. ASSUME f.key \in Key, gen[f.key] > 0
        PROVE  gen'[f.key] > 0 /\ (task[f.key] \notin Active => task'[f.key] \notin Active)
    BY <1>4, <2>4 DEF Undisturbed
  <2>5. out'[c] = out[c]
    OBVIOUS
  <2>6. QED
    BY <2>2, <2>3, <2>4, <2>5 DEF Tells
<1>7. QED
  BY <1>2, <1>5, <1>6 DEF Sober

(***************************************************************************)
(* The books through every step.                                           *)
(***************************************************************************)

Calm == Books' /\ \A k \in Key : Grows(k) /\ Undisturbed(k)
Steady == Books' /\ \A k \in Key : Grows(k) /\ (~Reuse /\ gen[k] > 0 => Undisturbed(k))

LEMMA SameBooks == ASSUME ServerTypeOK, Books, UNCHANGED srv PROVE Calm
BY DEF srv, Books, Tidy, Calm, Grows, Undisturbed, Promise!Progress, ServerTypeOK

LEMMA NewTaskSteady ==
  ASSUME ServerTypeOK, Books, NEW k \in Key, NEW st \in Active, NewTask(k, st)
  PROVE  Steady
<1>1. \A j \in Key : ~Reuse /\ gen[j] > 0 => j # k
  BY DEF NewTask, Free, ServerTypeOK
<1>2. QED
  BY <1>1, NewTaskBooks DEF Steady

LEMMA CalmSteady == Calm => Steady
BY DEF Calm, Steady

LEMMA DaemonCalm == ASSUME IInv, Books, Daemon PROVE Calm
BY SessionBooks, MovesBooks, EndsBooks DEF Daemon, IInv, Calm

LEMMA UseCalm == ASSUME IInv, Books, NEW c \in Clients, Use(c) PROVE Calm /\ UNCHANGED srv
<1>1. UNCHANGED srv
  BY DEF Use, Construct, Acquire, Release, RejectStart, StartTaskCall, Ask, Enter
<1>2. ServerTypeOK
  BY DEF IInv
<1>3. QED
  BY <1>1, <1>2, SameBooks

\* Every exchange but the two that submit a task leaves the identifiers in use.
LEMMA AdvanceCalm ==
  ASSUME IInv, Books, NEW c \in Clients, Advance(c)
  PROVE  Steady /\ (Submit(c) \/ TaskCreate(c) \/ Calm)
<1>1. CASE SessionExists(c) \/ SessionCreate(c) \/ SessionDelete(c)
  <2>1. pc[c] = "sessionDelete" => call[c].target \in Sessions
    BY DEF IInv, Calls, SoundCall, ShapeOf
  <2>2. UNCHANGED srv \/ \E s \in Sessions : OpenSession(s) \/ DropSession(s)
    BY <1>1, <2>1 DEF SessionExists, SessionCreate, SessionDelete, At
  <2>3. QED
    BY <2>2, SameBooks, SessionBooks, CalmSteady DEF IInv, Calm
<1>2. CASE Submit(c) \/ TaskCreate(c)
  <2>1. session[c] \in Sessions
    BY <1>2 DEF Submit, TaskCreate, At, IInv, Calls, SoundCall, ShapeOf
  <2>2. \A t \in TaskIds : <<session[c], t>> \in Key
    BY <2>1 DEF Key
  <2>3. UNCHANGED srv \/ \E k \in Key, st \in Active : NewTask(k, st)
    BY <1>2, <2>2 DEF Submit, TaskCreate, Active
  <2>4. QED
    BY <1>2, <2>3, SameBooks, CalmSteady, NewTaskSteady DEF IInv
<1>3. CASE Configure(c) \/ Execute(c) \/ SubmitCleanup(c)
  <2>1. call[c].key \in Key
    BY <1>3 DEF Configure, Execute, SubmitCleanup, At, IInv, Calls, SoundCall, ShapeOf
  <2>2. UNCHANGED srv \/ \E k \in Key : StartTask(k) \/ CancelTask(k)
    BY <1>3, <2>1 DEF Configure, Execute, SubmitCleanup
  <2>3. QED
    BY <2>2, SameBooks, MovesBooks, EndsBooks, CalmSteady DEF IInv, Calm
<1>4. CASE Cancel(c) \/ Ensure(c) \/ GetResults(c) \/ GetRecheck(c)
  <2>1. call[c].key \in Key
    BY <1>4 DEF Cancel, Ensure, GetResults, GetRecheck, At, IInv, Calls, SoundCall, ShapeOf
  <2>2. UNCHANGED srv \/ \E k \in Key : ConsumeTask(k) \/ CancelTask(k)
    BY <1>4, <2>1 DEF Cancel, Ensure, GetResults, GetRecheck
  <2>3. QED
    BY <2>2, SameBooks, MovesBooks, EndsBooks, CalmSteady DEF IInv, Calm
<1>5. CASE \/ Lookup(c) \/ AskExists(c) \/ AskFailed(c) \/ AskFinished(c)
           \/ AskFailedAgain(c) \/ AskRunning(c) \/ Recheck(c) \/ ReadHistory(c)
  <2>1. UNCHANGED srv
    BY <1>5 DEF Lookup, AskExists, AskFailed, AskFinished, AskFailedAgain, AskRunning,
                Recheck, ReadHistory
  <2>2. QED
    BY <2>1, SameBooks, CalmSteady DEF IInv
<1>6. QED
  BY <1>1, <1>2, <1>3, <1>4, <1>5 DEF Advance

(***************************************************************************)
(* The ways in which a call moves on keep its instance sober.              *)
(***************************************************************************)

Sane == IInv /\ IInv' /\ SInv

LEMMA GotoSober ==
  ASSUME Sane, NEW c \in Clients, NEW step \in Step, pc[c] # "idle",
         Goto(c, step) \/ GotoUnclean(c, step),
         \A k \in Key : Remembers(c, k)', Fits(c, step)'
  PROVE  Sober(c)'
<1>1. pc'[c] = step /\ out'[c] = out[c]
  BY DEF Goto, GotoUnclean, Sane, IInv, Calls, CallTypeOK
<1>2. out[c] = NoOut
  BY DEF Sane, SInv, Sober, Fits
<1>3. Tells(NoOut.call, NoOut.res)'
  BY DEF Tells, NoOut, NoCall
<1>4. QED
  BY <1>1, <1>2, <1>3 DEF Sober

\* Nothing but the exchange of the call changes.
LEMMA QuietGotoSober ==
  ASSUME Sane, NEW c \in Clients, NEW step \in Step, pc[c] # "idle",
         Goto(c, step) \/ GotoUnclean(c, step),
         UNCHANGED srv, UNCHANGED client, Fits(c, step)
  PROVE  Sober(c)'
<1>1. \A k \in Key : Remembers(c, k)'
  BY DEF Sane, SInv, Sober, Remembers, srv, client
<1>2. /\ call'[c].key = call[c].key /\ call'[c].named = call[c].named
      /\ call'[c].again = call[c].again /\ out' = out
  BY DEF Goto, GotoUnclean, Sane, IInv, Calls, CallTypeOK, Call
<1>3. Fits(c, step)'
  BY <1>2 DEF Fits, Settled, srv, client
<1>4. QED
  BY <1>1, <1>3, GotoSober

LEMMA ReturnSober ==
  ASSUME Sane, NEW c \in Clients, NEW final, NEW res, ReturnFrom(c, final, res),
         \A k \in Key : Remembers(c, k)', Tells(final, res)'
  PROVE  Sober(c)'
<1>1. pc'[c] = "idle" /\ out'[c].call = final /\ out'[c].res = res
  BY DEF ReturnFrom, Sane, IInv, Calls, CallTypeOK
<1>2. Fits(c, "idle")'
  BY DEF Fits, KeyStep, StatusStep
<1>3. QED
  BY <1>1, <1>2 DEF Sober

\* The status is known: what it implies for the task the caller named is true.
LEMMA ConcludeSober ==
  ASSUME Sane, NEW c \in Clients, pc[c] \in StatusStep, NEW res \in Answer, Conclude(c, res),
         UNCHANGED <<session, handle>>, UNCHANGED srv,
         \A k \in Key : Remembers(c, k)',
         res \in Terminal \cup {"TaskNotFound"} => Settled(call[c].key, call[c].named),
         Trouble = {} /\ res = "Other" => Settled(call[c].key, call[c].named),
         res \in {"Queued", "Running"} => cache'[c][call[c].key] = "none"
  PROVE  Sober(c)'
<1> DEFINE k == call[c].key
           n == call[c].named
<1>1. /\ call[c] \in Call /\ k \in Key /\ call[c].op # "start" /\ pc[c] # "idle"
      /\ Fits(c, pc[c])
  BY DEF Sane, SInv, Sober, IInv, Calls, CallTypeOK, SoundCall, ShapeOf, StatusStep
<1>2. /\ n <= gen[k] /\ (IF Reuse THEN n = handle[c][k] ELSE n <= 1)
      /\ k[1] = session[c] /\ out[c] = NoOut
      /\ Trouble = {} /\ call[c].again => Settled(k, n)
  BY <1>1 DEF Fits, KeyStep, StatusStep
<1>3. ASSUME NEW r, Return(c, r),
             call[c].op = "stop" /\ (r \in {"Ok", "TaskNotFound"} \/ Trouble = {}) => Settled(k, n)
      PROVE  Sober(c)'
  <2>1. PICK f : f = call[c]
    OBVIOUS
  <2>2. Tells(f, r)'
    BY <1>1, <1>2, <1>3, <2>1 DEF Tells, Settled, srv
  <2>3. QED
    BY <1>3, <2>1, <2>2, ReturnSober DEF Return
<1>4. ASSUME Goto(c, "cancel"), res \in {"Queued", "Running"}
      PROVE  Sober(c)'
  <2>1. call' = call /\ out' = out
    BY <1>4 DEF Goto
  <2>2. Fits(c, "cancel")'
    BY <1>2, <1>4, <2>1 DEF Fits, Settled, srv, StatusStep, KeyStep
  <2>3. QED
    BY <1>1, <1>4, <2>2, GotoSober DEF Step
<1>5. ASSUME Goto(c, "ensure")
      PROVE  Sober(c)'
  <2>1. call' = call /\ out' = out
    BY <1>5 DEF Goto
  <2>2. Fits(c, "ensure")'
    BY <1>2, <2>1 DEF Fits, StatusStep, KeyStep
  <2>3. QED
    BY <1>1, <1>5, <2>2, GotoSober DEF Step
<1>6. CASE call[c].op = "status" \/ call[c].op = "result"
  <2>1. (\E r : Return(c, r)) \/ Goto(c, "ensure")
    BY <1>6 DEF Conclude
  <2>2. QED
    BY <1>3, <1>5, <1>6, <2>1
<1>7. CASE call[c].op = "stop"
  <2>1. CASE res \in Terminal
    <3>1. Return(c, "Ok")
      BY <1>7, <2>1 DEF Conclude
    <3>2. QED
      BY <1>3, <2>1, <3>1
  <2>2. CASE res \notin Terminal /\ call[c].again
    <3>1. Return(c, IF res = "TaskNotFound" THEN res ELSE "Other")
      BY <1>7, <2>2 DEF Conclude
    <3>2. QED
      BY <1>2, <1>3, <2>2, <3>1
  <2>3. CASE res \notin Terminal /\ ~call[c].again
    <3>1. \/ res \in {"Queued", "Running"} /\ Goto(c, "cancel")
          \/ res \in {"TaskNotFound", "Other"} /\ Return(c, res)
      BY <1>7, <2>3 DEF Conclude, Answer
    <3>2. QED
      BY <1>3, <1>4, <3>1
  <2>4. QED
    BY <2>1, <2>2, <2>3
<1>8. QED
  BY <1>1, <1>6, <1>7 DEF Conclude

\* What the instance learns from the daemon is how the task ended.
LEMMA LearnSober ==
  ASSUME Sane, NEW c \in Clients, pc[c] \in StatusStep \ {"lookup"}, UNCHANGED srv,
         NEW res \in Terminal, Learn(c, res),
         gen[call[c].key] \in Gens, fate[call[c].key][gen[call[c].key]] = res
  PROVE  Sober(c)'
<1> DEFINE k == call[c].key
           n == call[c].named
<1>1. /\ call[c] \in Call /\ k \in Key /\ n \in 0..MaxGen /\ Fits(c, pc[c])
      /\ ServerTypeOK /\ ClientTypeOK
  BY DEF Sane, SInv, Sober, IInv, Calls, CallTypeOK, SoundCall, ShapeOf, StatusStep, Call
<1>2. n <= gen[k] /\ k[1] = session[c]
  BY <1>1 DEF Fits, KeyStep, StatusStep
<1>3. /\ \A j \in Key : cache'[c][j] = IF j = k THEN res ELSE cache[c][j]
      /\ session' = session /\ handle' = handle
  BY <1>1 DEF Learn, ClientTypeOK
<1>4. \A j \in Key : Remembers(c, j)
  BY DEF Sane, SInv, Sober
<1>5. ASSUME NEW j \in Key PROVE Remembers(c, j)'
  BY <1>1, <1>2, <1>3, <1>4 DEF Remembers, srv, ServerTypeOK
<1>6. Settled(k, n)
  BY <1>1, <1>2, VerdictSettles DEF Sane, SInv
<1>7. Conclude(c, res) /\ res \in Answer /\ UNCHANGED <<session, handle>>
  BY DEF Learn, Answer
<1>8. res \notin {"Queued", "Running", "Other"}
  BY DEF Terminal
<1>9. QED
  BY <1>5, <1>6, <1>7, <1>8, ConcludeSober

(***************************************************************************)
(* The exchanges of a status query.                                        *)
(***************************************************************************)

\* What holds while an instance asks for a status.
LEMMA Asking ==
  ASSUME Sane, NEW c \in Clients, pc[c] \in StatusStep \cup {"cancel"}
  PROVE  LET k == call[c].key
             n == call[c].named
         IN  /\ k \in Key /\ n \in 0..MaxGen /\ n <= gen[k] /\ k[1] = session[c]
             /\ IF Reuse THEN n = handle[c][k] ELSE n <= 1
             /\ out[c] = NoOut /\ pc[c] # "idle" /\ call[c] \in Call
             /\ pc[c] # "lookup" => cache[c][k] = "none"
             /\ pc[c] = "failedAgain" => gen[k] > 0 /\ task[k] \notin Active
             /\ pc[c] = "logs" => Settled(k, n)
             /\ Trouble = {} /\ (pc[c] = "recheck" \/ call[c].again) => Settled(k, n)
             /\ task[k] \notin Active => Settled(k, n)
             /\ Tidy(k) /\ gen[k] \in 0..MaxGen /\ handle[c][k] \in 0..MaxGen
             /\ \A j \in Key : Remembers(c, j)
<1> DEFINE k == call[c].key
           n == call[c].named
<1>1. /\ call[c] \in Call /\ k \in Key /\ n \in 0..MaxGen /\ Fits(c, pc[c])
      /\ ServerTypeOK /\ ClientTypeOK /\ Books /\ \A j \in Key : Remembers(c, j)
  BY DEF Sane, SInv, Sober, IInv, Calls, CallTypeOK, SoundCall, ShapeOf, StatusStep, Call
<1>2. Tidy(k) /\ gen[k] \in 0..MaxGen /\ handle[c][k] \in 0..MaxGen
  BY <1>1 DEF Books, ServerTypeOK, ClientTypeOK
<1>3. task[k] \notin Active => Settled(k, n)
  BY <1>1, InactiveSettles
<1>4. QED
  BY <1>1, <1>2, <1>3 DEF Fits, KeyStep, StatusStep

\* A move to the next question.
LEMMA AskNext ==
  ASSUME Sane, NEW c \in Clients, pc[c] \in StatusStep, UNCHANGED srv, UNCHANGED client,
         NEW step \in StatusStep \ {"lookup"}, Goto(c, step),
         cache[c][call[c].key] = "none",
         step \in {"recheck", "logs"} => Settled(call[c].key, call[c].named) \/ Trouble # {},
         step = "logs" => Settled(call[c].key, call[c].named),
         step = "failedAgain" => Finished(call[c].key)
  PROVE  Sober(c)'
<1>1. Fits(c, step)
  BY Asking DEF Fits, KeyStep, StatusStep, Finished, Tidy, Active
<1>2. step \in Step /\ pc[c] # "idle"
  BY Asking DEF StatusStep, Step
<1>3. QED
  BY <1>1, <1>2, QuietGotoSober

\* An answer that teaches the instance nothing.
LEMMA AskEnds ==
  ASSUME Sane, NEW c \in Clients, pc[c] \in StatusStep, UNCHANGED srv, UNCHANGED client,
         NEW res \in Answer, Conclude(c, res),
         res \in Terminal \cup {"TaskNotFound"} => Settled(call[c].key, call[c].named),
         Trouble = {} /\ res = "Other" => Settled(call[c].key, call[c].named),
         res \in {"Queued", "Running"} => cache[c][call[c].key] = "none"
  PROVE  Sober(c)'
<1>1. \A k \in Key : Remembers(c, k)'
  BY DEF Sane, SInv, Sober, Remembers, srv, client
<1>2. QED
  BY <1>1, ConcludeSober DEF client

LEMMA LookupSober ==
  ASSUME Sane, NEW c \in Clients, Lookup(c) PROVE Sober(c)'
<1> DEFINE k == call[c].key
           n == call[c].named
           known == cache[c][k]
<1>1. pc[c] = "lookup" /\ pc[c] \in StatusStep /\ UNCHANGED srv /\ UNCHANGED client
  BY DEF Lookup, At, StatusStep
<1>2. k \in Key /\ known \in Terminal \cup {"none"} /\ Remembers(c, k) /\ n \in 0..MaxGen
  BY <1>1, Asking DEF Sane, IInv, ClientTypeOK
<1>3. CASE known # "none"
  <2>1. PICK g \in Gens : g >= handle[c][k] /\ fate[k][g] = known
    BY <1>2, <1>3 DEF Remembers
  <2>2. g >= n
    BY <1>1, <2>1, Asking DEF Gens
  <2>3. Settled(k, n)
    BY <1>2, <1>3, <2>1, <2>2, VerdictSettles DEF Sane, SInv, IInv
  <2>4. Conclude(c, known) /\ known \in Answer /\ known \notin {"Queued", "Running", "Other"}
    BY <1>2, <1>3 DEF Lookup, Answer, Terminal
  <2>5. QED
    BY <1>1, <2>3, <2>4, AskEnds
<1>4. CASE known = "none"
  BY <1>1, <1>4, AskNext DEF Lookup, StatusStep
<1>5. QED
  BY <1>3, <1>4

LEMMA AskExistsSober ==
  ASSUME Sane, NEW c \in Clients, AskExists(c) PROVE Sober(c)'
<1> DEFINE k == call[c].key
           n == call[c].named
<1>1. pc[c] = "exists" /\ pc[c] \in StatusStep /\ UNCHANGED srv /\ UNCHANGED client
  BY DEF AskExists, At, StatusStep
<1>2. cache[c][k] = "none" /\ (task[k] \notin Active => Settled(k, n)) /\ Tidy(k)
  BY <1>1, Asking
<1>3. \/ Goto(c, "failed")
      \/ task[k] = "absent" /\ Goto(c, "logs")
      \/ (Unreachable \/ k[1] \notin live) /\ Conclude(c, "Other")
  BY DEF AskExists
<1>4. k[1] \notin live => Settled(k, n)
  BY <1>2 DEF Tidy, Active
<1>5. QED
  BY <1>1, <1>2, <1>3, <1>4, AskNext, AskEnds
     DEF StatusStep, Answer, Unreachable, Terminal, Active

LEMMA AskFailedSober ==
  ASSUME Sane, NEW c \in Clients, AskFailed(c) \/ AskFailedAgain(c) PROVE Sober(c)'
<1> DEFINE k == call[c].key
           n == call[c].named
<1>1. /\ pc[c] \in {"failed", "failedAgain"} /\ pc[c] \in StatusStep \ {"lookup"}
      /\ UNCHANGED srv
  BY DEF AskFailed, AskFailedAgain, At, StatusStep
<1>2. /\ k \in Key /\ cache[c][k] = "none" /\ (task[k] \notin Active => Settled(k, n))
      /\ Tidy(k) /\ gen[k] \in 0..MaxGen
      /\ pc[c] = "failedAgain" => task[k] \notin Active
      /\ task[k] \in TaskState
  BY <1>1, Asking DEF Sane, IInv, ServerTypeOK
<1>3. CASE task[k] = "failed" /\ Learn(c, "Failed")
  <2>1. gen[k] \in Gens /\ fate[k][gen[k]] = "Failed"
    BY <1>2, <1>3 DEF Tidy, Gens
  <2>2. QED
    BY <1>1, <1>3, <2>1, LearnSober DEF Terminal
<1>4. CASE Learn(c, "Completed") /\ task[k] \notin {"absent", "failed"} /\ pc[c] = "failedAgain"
  <2>1. task[k] = "completed"
    BY <1>2, <1>4 DEF TaskState
  <2>2. gen[k] \in Gens /\ fate[k][gen[k]] = "Completed"
    BY <1>2, <2>1 DEF Tidy, Gens
  <2>3. QED
    BY <1>1, <1>4, <2>2, LearnSober DEF Terminal
<1>5. CASE Goto(c, "finished") /\ UNCHANGED client
  BY <1>1, <1>2, <1>5, AskNext DEF StatusStep
<1>6. CASE (task[k] = "absent" \/ Unreachable) /\ Goto(c, "recheck") /\ UNCHANGED client
  BY <1>1, <1>2, <1>6, AskNext DEF StatusStep, Unreachable, Active
<1>7. QED
  BY <1>3, <1>4, <1>5, <1>6 DEF AskFailed, AskFailedAgain, At

LEMMA AskFinishedSober ==
  ASSUME Sane, NEW c \in Clients, AskFinished(c) \/ AskRunning(c) PROVE Sober(c)'
<1> DEFINE k == call[c].key
           n == call[c].named
<1>1. pc[c] \in StatusStep \ {"lookup"} /\ UNCHANGED srv /\ UNCHANGED client
  BY DEF AskFinished, AskRunning, At, StatusStep
<1>2. cache[c][k] = "none" /\ (task[k] \notin Active => Settled(k, n))
  BY <1>1, Asking
<1>3. \/ Finished(k) /\ Goto(c, "failedAgain")
      \/ Goto(c, "running")
      \/ (task[k] = "absent" \/ Unreachable) /\ Goto(c, "recheck")
      \/ Conclude(c, "Running") \/ Conclude(c, "Queued")
  BY DEF AskFinished, AskRunning
<1>4. QED
  BY <1>1, <1>2, <1>3, AskNext, AskEnds
     DEF StatusStep, Unreachable, Active, Answer, Terminal

LEMMA RecheckSober ==
  ASSUME Sane, NEW c \in Clients, Recheck(c) PROVE Sober(c)'
<1> DEFINE k == call[c].key
           n == call[c].named
<1>1. pc[c] = "recheck" /\ pc[c] \in StatusStep /\ UNCHANGED srv /\ UNCHANGED client
  BY DEF Recheck, At, StatusStep
<1>2. /\ cache[c][k] = "none" /\ (task[k] \notin Active => Settled(k, n))
      /\ Trouble = {} => Settled(k, n)
  BY <1>1, Asking
<1>3. \/ task[k] = "absent" /\ Goto(c, "logs")
      \/ Conclude(c, "Other")
  BY DEF Recheck
<1>4. QED
  BY <1>1, <1>2, <1>3, AskNext, AskEnds DEF StatusStep, Active, Answer, Terminal

LEMMA ReadHistorySober ==
  ASSUME Sane, NEW c \in Clients, ReadHistory(c) PROVE Sober(c)'
<1> DEFINE k == call[c].key
           n == call[c].named
<1>1. pc[c] = "logs" /\ pc[c] \in StatusStep \ {"lookup"} /\ UNCHANGED srv
  BY DEF ReadHistory, At, StatusStep
<1>2. Settled(k, n) /\ Tidy(k) /\ gen[k] \in 0..MaxGen
  BY <1>1, Asking
<1>3. CASE k \in recorded /\ Learn(c, "Cancelled")
  <2>1. gen[k] \in Gens /\ fate[k][gen[k]] = "Cancelled"
    BY <1>2, <1>3 DEF Tidy, Gens
  <2>2. QED
    BY <1>1, <1>3, <2>1, LearnSober DEF Terminal
<1>4. CASE Conclude(c, "TaskNotFound") /\ UNCHANGED client
  BY <1>1, <1>2, <1>4, AskEnds DEF Answer, Terminal
<1>5. QED
  BY <1>3, <1>4 DEF ReadHistory

LEMMA CancelSober ==
  ASSUME Sane, NEW c \in Clients, Cancel(c) PROVE Sober(c)'
<1>1. pc[c] = "cancel" /\ Sane /\ ServerTypeOK /\ ServerTypeOK' /\ ClientTypeOK /\ Books
  BY DEF Cancel, At, Sane, SInv, IInv
<1>2. PICK k, n, final :
        /\ k = call[c].key /\ n = call[c].named /\ final = call[c]
        /\ k \in Key /\ n \in 0..MaxGen /\ n <= gen[k] /\ k[1] = session[c]
        /\ IF Reuse THEN n = handle[c][k] ELSE n <= 1
        /\ out[c] = NoOut /\ call[c] \in Call /\ gen[k] \in 0..MaxGen
        /\ Tidy(k) /\ handle[c][k] \in 0..MaxGen
        /\ \A j \in Key : Remembers(c, j)
        /\ Trouble = {} /\ call[c].again => Settled(k, n)
  BY <1>1, Asking
<1>3. Calm
  BY <1>1, <1>2, SameBooks, EndsBooks DEF Cancel, Calm
<1>4. gen'[k] = gen[k] /\ (task'[k] \notin Active => Settled(k, n)')
  <2>1. gen'[k] = gen[k]
    BY <1>2, <1>3 DEF Calm, Undisturbed
  <2>2. Tidy(k)' /\ (n > 0 => n \in Gens)
    BY <1>2, <1>3 DEF Calm, Books, Gens
  <2>3. QED
    BY <2>1, <2>2 DEF Tidy, Settled
<1>5. CASE /\ CancelTask(k)
           /\ cache' = [cache EXCEPT ![c][k] = "Cancelled"]
           /\ UNCHANGED <<session, handle>>
           /\ Return(c, "Ok")
  <2>1. /\ gen[k] \in Gens /\ fate'[k][gen[k]] = "Cancelled" /\ task'[k] = "absent"
    BY <1>1, <1>2, <1>5 DEF CancelTask, Tidy, Active, ServerTypeOK, Gens
  <2>2. ASSUME NEW j \in Key, j # k PROVE Remembers(c, j)'
    <3>1. cache'[c][j] = cache[c][j] /\ session'[c] = session[c] /\ handle'[c][j] = handle[c][j]
      BY <1>1, <1>5, <2>2 DEF ClientTypeOK
    <3>2. QED
      BY <1>1, <1>2, <1>3, <3>1, RemembersStays DEF Calm
  <2>3. Remembers(c, k)'
    <3>1. cache'[c][k] = "Cancelled" /\ session'[c] = session[c] /\ handle'[c][k] = handle[c][k]
      BY <1>1, <1>2, <1>5 DEF ClientTypeOK
    <3>2. handle[c][k] <= gen[k]
      BY <1>2 DEF Remembers
    <3>3. QED
      BY <1>2, <1>4, <2>1, <3>1, <3>2 DEF Remembers
  <2>4. final.op = "stop" /\ final.key = k /\ final.named = n
    BY <1>1, <1>2 DEF Sane, IInv, Calls, SoundCall, ShapeOf
  <2>5. Tells(final, "Ok")'
    BY <1>2, <1>4, <2>1, <2>4 DEF Tells, Active
  <2>6. QED
    BY <1>2, <1>5, <2>2, <2>3, <2>5, ReturnSober DEF Return
<1>6. CASE /\ LookAgain(c) /\ (UNCHANGED srv \/ CancelTask(k))
           /\ CancelTask(k) \/ task[k] \notin Active \/ Trouble # {}
  <2>1. /\ pc'[c] = "lookup" /\ out'[c] = NoOut /\ UNCHANGED client
        /\ call'[c].key = k /\ call'[c].named = n
    BY <1>2, <1>6 DEF LookAgain, Sane, IInv, Calls, CallTypeOK, Call
  <2>2. \A j \in Key : Remembers(c, j)'
    BY <1>1, <1>2, <1>3, <2>1, RemembersStays DEF Calm, client
  <2>3. task[k] \notin Active \/ CancelTask(k) => task'[k] \notin Active
    BY <1>1, <1>2, <1>3 DEF Calm, Undisturbed, CancelTask, ServerTypeOK, Active, Tidy
  <2>4. Trouble = {} => Settled(k, n)'
    BY <1>4, <1>6, <2>3
  <2>5. Fits(c, "lookup")'
    BY <1>2, <1>4, <2>1, <2>4 DEF Fits, KeyStep, StatusStep, client, Settled
  <2>6. Tells(NoOut.call, NoOut.res)'
    BY DEF Tells, NoOut, NoCall
  <2>7. QED
    BY <2>1, <2>2, <2>5, <2>6 DEF Sober
<1>7. QED
  BY <1>1, <1>2, <1>5, <1>6 DEF Cancel, Refused, Unreachable, Lost

(***************************************************************************)
(* The other calls.                                                        *)
(***************************************************************************)

\* Returning from a call that is neither a stop nor a submission that made a task.
LEMMA ReturnPlain ==
  ASSUME Sane, NEW c \in Clients, NEW res, Return(c, res) \/ ReturnUnclean(c, res),
         call[c].op # "stop", call[c].op = "start" => ~call[c].made,
         \A k \in Key : Remembers(c, k)'
  PROVE  Sober(c)'
<1>1. call[c] \in Call
  BY DEF Sane, IInv, Calls, CallTypeOK
<1>2. PICK final \in Call : ReturnFrom(c, final, res) /\ final.op = call[c].op
                              /\ final.made = call[c].made
  BY <1>1, Unclean DEF Return, ReturnUnclean
<1>3. Tells(final, res)'
  BY <1>2 DEF Tells
<1>4. QED
  BY <1>2, <1>3, ReturnSober

\* An instance whose session is reset has forgotten everything.
LEMMA ResetRemembers ==
  ASSUME IInv, IInv', NEW c \in Clients, cache'[c] = NoVerdicts, handle'[c] = NoHandles
  PROVE  \A k \in Key : Remembers(c, k)'
<1>1. \A k \in Key : gen'[k] \in 0..MaxGen
  BY DEF IInv, ServerTypeOK
<1>2. QED
  BY <1>1 DEF Remembers, NoVerdicts, NoHandles

LEMMA SessionSober ==
  ASSUME Sane, Calm, NEW c \in Clients,
         SessionExists(c) \/ SessionCreate(c) \/ SessionDelete(c)
  PROVE  Sober(c)'
<1>1. /\ ServerTypeOK /\ ServerTypeOK' /\ ClientTypeOK /\ ClientTypeOK'
      /\ \A k \in Key : Remembers(c, k) /\ Grows(k)
      /\ Fits(c, pc[c])
  BY DEF Sane, IInv, SInv, Sober, Calm
<1>2. call[c].op \in {"acquire", "release"}
  BY DEF SessionExists, SessionCreate, SessionDelete, At, Sane, IInv, Calls, SoundCall, ShapeOf
<1>3. ASSUME UNCHANGED client PROVE \A k \in Key : Remembers(c, k)'
  BY <1>1, <1>3, RemembersStays DEF client
<1>4. ASSUME session' = [session EXCEPT ![c] = NoSession], Goto(c, "sessionCreate"),
             cache' = [cache EXCEPT ![c] = NoVerdicts],
             handle' = [handle EXCEPT ![c] = NoHandles], pc[c] = "sessionExists"
      PROVE  Sober(c)'
  <2>1. /\ session'[c] = NoSession /\ cache'[c] = NoVerdicts /\ handle'[c] = NoHandles
        /\ out'[c] = out[c] /\ out[c] = NoOut
    BY <1>1, <1>4 DEF ClientTypeOK, Goto, Fits
  <2>2. \A k \in Key : Remembers(c, k)'
    BY <2>1, ResetRemembers DEF Sane
  <2>3. Fits(c, "sessionCreate")'
    BY <2>1 DEF Fits, KeyStep, StatusStep
  <2>4. QED
    BY <1>4, <2>2, <2>3, GotoSober DEF Step
<1>5. ASSUME NEW s \in Sessions, session' = [session EXCEPT ![c] = s], Return(c, "Ok"),
             UNCHANGED <<cache, handle>>, pc[c] = "sessionCreate"
      PROVE  Sober(c)'
  <2>1. session[c] = NoSession
    BY <1>1, <1>5 DEF Fits
  <2>2. ASSUME NEW k \in Key PROVE Remembers(c, k)'
    <3>1. k[1] # session[c]
      BY <2>1 DEF Key
    <3>2. Remembers(c, k) /\ gen[k] \in 0..MaxGen /\ gen'[k] \in 0..MaxGen /\ gen'[k] >= gen[k]
      BY <1>1 DEF ServerTypeOK, Grows
    <3>3. handle[c][k] = 0 /\ cache[c][k] = "none"
      BY <3>1, <3>2 DEF Remembers
    <3>4. QED
      BY <1>5, <3>2, <3>3 DEF Remembers
  <2>3. QED
    BY <1>2, <1>5, <2>2, ReturnPlain
<1>6. ASSUME SessionDelete(c), ~ UNCHANGED client
      PROVE  Sober(c)'
  <2>1. PICK s \in Sessions :
          /\ session' = [session EXCEPT ![c] = IF @ = s THEN NoSession ELSE @]
          /\ cache' = [cache EXCEPT ![c] = VerdictsWithout(c, s)]
          /\ handle' = [handle EXCEPT ![c] = [k \in Key |-> IF k[1] = s THEN 0 ELSE handle[c][k]]]
          /\ Return(c, "Ok")
    BY <1>6 DEF SessionDelete, At, Sane, IInv, Calls, SoundCall, ShapeOf
  <2>2. ASSUME NEW k \in Key PROVE Remembers(c, k)'
    <3>1. /\ session'[c] = (IF session[c] = s THEN NoSession ELSE session[c])
          /\ cache'[c][k] = (IF k[1] = s THEN "none" ELSE cache[c][k])
          /\ handle'[c][k] = (IF k[1] = s THEN 0 ELSE handle[c][k])
      BY <1>1, <2>1 DEF ClientTypeOK, VerdictsWithout
    <3>2. Remembers(c, k) /\ gen'[k] \in 0..MaxGen
      BY <1>1 DEF ServerTypeOK
    <3>3. CASE k[1] = s
      BY <3>1, <3>2, <3>3 DEF Remembers
    <3>4. CASE k[1] # s /\ session[c] = s
      <4>1. cache[c][k] = "none" /\ handle[c][k] = 0
        BY <3>2, <3>4 DEF Remembers
      <4>2. QED
        BY <3>1, <3>2, <3>4, <4>1 DEF Remembers
    <3>5. CASE k[1] # s /\ session[c] # s
      BY <1>1, <3>1, <3>5, RemembersStays
    <3>6. QED
      BY <3>3, <3>4, <3>5
  <2>3. QED
    BY <1>2, <2>1, <2>2, ReturnPlain
<1>7. ASSUME UNCHANGED client, Return(c, "Ok") \/ Return(c, "Other") PROVE Sober(c)'
  BY <1>2, <1>3, <1>7, ReturnPlain
<1>8. CASE SessionExists(c)
  BY <1>4, <1>7, <1>8 DEF SessionExists, At
<1>9. CASE SessionCreate(c)
  <2>1. CASE UNCHANGED session
    BY <1>7, <1>9, <2>1 DEF SessionCreate, client
  <2>2. QED
    BY <1>5, <1>9, <2>1 DEF SessionCreate, At
<1>10. CASE SessionDelete(c)
  BY <1>6, <1>7, <1>10 DEF SessionDelete
<1>11. QED
  BY <1>8, <1>9, <1>10

\* A created task whose identifier the caller gets, or never learns.
LEMMA MadeFacts ==
  ASSUME Sane, NEW c \in Clients, NEW k \in Key
  PROVE  LET y == Made(c, k)
             z == [Made(c, k) EXCEPT !.clean = FALSE]
         IN  /\ y.key = k /\ y.op = call[c].op /\ y.made /\ y.named = call[c].named
             /\ z.key = k /\ z.op = call[c].op /\ ~z.clean
<1>1. call[c] \in Call
  BY DEF Sane, IInv, Calls, CallTypeOK
<1>2. QED
  BY <1>1 DEF Made, Call

\* The instance adopts the newest generation of an identifier of its session.
LEMMA AdoptRemembers ==
  ASSUME IInv, IInv', NEW c \in Clients, NEW k \in Key, k[1] = session[c], NEW g \in 0..MaxGen,
         Adopt(c, k, g), gen'[k] = g, \A j \in Key : Remembers(c, j) /\ Grows(j)
  PROVE  \A j \in Key : Remembers(c, j)'
<1>1. ServerTypeOK /\ ServerTypeOK' /\ ClientTypeOK
  BY DEF IInv
<1>2. ASSUME NEW j \in Key, j # k PROVE Remembers(c, j)'
  <2>1. cache'[c][j] = cache[c][j] /\ handle'[c][j] = handle[c][j] /\ session'[c] = session[c]
    BY <1>1, <1>2 DEF Adopt, ClientTypeOK
  <2>2. QED
    BY <1>1, <2>1, RemembersStays
<1>3. Remembers(c, k)'
  BY <1>1 DEF Remembers, Adopt, ClientTypeOK
<1>4. QED
  BY <1>2, <1>3

LEMMA SubmitSober ==
  ASSUME Sane, Steady, NEW c \in Clients, Submit(c) \/ TaskCreate(c)
  PROVE  Sober(c)'
<1>1. /\ ServerTypeOK /\ ServerTypeOK' /\ ClientTypeOK /\ Books
      /\ \A k \in Key : Remembers(c, k) /\ Grows(k)
      /\ Fits(c, pc[c])
  BY DEF Sane, IInv, SInv, Sober, Steady
<1>2. /\ pc[c] \in {"submit", "taskCreate"} /\ call[c].op = "start" /\ ~call[c].made
      /\ session[c] \in Sessions /\ out[c] = NoOut
  BY <1>1 DEF Submit, TaskCreate, At, Sane, IInv, Calls, SoundCall, ShapeOf, Fits
<1>3. ASSUME NEW t \in TaskIds PROVE <<session[c], t>> \in Key /\ <<session[c], t>>[1] = session[c]
  BY <1>2 DEF Key
<1>4. ASSUME UNCHANGED client PROVE \A k \in Key : Remembers(c, k)'
  BY <1>1, <1>4, RemembersStays DEF client
<1>5. ASSUME NEW k \in Key, NEW st \in Active, NewTask(k, st)
      PROVE  /\ gen'[k] = gen[k] + 1 /\ gen'[k] \in 0..MaxGen /\ gen'[k] > 0
             /\ gen'[k] > handle[c][k]
  <2>1. gen'[k] = gen[k] + 1 /\ gen[k] \in 0..MaxGen /\ gen'[k] \in 0..MaxGen
    BY <1>1, <1>5, NewTaskBooks DEF ServerTypeOK
  <2>2. handle[c][k] \in 0..MaxGen /\ handle[c][k] <= gen[k]
    BY <1>1 DEF Remembers, ClientTypeOK
  <2>3. QED
    BY <2>1, <2>2
<1>6. ASSUME NEW k \in Key, k[1] = session[c], NEW st \in Active, NewTask(k, st),
             \/ /\ Adopt(c, k, gen[k] + 1)
                /\ ReturnFrom(c, Made(c, k), "Ok")
             \/ /\ UNCHANGED client
                /\ ReturnFrom(c, [Made(c, k) EXCEPT !.clean = FALSE], "Other")
      PROVE  Sober(c)'
  <2>1. PICK final, res :
          /\ ReturnFrom(c, final, res)
          /\ final.op = "start" /\ final.key = k /\ (res = "Ok" \/ ~final.clean)
    <3>1. /\ Made(c, k).op = "start" /\ Made(c, k).key = k
          /\ [Made(c, k) EXCEPT !.clean = FALSE].op = "start"
          /\ [Made(c, k) EXCEPT !.clean = FALSE].key = k
          /\ ~[Made(c, k) EXCEPT !.clean = FALSE].clean
      BY <1>2, MadeFacts
    <3>2. CASE ReturnFrom(c, Made(c, k), "Ok")
      BY <3>1, <3>2
    <3>3. CASE ReturnFrom(c, [Made(c, k) EXCEPT !.clean = FALSE], "Other")
      BY <3>1, <3>3
    <3>4. QED
      BY <1>6, <3>2, <3>3
  <2>2. Tells(final, res)'
    BY <1>5, <1>6, <2>1 DEF Tells
  <2>3. \A j \in Key : Remembers(c, j)'
    BY <1>1, <1>4, <1>5, <1>6, AdoptRemembers DEF Sane
  <2>4. QED
    BY <2>1, <2>2, <2>3, ReturnSober
<1>7. ASSUME NEW res, Return(c, res) \/ ReturnUnclean(c, res), UNCHANGED client
      PROVE  Sober(c)'
  BY <1>2, <1>4, <1>7, ReturnPlain
<1>8. ASSUME NEW k \in Key, k[1] = session[c], NewTask(k, "created"), UNCHANGED client,
             pc' = [pc EXCEPT ![c] = "configure"],
             call' = [call EXCEPT ![c] = Made(c, k)], UNCHANGED out
      PROVE  Sober(c)'
  <2>1. /\ pc'[c] = "configure" /\ call'[c].key = k
        /\ out'[c] = NoOut /\ session'[c] = session[c] /\ handle'[c] = handle[c]
    BY <1>2, <1>8, MadeFacts DEF client, Sane, IInv, Calls, CallTypeOK
  <2>2. Fits(c, "configure")'
    BY <1>5, <1>8, <2>1 DEF Fits, StatusStep, Active
  <2>3. Tells(NoOut.call, NoOut.res)'
    BY DEF Tells, NoOut, NoCall
  <2>4. QED
    BY <1>4, <1>8, <2>1, <2>2, <2>3 DEF Sober
<1>9. CASE Submit(c)
  BY <1>3, <1>6, <1>7, <1>9 DEF Submit, Active
<1>10. CASE TaskCreate(c)
  BY <1>3, <1>6, <1>7, <1>8, <1>10 DEF TaskCreate, Active
<1>11. QED
  BY <1>9, <1>10

LEMMA LegacySober ==
  ASSUME Sane, Calm, NEW c \in Clients, Configure(c) \/ Execute(c) \/ SubmitCleanup(c)
  PROVE  Sober(c)'
<1>1. /\ ServerTypeOK /\ ServerTypeOK' /\ ClientTypeOK /\ Books
      /\ \A k \in Key : Remembers(c, k) /\ Grows(k) /\ Undisturbed(k)
      /\ Fits(c, pc[c])
  BY DEF Sane, IInv, SInv, Sober, Calm
<1>2. PICK k \in Key :
        /\ k = call[c].key /\ call[c].op = "start" /\ k[1] = session[c] /\ out[c] = NoOut
        /\ gen[k] \in 0..MaxGen /\ gen'[k] = gen[k] /\ gen[k] > 0
        /\ gen[k] > handle[c][k]
  <2>1. /\ pc[c] \in {"configure", "execute", "cleanup"}
        /\ call[c].op = "start" /\ call[c].key \in Key
    BY DEF Configure, Execute, SubmitCleanup, At, Sane, IInv, Calls, SoundCall, ShapeOf
  <2>2. gen[call[c].key] \in 0..MaxGen /\ handle[c][call[c].key] \in 0..MaxGen
    BY <1>1, <2>1 DEF ServerTypeOK, ClientTypeOK
  <2>3. QED
    BY <1>1, <2>1, <2>2 DEF Fits, KeyStep, Undisturbed
<1>3. ASSUME UNCHANGED client PROVE \A j \in Key : Remembers(c, j)'
  BY <1>1, <1>3, RemembersStays DEF client
<1>4. ASSUME UNCHANGED client, NEW step \in {"execute", "cleanup"},
             Goto(c, step) \/ GotoUnclean(c, step),
             step = "execute" => pc[c] = "configure"
      PROVE  Sober(c)'
  <2>1. /\ call'[c].key = k /\ out'[c] = NoOut /\ session'[c] = session[c]
        /\ handle'[c] = handle[c]
    BY <1>2, <1>4 DEF Goto, GotoUnclean, client, Sane, IInv, Calls, CallTypeOK, Call
  <2>2. Fits(c, step)'
    BY <1>2, <1>4, <2>1 DEF Fits, StatusStep
  <2>3. step \in Step /\ pc[c] # "idle"
    BY DEF Step, Configure, Execute, SubmitCleanup, At
  <2>4. QED
    BY <1>3, <1>4, <2>2, <2>3, GotoSober
<1>5. ASSUME UNCHANGED client,
             (Return(c, "Other") /\ task'[k] \notin Active) \/ ReturnUnclean(c, "Other")
      PROVE  Sober(c)'
  <2>1. call[c] \in Call
    BY DEF Sane, IInv, Calls, CallTypeOK
  <2>2. PICK final :
          /\ ReturnFrom(c, final, "Other") /\ final.op = "start" /\ final.key = k
          /\ final.clean => task'[k] \notin Active
    <3>1. CASE Return(c, "Other") /\ task'[k] \notin Active
      BY <1>2, <1>5, <3>1 DEF Return
    <3>2. CASE ReturnUnclean(c, "Other")
      <4>1. LET y == [call[c] EXCEPT !.clean = FALSE]
            IN  y.op = "start" /\ y.key = k /\ ~y.clean
        BY <1>2, <2>1 DEF Call
      <4>2. QED
        BY <3>2, <4>1 DEF ReturnUnclean
    <3>3. QED
      BY <1>5, <3>1, <3>2
  <2>3. Tells(final, "Other")'
    BY <1>2, <2>2 DEF Tells
  <2>4. QED
    BY <1>3, <1>5, <2>2, <2>3, ReturnSober
<1>6. CASE Configure(c)
  BY <1>4, <1>6 DEF Configure, At
<1>7. CASE Execute(c)
  <2>1. ASSUME Adopt(c, k, gen[k]), Return(c, "Ok")
        PROVE  Sober(c)'
    <3>1. \A j \in Key : Remembers(c, j)'
      BY <1>1, <1>2, <2>1, AdoptRemembers DEF Sane
    <3>2. PICK final : final = call[c]
      OBVIOUS
    <3>3. Tells(final, "Ok")'
      BY <1>2, <3>2 DEF Tells
    <3>4. QED
      BY <2>1, <3>1, <3>2, <3>3, ReturnSober DEF Return
  <2>2. \/ Adopt(c, k, gen[k]) /\ Return(c, "Ok")
        \/ UNCHANGED client /\ (Goto(c, "cleanup") \/ GotoUnclean(c, "cleanup"))
    BY <1>2, <1>7 DEF Execute
  <2>3. QED
    BY <1>4, <2>1, <2>2
<1>8. CASE SubmitCleanup(c)
  <2>1. /\ UNCHANGED client
        /\ \/ CancelTask(k) /\ Return(c, "Other")
           \/ task[k] \notin Active /\ Return(c, "Other")
           \/ ReturnUnclean(c, "Other")
    BY <1>2, <1>8 DEF SubmitCleanup, FailedAfterCreation
  <2>2. CancelTask(k) => task'[k] \notin Active
    BY <1>1 DEF CancelTask, ServerTypeOK, Active
  <2>3. task[k] \notin Active => task'[k] \notin Active
    BY <1>1 DEF Undisturbed
  <2>4. QED
    BY <1>5, <2>1, <2>2, <2>3
<1>9. QED
  BY <1>6, <1>7, <1>8

LEMMA ResultSober ==
  ASSUME Sane, Calm, NEW c \in Clients, Ensure(c) \/ GetResults(c) \/ GetRecheck(c)
  PROVE  Sober(c)'
<1>1. /\ ServerTypeOK /\ ServerTypeOK' /\ ClientTypeOK
      /\ \A k \in Key : Remembers(c, k) /\ Grows(k)
      /\ Fits(c, pc[c])
  BY DEF Sane, IInv, SInv, Sober, Calm
<1>2. /\ pc[c] \in {"ensure", "getResults", "getRecheck"}
      /\ call[c].op = "result" /\ UNCHANGED client
  BY DEF Ensure, GetResults, GetRecheck, At, Sane, IInv, Calls, SoundCall, ShapeOf
<1>3. \A j \in Key : Remembers(c, j)'
  BY <1>1, <1>2, RemembersStays DEF client
<1>4. ASSUME NEW step \in {"getResults", "getRecheck"}, Goto(c, step) PROVE Sober(c)'
  <2>1. call' = call /\ out' = out /\ session' = session
    BY <1>2, <1>4 DEF Goto, client
  <2>2. Fits(c, step)'
    BY <1>1, <1>2, <2>1 DEF Fits, KeyStep, StatusStep
  <2>3. QED
    BY <1>2, <1>3, <1>4, <2>2, GotoSober DEF Step
<1>5. \/ \E step \in {"getResults", "getRecheck"} : Goto(c, step)
      \/ \E res : Return(c, res)
  BY DEF Ensure, GetResults, GetRecheck
<1>6. QED
  BY <1>2, <1>3, <1>4, <1>5, ReturnPlain

LEMMA EnterSober ==
  ASSUME Sane, NEW c \in Clients, NEW step, NEW begun, Enter(c, step, begun),
         \/ step \in {"sessionExists", "sessionDelete", "submit", "taskCreate"}
         \/ step = "sessionCreate" /\ session[c] = NoSession
         \/ /\ step = "lookup"
            /\ begun.key[1] = session[c]
            /\ begun.named <= gen[begun.key] /\ ~begun.again
            /\ IF Reuse THEN begun.named = handle[c][begun.key] ELSE begun.named <= 1
  PROVE  Sober(c)'
<1>1. \A k \in Key : Remembers(c, k)'
  BY DEF Sane, SInv, Sober, Remembers, Enter, srv, client
<1>2. /\ pc'[c] = step /\ call'[c] = begun /\ out'[c] = NoOut
      /\ UNCHANGED srv /\ UNCHANGED client
  BY DEF Enter, Sane, IInv, Calls, CallTypeOK
<1>3. Fits(c, step)'
  BY <1>2 DEF Fits, KeyStep, StatusStep, srv, client
<1>4. Tells(NoOut.call, NoOut.res)'
  BY DEF Tells, NoOut, NoCall
<1>5. QED
  BY <1>1, <1>2, <1>3, <1>4 DEF Sober

LEMMA UseSober ==
  ASSUME Sane, NEW c \in Clients, Use(c)
  PROVE  Sober(c)'
<1>1. ASSUME NEW s \in Sessions \cup {NoSession}, Construct(c, s) PROVE Sober(c)'
  <2>1. /\ cache'[c] = NoVerdicts /\ handle'[c] = NoHandles
        /\ pc'[c] = "idle" /\ out'[c] = NoOut
    BY <1>1 DEF Construct, Sane, IInv, ClientTypeOK, Calls, CallTypeOK
  <2>2. \A k \in Key : Remembers(c, k)'
    BY <2>1, ResetRemembers DEF Sane
  <2>3. Fits(c, "idle")'
    BY DEF Fits, KeyStep, StatusStep
  <2>4. Tells(NoOut.call, NoOut.res)'
    BY DEF Tells, NoOut, NoCall
  <2>5. QED
    BY <2>1, <2>2, <2>3, <2>4 DEF Sober
<1>2. ASSUME Acquire(c) PROVE Sober(c)'
  BY <1>2, EnterSober DEF Acquire
<1>3. ASSUME NEW s \in Sessions, Release(c, s) PROVE Sober(c)'
  BY <1>3, EnterSober DEF Release
<1>4. ASSUME RejectStart(c) PROVE Sober(c)'
  <2>1. PICK res : ReturnFrom(c, Starting, res)
    BY <1>4 DEF RejectStart
  <2>2. \A k \in Key : Remembers(c, k)'
    BY <1>4 DEF RejectStart, Sane, SInv, Sober, Remembers, srv, client
  <2>3. Tells(Starting, res)'
    BY Labelled DEF Tells, Starting, Op
  <2>4. QED
    BY <2>1, <2>2, <2>3, ReturnSober
<1>5. ASSUME StartTaskCall(c) PROVE Sober(c)'
  BY <1>5, EnterSober DEF StartTaskCall
<1>6. ASSUME NEW op \in {"status", "stop", "result"}, NEW t \in TaskIds, Ask(c, op, t)
      PROVE  Sober(c)'
  <2>1. PICK k \in Key : k = <<session[c], t>> /\ k[1] = session[c]
    <3>1. session[c] \in Sessions
      BY <1>6 DEF Ask, Sane, IInv, ClientTypeOK
    <3>2. <<session[c], t>> \in Key /\ <<session[c], t>>[1] = session[c]
      BY <3>1 DEF Key
    <3>3. QED
      BY <3>2
  <2>2. Remembers(c, k) /\ gen[k] \in 0..MaxGen /\ handle[c][k] \in 0..MaxGen /\ Tidy(k)
    BY DEF Sane, SInv, Books, Sober, IInv, ServerTypeOK, ClientTypeOK
  <2>3. PICK n \in 0..MaxGen : n = Named(c, k)
    BY <2>2 DEF Named
  <2>4. PICK begun : /\ begun = [NoCall EXCEPT !.op = op, !.key = k, !.named = n]
                     /\ Enter(c, "lookup", begun)
    BY <1>6, <2>1, <2>3 DEF Ask
  <2>5. begun.key = k /\ begun.named = n /\ ~begun.again
    BY <2>4 DEF NoCall
  <2>6. n <= gen[k] /\ IF Reuse THEN n = handle[c][k] ELSE n <= 1
    BY <2>2, <2>3 DEF Named, Remembers, Tidy
  <2>7. QED
    BY <2>1, <2>4, <2>5, <2>6, EnterSober
<1>7. QED
  BY <1>1, <1>2, <1>3, <1>4, <1>5, <1>6 DEF Use

(* A step of one instance touches nothing of the others.                   *)
LEMMA OthersUntouched ==
  ASSUME IInv, NEW c \in Clients, Advance(c) \/ Use(c), NEW d \in Clients \ {c}
  PROVE  /\ session'[d] = session[d] /\ cache'[d] = cache[d] /\ handle'[d] = handle[d]
         /\ pc'[d] = pc[d] /\ call'[d] = call[d] /\ out'[d] = out[d]
<1>1. /\ session \in [Clients -> Sessions \cup {NoSession}]
      /\ \E T : cache \in [Clients -> T]
      /\ \E T : handle \in [Clients -> T]
      /\ pc \in [Clients -> Step] /\ call \in [Clients -> Call]
      /\ \E T : out \in [Clients -> T]
  BY DEF IInv, ClientTypeOK, Calls, CallTypeOK
<1>2. CASE Use(c)
  BY <1>1, <1>2 DEF Use, Construct, Acquire, Release, RejectStart, StartTaskCall, Ask, Enter,
                    ReturnFrom, client
<1>3. CASE SessionExists(c) \/ SessionCreate(c) \/ SessionDelete(c)
  BY <1>1, <1>3 DEF SessionExists, SessionCreate, SessionDelete, Return, ReturnFrom, Goto, client
<1>4. CASE Submit(c) \/ TaskCreate(c) \/ Configure(c) \/ Execute(c) \/ SubmitCleanup(c)
  <2>1. CASE Submit(c) \/ TaskCreate(c)
    BY <1>1, <2>1 DEF Submit, TaskCreate, Return, ReturnUnclean, ReturnFrom, Adopt, client
  <2>2. CASE Configure(c) \/ Execute(c) \/ SubmitCleanup(c)
    BY <1>1, <2>2 DEF Configure, Execute, SubmitCleanup, Return, ReturnUnclean, ReturnFrom,
                      Goto, GotoUnclean, Adopt, client
  <2>3. QED
    BY <1>4, <2>1, <2>2
<1>5. ASSUME NEW res, Conclude(c, res)
      PROVE  pc'[d] = pc[d] /\ call'[d] = call[d] /\ out'[d] = out[d]
  BY <1>1, <1>5 DEF Conclude, Return, ReturnFrom, Goto
<1>6. CASE Lookup(c) \/ AskExists(c) \/ AskFinished(c) \/ AskRunning(c) \/ Recheck(c)
  BY <1>1, <1>5, <1>6 DEF Lookup, AskExists, AskFinished, AskRunning, Recheck, Goto, client
<1>7. CASE AskFailed(c) \/ AskFailedAgain(c) \/ ReadHistory(c)
  BY <1>1, <1>5, <1>7 DEF AskFailed, AskFailedAgain, ReadHistory, Learn, Goto, client
<1>8. CASE Cancel(c) \/ Ensure(c) \/ GetResults(c) \/ GetRecheck(c)
  BY <1>1, <1>8 DEF Cancel, Ensure, GetResults, GetRecheck, LookAgain, Return, ReturnFrom,
                    Goto, client
<1>9. QED
  BY <1>2, <1>3, <1>4, <1>6, <1>7, <1>8 DEF Advance

(***************************************************************************)
(* The inductive invariant.                                                *)
(***************************************************************************)

LEMMA InitSober == Init => SInv
<1> SUFFICES ASSUME Init PROVE SInv
  OBVIOUS
<1>1. IInv
  BY InitInv
<1>2. Books
  BY DEF Init, ServerInit, Books, Tidy, Active, Gens
<1>3. ASSUME NEW c \in Clients PROVE Sober(c)
  BY DEF Init, ServerInit, Sober, Remembers, Fits, Tells, NoVerdicts, NoHandles, NoOut, NoCall,
         KeyStep, StatusStep
<1>4. QED
  BY <1>2, <1>3 DEF SInv

\* What every step but a stutter does: the books stay in order, and each instance keeps
\* what it may believe.
LEMMA StepSober ==
  ASSUME IInv, IInv', SInv, Next
  PROVE  SInv' /\ Steady
<1>1. Sane /\ Books
  BY DEF Sane, SInv
<1>2. CASE Daemon
  <2>1. Calm
    BY <1>1, <1>2, DaemonCalm
  <2>2. ASSUME NEW c \in Clients PROVE Sober(c)'
    <3>1. \A k \in Key : Grows(k) /\ (gen[k] > 0 => Undisturbed(k))
      BY <2>1 DEF Calm
    <3>2. QED
      BY <1>2, <3>1, OthersSober DEF Daemon, SInv
  <2>3. QED
    BY <2>1, <2>2, CalmSteady DEF Calm, SInv
<1>3. ASSUME NEW c \in Clients, Advance(c) \/ Use(c) PROVE SInv' /\ Steady
  <2>1. Steady
    BY <1>1, <1>3, AdvanceCalm, UseCalm, CalmSteady
  <2>2. Sober(c)'
    <3>1. CASE Use(c)
      BY <1>1, <3>1, UseSober
    <3>2. CASE Submit(c) \/ TaskCreate(c)
      BY <1>1, <2>1, <3>2, SubmitSober
    <3>3. CASE Advance(c) /\ Calm
      BY <1>1, <3>3, SessionSober, LegacySober, LookupSober, AskExistsSober, AskFailedSober,
         AskFinishedSober, RecheckSober, ReadHistorySober, CancelSober, ResultSober,
         <3>2 DEF Advance
    <3>4. QED
      BY <1>1, <1>3, <3>1, <3>2, <3>3, AdvanceCalm
  <2>3. ASSUME NEW d \in Clients \ {c} PROVE Sober(d)'
    <3>1. ~Reuse
      BY ReuseAssumption
    <3>2. \A k \in Key : Grows(k) /\ (gen[k] > 0 => Undisturbed(k))
      BY <2>1, <3>1 DEF Steady
    <3>3. QED
      BY <1>3, <3>2, OthersUntouched, OthersSober DEF SInv
  <2>4. QED
    BY <2>1, <2>2, <2>3 DEF SInv, Steady
<1>4. QED
  BY <1>2, <1>3 DEF Next

LEMMA NextSober == IInv /\ IInv' /\ SInv /\ [Next]_vars => SInv'
<1> SUFFICES ASSUME IInv, IInv', SInv, UNCHANGED vars PROVE SInv'
  BY StepSober
<1>1. Books'
  BY DEF SInv, Books, Tidy, vars
<1>2. ASSUME NEW c \in Clients PROVE Sober(c)'
  BY DEF SInv, Sober, Remembers, Fits, Tells, Settled, vars
<1>3. QED
  BY <1>1, <1>2 DEF SInv

LEMMA Inductive == Spec => [](IInv /\ SInv)
BY InitInv, NextInv, InitSober, NextSober, PTL DEF Spec

(***************************************************************************)
(* The theorems.                                                           *)
(***************************************************************************)

(* What an instance remembers belongs to the session it holds.             *)
THEOREM ScopedAlways == Spec => []VerdictsScoped
<1>1. SInv => VerdictsScoped
  BY DEF SInv, Sober, Remembers, VerdictsScoped
<1>2. QED
  BY <1>1, Inductive, PTL

(* A remembered terminal state is how a task of that identifier ended, not  *)
(* older than the instance's own: no failure is taken for a success, and no *)
(* verdict is inherited by a reused identifier.                             *)
THEOREM TruthfulAlways == Spec => []VerdictsTruthful
<1>1. SInv => VerdictsTruthful
  BY DEF SInv, Sober, Remembers, VerdictsTruthful
<1>2. QED
  BY <1>1, Inductive, PTL

(* A task_stop that returns Ok or TaskNotFound, or any task_stop when no    *)
(* exchange goes wrong, leaves the task the caller named not active.        *)
THEOREM StopSettlesAlways == Spec => []StopSettles
<1>1. SInv => StopSettles
  BY DEF SInv, Sober, Tells, Settled, StopSettles
<1>2. QED
  BY <1>1, Inductive, PTL

(* A task_start that fails with every exchange answered leaves no active    *)
(* task behind.                                                             *)
THEOREM OrphanNever == Spec => []NoSilentOrphan
<1>1. SInv => NoSilentOrphan
  BY DEF SInv, Sober, Tells, NoSilentOrphan
<1>2. QED
  BY <1>1, Inductive, PTL

(***************************************************************************)
(* The instance implements TaskLifecycle.                                  *)
(***************************************************************************)

\* What TaskLifecycle allows an instance in one step.
Acts(c) ==
  \/ Promise!Reset(c)
  \/ \A k \in Key : Promise!Keep(c, k) \/ Promise!Learn(c, k) \/ Promise!StartAnew(c, k)

LEMMA KeepActs ==
  ASSUME NEW c \in Clients, cache'[c] = cache[c], handle'[c] = handle[c]
  PROVE  Acts(c)
BY DEF Acts, Promise!Keep

LEMMA ResetActs ==
  ASSUME NEW c \in Clients, cache'[c] = NoVerdicts, handle'[c] = NoHandles
  PROVE  Acts(c)
BY DEF Acts, Promise!Reset, Promise!Nothing, Promise!NoHandles, NoVerdicts, NoHandles

LEMMA AdoptActs ==
  ASSUME ClientTypeOK, NEW c \in Clients, NEW k \in Key, NEW g \in 0..MaxGen,
         g > handle[c][k], Adopt(c, k, g)
  PROVE  Acts(c)
<1>1. Promise!StartAnew(c, k)
  BY DEF ClientTypeOK, Adopt, Promise!StartAnew
<1>2. ASSUME NEW j \in Key, j # k PROVE Promise!Keep(c, j)
  BY <1>2 DEF ClientTypeOK, Adopt, Promise!Keep
<1>3. QED
  BY <1>1, <1>2 DEF Acts

\* The instance takes a terminal state for k, which is how the newest task ended.
LEMMA VerdictActs ==
  ASSUME ServerTypeOK, ClientTypeOK, NEW c \in Clients, NEW k \in Key, NEW res \in Terminal,
         cache[c][k] = "none", cache' = [cache EXCEPT ![c][k] = res], handle' = handle,
         gen[k] \in Gens, handle[c][k] <= gen[k], fate'[k][gen[k]] = res
  PROVE  Acts(c)
<1>1. Promise!Learn(c, k)
  BY DEF ServerTypeOK, ClientTypeOK, Promise!Learn, Promise!Terminal, Terminal, Gens, Promise!Gens
<1>2. ASSUME NEW j \in Key, j # k PROVE Promise!Keep(c, j)
  BY <1>2 DEF ClientTypeOK, Promise!Keep
<1>3. QED
  BY <1>1, <1>2 DEF Acts

LEMMA QueriesAct ==
  ASSUME Sane, NEW c \in Clients, AskFailed(c) \/ AskFailedAgain(c) \/ ReadHistory(c)
  PROVE  Acts(c)
<1> DEFINE k == call[c].key
<1>1. /\ pc[c] \in {"failed", "failedAgain", "logs"} /\ pc[c] \in StatusStep
      /\ fate' = fate /\ ServerTypeOK /\ ClientTypeOK
  BY DEF AskFailed, AskFailedAgain, ReadHistory, At, StatusStep, srv, Sane, IInv
<1>2. /\ k \in Key /\ cache[c][k] = "none" /\ Tidy(k) /\ gen[k] \in 0..MaxGen
      /\ pc[c] = "failedAgain" => task[k] \notin Active
      /\ task[k] \in TaskState /\ Remembers(c, k)
  BY <1>1, Asking DEF ServerTypeOK
<1>3. ASSUME UNCHANGED client PROVE Acts(c)
  BY <1>3, KeepActs DEF client
<1>4. ASSUME NEW res \in Terminal, Learn(c, res), fate[k][gen[k]] = res, gen[k] > 0
      PROVE  Acts(c)
  <2>1. gen[k] \in Gens /\ handle[c][k] <= gen[k]
    BY <1>2, <1>4 DEF Gens, Remembers
  <2>2. cache' = [cache EXCEPT ![c][k] = res] /\ handle' = handle
    BY <1>4 DEF Learn
  <2>3. QED
    BY <1>1, <1>2, <1>4, <2>1, <2>2, VerdictActs
<1>5. CASE AskFailed(c)
  BY <1>2, <1>3, <1>4, <1>5 DEF AskFailed, Tidy, Terminal
<1>6. CASE AskFailedAgain(c)
  <2>1. \/ task[k] = "failed" /\ Learn(c, "Failed")
        \/ task[k] \notin {"absent", "failed"} /\ Learn(c, "Completed")
        \/ UNCHANGED client
    BY <1>6 DEF AskFailedAgain
  <2>2. task[k] \notin {"absent", "failed"} => task[k] = "completed"
    BY <1>2, <1>6 DEF AskFailedAgain, At, TaskState
  <2>3. QED
    BY <1>2, <1>3, <1>4, <2>1, <2>2 DEF Tidy, Terminal
<1>7. CASE ReadHistory(c)
  BY <1>2, <1>3, <1>4, <1>7 DEF ReadHistory, Tidy, Terminal
<1>8. QED
  BY <1>5, <1>6, <1>7

LEMMA CancelActs ==
  ASSUME Sane, NEW c \in Clients, Cancel(c)
  PROVE  Acts(c)
<1>1. pc[c] = "cancel" /\ ServerTypeOK /\ ClientTypeOK
  BY DEF Cancel, At, Sane, IInv
<1>2. PICK k \in Key : k = call[c].key
  BY <1>1, Asking
<1>3. Tidy(k) /\ gen[k] \in 0..MaxGen /\ Remembers(c, k) /\ cache[c][k] = "none"
  BY <1>1, <1>2, Asking DEF StatusStep
<1>4. CASE UNCHANGED client
  BY <1>4, KeepActs DEF client
<1>5. CASE CancelTask(k) /\ cache' = [cache EXCEPT ![c][k] = "Cancelled"] /\ handle' = handle
  <2>1. gen[k] \in Gens /\ handle[c][k] <= gen[k]
    BY <1>3, <1>5 DEF CancelTask, Active, Tidy, Gens, Remembers
  <2>2. fate'[k][gen[k]] = "Cancelled"
    BY <1>1, <1>5, <2>1 DEF CancelTask, ServerTypeOK
  <2>3. QED
    BY <1>1, <1>3, <1>5, <2>1, <2>2, VerdictActs DEF Terminal
<1>6. QED
  BY <1>2, <1>4, <1>5 DEF Cancel, LookAgain

LEMMA StartActs ==
  ASSUME Sane, NEW c \in Clients, Submit(c) \/ Execute(c)
  PROVE  Acts(c)
<1>1. /\ ServerTypeOK /\ ClientTypeOK /\ \A k \in Key : Remembers(c, k)
      /\ Fits(c, pc[c])
  BY DEF Sane, IInv, SInv, Sober
<1>2. \A k \in Key : /\ gen[k] \in 0..MaxGen /\ handle[c][k] \in 0..MaxGen
                     /\ handle[c][k] <= gen[k]
  BY <1>1 DEF ServerTypeOK, ClientTypeOK, Remembers
<1>3. CASE UNCHANGED client
  BY <1>3, KeepActs DEF client
<1>4. CASE Submit(c)
  <2>1. \A t \in TaskIds : <<session[c], t>> \in Key
    BY <1>4 DEF Submit, At, Sane, IInv, Calls, SoundCall, ShapeOf, Key
  <2>2. ASSUME NEW k \in Key, NewTask(k, "queued"), Adopt(c, k, gen[k] + 1) PROVE Acts(c)
    <3>1. gen[k] + 1 \in 0..MaxGen /\ gen[k] + 1 > handle[c][k]
      BY <1>2, <2>2 DEF NewTask, Free
    <3>2. QED
      BY <1>1, <2>2, <3>1, AdoptActs
  <2>3. QED
    BY <1>3, <1>4, <2>1, <2>2 DEF Submit
<1>5. CASE Execute(c)
  <2>1. call[c].key \in Key /\ gen[call[c].key] > handle[c][call[c].key]
    BY <1>1, <1>5 DEF Execute, At, Sane, IInv, Calls, SoundCall, ShapeOf, Fits
  <2>2. CASE Adopt(c, call[c].key, gen[call[c].key])
    BY <1>1, <1>2, <2>1, <2>2, AdoptActs
  <2>3. QED
    BY <1>3, <1>5, <2>2 DEF Execute
<1>6. QED
  BY <1>4, <1>5

LEMMA SessionActs ==
  ASSUME Sane, NEW c \in Clients, SessionExists(c) \/ SessionCreate(c) \/ SessionDelete(c)
  PROVE  Acts(c)
<1>1. ClientTypeOK /\ \A k \in Key : Remembers(c, k)
  BY DEF Sane, IInv, SInv, Sober
<1>2. CASE UNCHANGED <<cache, handle>>
  BY <1>2, KeepActs
<1>3. CASE SessionExists(c)
  <2>1. CASE /\ cache' = [cache EXCEPT ![c] = NoVerdicts]
             /\ handle' = [handle EXCEPT ![c] = NoHandles]
    BY <1>1, <2>1, ResetActs DEF ClientTypeOK
  <2>2. QED
    BY <1>2, <1>3, <2>1 DEF SessionExists, client
<1>4. CASE SessionDelete(c) /\ ~ UNCHANGED <<cache, handle>>
  <2>1. PICK s \in Sessions :
          /\ cache' = [cache EXCEPT ![c] = VerdictsWithout(c, s)]
          /\ handle' = [handle EXCEPT ![c] = [k \in Key |-> IF k[1] = s THEN 0 ELSE handle[c][k]]]
    BY <1>4 DEF SessionDelete, At, client, Sane, IInv, Calls, SoundCall, ShapeOf
  <2>2. /\ cache'[c] = [k \in Key |-> IF k[1] = s THEN "none" ELSE cache[c][k]]
        /\ handle'[c] = [k \in Key |-> IF k[1] = s THEN 0 ELSE handle[c][k]]
    BY <1>1, <2>1 DEF ClientTypeOK, VerdictsWithout
  <2>3. CASE session[c] = s
    <3>1. \A k \in Key : k[1] # s => cache[c][k] = "none" /\ handle[c][k] = 0
      BY <1>1, <2>3 DEF Remembers
    <3>2. cache'[c] = NoVerdicts /\ handle'[c] = NoHandles
      BY <2>2, <3>1 DEF NoVerdicts, NoHandles
    <3>3. QED
      BY <3>2, ResetActs
  <2>4. CASE session[c] # s
    <3>1. \A k \in Key : k[1] = s => cache[c][k] = "none" /\ handle[c][k] = 0
      BY <1>1, <2>4 DEF Remembers
    <3>2. ASSUME NEW k \in Key PROVE Promise!Keep(c, k)
      <4>1. /\ cache'[c][k] = (IF k[1] = s THEN "none" ELSE cache[c][k])
            /\ handle'[c][k] = (IF k[1] = s THEN 0 ELSE handle[c][k])
        BY <1>1, <2>1 DEF ClientTypeOK, VerdictsWithout
      <4>2. QED
        BY <3>1, <4>1 DEF Promise!Keep
    <3>3. QED
      BY <3>2 DEF Acts
  <2>5. QED
    BY <2>3, <2>4
<1>5. QED
  BY <1>2, <1>3, <1>4 DEF SessionCreate

LEMMA ClientActs ==
  ASSUME Sane, NEW c \in Clients, Advance(c) \/ Use(c)
  PROVE  Acts(c)
<1>1. CASE UNCHANGED client
  BY <1>1, KeepActs DEF client
<1>2. CASE Use(c)
  <2>1. ASSUME NEW s, Construct(c, s) PROVE Acts(c)
    BY <2>1, ResetActs DEF Construct, Sane, IInv, ClientTypeOK
  <2>2. QED
    BY <1>1, <1>2, <2>1, Zenon
       DEF Use, Acquire, Release, RejectStart, StartTaskCall, Ask, Enter
<1>3. CASE Advance(c)
  BY <1>1, <1>3, SessionActs, StartActs, QueriesAct, CancelActs
     DEF Advance, TaskCreate, Configure, SubmitCleanup, Lookup, AskExists, AskFinished,
         AskRunning, Recheck, Ensure, GetResults, GetRecheck
<1>4. QED
  BY <1>2, <1>3

(* An instance keeps the promise of TaskLifecycle: every step of the system *)
(* learns a verdict that is true, starts a name anew, forgets everything or *)
(* leaves what the instance knows alone, and every task ends once.          *)
THEOREM PromiseKept == Spec => KeepsPromise
<1>1. Init => Promise!Init
  BY DEF Init, ServerInit, Promise!Init, NoVerdicts, NoHandles, Promise!Nothing,
         Promise!NoHandles, Gens, Promise!Gens
<1>2. IInv /\ IInv' /\ SInv /\ [Next]_vars => [Promise!Next]_(Promise!vars)
  <2> SUFFICES ASSUME IInv, IInv', SInv, Next PROVE Promise!Next
    BY DEF vars, Promise!vars
  <2>1. \A k \in Key, g \in Promise!Gens : Promise!Progress(k, g)
    BY StepSober DEF Steady, Grows, Gens, Promise!Gens
  <2>2. ASSUME NEW c \in Clients PROVE Acts(c)
    <3>1. CASE Daemon
      BY <3>1, KeepActs DEF Daemon
    <3>2. ASSUME NEW d \in Clients, Advance(d) \/ Use(d) PROVE Acts(c)
      <4>1. CASE c = d
        BY <3>2, <4>1, ClientActs DEF Sane
      <4>2. CASE c # d
        BY <3>2, <4>2, OthersUntouched, KeepActs
      <4>3. QED
        BY <4>1, <4>2
    <3>3. QED
      BY <3>1, <3>2 DEF Next
  <2>3. QED
    BY <2>1, <2>2 DEF Promise!Next, Acts
<1>3. QED
  BY <1>1, <1>2, Inductive, PTL DEF Spec, KeepsPromise, Promise!Spec

(***************************************************************************)
(* Cancellations are not lost.                                             *)
(***************************************************************************)

\* The daemon can tell, and can be asked, how a task was cancelled.
Recoverable == Reuse /\ Diagnostics /\ ~Unreachable

\* A task of the instance that was cancelled in a session that still exists is one the
\* instance holds for cancelled, unless its task_stop is still on the way to learn it.
Recalls(c, k) ==
  (handle[c][k] > 0 /\ k[1] \in live /\ fate[k][handle[c][k]] = "Cancelled")
  => \/ cache[c][k] = "Cancelled"
     \/ /\ pc[c] \in StatusStep \cup {"cancel"} /\ call[c].op = "stop" /\ call[c].key = k
        /\ k \in recorded /\ gen[k] = handle[c][k]

RInv == Recoverable => \A c \in Clients, k \in Key : Recalls(c, k)

\* A step that neither cancels a task, opens a session nor submits a task leaves the
\* daemon's knowledge of cancelled tasks alone.
Faithful ==
  \A k \in Key : k[1] \in live' =>
    /\ k[1] \in live
    /\ gen'[k] = gen[k]
    /\ k \in recorded => k \in recorded'
    /\ \A g \in Gens : fate'[k][g] = "Cancelled" => fate[k][g] = "Cancelled"

LEMMA FaithfulCommands ==
  ASSUME ServerTypeOK,
         \/ UNCHANGED srv
         \/ \E s \in Sessions : DropSession(s)
         \/ \E k \in Key : StartTask(k) \/ RunTask(k) \/ ConsumeTask(k) \/ FinishTask(k)
  PROVE  Faithful
<1>1. CASE UNCHANGED srv
  BY <1>1 DEF srv, Faithful
<1>2. ASSUME NEW s \in Sessions, DropSession(s) PROVE Faithful
  BY <1>2 DEF Faithful, DropSession, KeysOf
<1>3. ASSUME NEW k \in Key, StartTask(k) \/ RunTask(k) \/ ConsumeTask(k) PROVE Faithful
  BY <1>3 DEF Faithful, StartTask, RunTask, ConsumeTask
<1>4. ASSUME NEW k \in Key, FinishTask(k) PROVE Faithful
  <2>1. /\ UNCHANGED <<live, gen, recorded>>
        /\ \A j \in Key, g \in Gens : fate'[j][g] \in {fate[j][g], "Completed", "Failed"}
    BY <1>4 DEF FinishTask, ServerTypeOK
  <2>2. QED
    BY <2>1 DEF Faithful
<1>5. QED
  BY <1>1, <1>2, <1>3, <1>4

\* While the daemon still tells of k, a step that leaves the instance's knowledge of k
\* alone may move its task_stop on.
LEMMA RecallsStays ==
  ASSUME IInv, NEW c \in Clients, NEW k \in Key, Recalls(c, k), Faithful,
         cache'[c][k] = cache[c][k], handle'[c][k] = handle[c][k],
         \/ pc'[c] = pc[c] /\ call'[c] = call[c]
         \/ pc[c] \notin StatusStep \cup {"cancel"}
         \/ call[c].op # "stop" \/ call[c].key # k
         \/ k \notin recorded
         \/ /\ pc'[c] \in StatusStep \cup {"cancel"}
            /\ call'[c].op = call[c].op /\ call'[c].key = call[c].key
         \/ k[1] \notin live'
  PROVE  Recalls(c, k)'
<1>1. handle[c][k] \in 0..MaxGen
  BY DEF IInv, ClientTypeOK
<1>2. handle[c][k] > 0 => handle[c][k] \in Gens
  BY <1>1 DEF Gens
<1>3. QED
  BY <1>2 DEF Recalls, Faithful

\* A call that moves from one exchange of the same key to another.
LEMMA MovesOn ==
  ASSUME IInv, NEW c \in Clients, NEW step \in StatusStep \cup {"cancel"}, Goto(c, step)
  PROVE  /\ pc'[c] \in StatusStep \cup {"cancel"}
         /\ call'[c].op = call[c].op /\ call'[c].key = call[c].key
BY DEF Goto, IInv, Calls, CallTypeOK

\* A recorded cancellation is that of the newest task, which is gone.
LEMMA RecordedIsGone ==
  ASSUME Sane, NEW k \in Key, k \in recorded
  PROVE  task[k] = "absent"
<1>1. Tidy(k) /\ ServerTypeOK
  BY DEF Sane, SInv, Books, IInv
<1>2. QED
  BY <1>1 DEF Tidy, ServerTypeOK, TaskState, Active

LEMMA QueryRecalls ==
  ASSUME Sane, Recoverable, NEW c \in Clients, NEW k \in Key, Recalls(c, k),
         \/ Lookup(c) \/ AskExists(c) \/ AskFailed(c) \/ AskFinished(c)
         \/ AskFailedAgain(c) \/ AskRunning(c) \/ Recheck(c) \/ ReadHistory(c)
  PROVE  Recalls(c, k)'
<1>1. /\ pc[c] \in StatusStep /\ UNCHANGED srv /\ Faithful /\ ServerTypeOK /\ ClientTypeOK
  <2>1. pc[c] \in StatusStep /\ UNCHANGED srv
    BY DEF Lookup, AskExists, AskFailed, AskFinished, AskFailedAgain, AskRunning, Recheck,
           ReadHistory, At, StatusStep
  <2>2. QED
    BY <2>1, FaithfulCommands DEF Sane, IInv
<1>2. live' = live /\ recorded' = recorded
  BY <1>1 DEF srv
<1>3. ASSUME UNCHANGED client, NEW step \in StatusStep \cup {"cancel"}, Goto(c, step)
      PROVE  Recalls(c, k)'
  BY <1>1, <1>3, MovesOn, RecallsStays DEF client, Sane
<1>4. ASSUME UNCHANGED client, call[c].key # k \/ k \notin recorded \/ call[c].op # "stop"
                               \/ k[1] \notin live
      PROVE  Recalls(c, k)'
  BY <1>1, <1>2, <1>4, RecallsStays DEF client, Sane
<1>5. ASSUME NEW res \in Terminal, Learn(c, res), pc[c] # "lookup",
             call[c].key = k => k \notin recorded \/ res = "Cancelled"
      PROVE  Recalls(c, k)'
  <2>1. /\ cache'[c][k] = (IF call[c].key = k THEN res ELSE cache[c][k])
        /\ handle'[c][k] = handle[c][k]
        /\ cache[c][call[c].key] = "none"
    BY <1>1, <1>5, Asking DEF Learn, ClientTypeOK
  <2>2. CASE call[c].key = k /\ res = "Cancelled"
    BY <2>1, <2>2 DEF Recalls
  <2>3. CASE call[c].key # k
    BY <1>1, <2>1, <2>3, RecallsStays DEF Sane
  <2>4. CASE call[c].key = k /\ k \notin recorded
    <3>1. ~(handle[c][k] > 0 /\ k[1] \in live /\ fate[k][handle[c][k]] = "Cancelled")
      BY <2>1, <2>4 DEF Recalls
    <3>2. QED
      BY <1>1, <2>1, <3>1 DEF Recalls, srv
  <2>5. QED
    BY <1>5, <2>2, <2>3, <2>4
<1>6. k \in recorded => task[k] = "absent"
  BY RecordedIsGone
<1>7. CASE Lookup(c)
  <2>1. CASE cache[c][call[c].key] = "none"
    BY <1>3, <1>7, <2>1 DEF Lookup, StatusStep
  <2>2. CASE cache[c][call[c].key] # "none" /\ call[c].key = k /\ k \in recorded
    <3>1. PICK g \in Gens : g >= handle[c][k] /\ fate[k][g] = cache[c][k]
      BY <2>2 DEF Sane, SInv, Sober, Remembers
    <3>2. CASE handle[c][k] > 0 /\ gen[k] = handle[c][k] /\ fate[k][handle[c][k]] = "Cancelled"
      <4>1. Tidy(k) /\ gen[k] \in 0..MaxGen /\ cache[c][k] \in Terminal \cup {"none"}
        BY <1>1 DEF Sane, SInv, Books, ServerTypeOK, ClientTypeOK
      <4>2. g = gen[k]
        BY <2>2, <3>1, <3>2, <4>1 DEF Tidy, Gens
      <4>3. cache[c][k] = "Cancelled"
        BY <3>1, <3>2, <4>2
      <4>4. QED
        BY <1>7, <4>3 DEF Recalls, Lookup, client
    <3>3. CASE ~(handle[c][k] > 0 /\ gen[k] = handle[c][k] /\ fate[k][handle[c][k]] = "Cancelled")
      BY <1>7, <3>3 DEF Recalls, Lookup, client, srv
    <3>4. QED
      BY <3>2, <3>3
  <2>3. CASE call[c].key # k \/ k \notin recorded
    BY <1>4, <1>7, <2>3 DEF Lookup
  <2>4. QED
    BY <2>1, <2>2, <2>3
<1>8. CASE AskExists(c)
  BY <1>3, <1>4, <1>8 DEF AskExists, StatusStep, Recoverable
<1>9. CASE AskFailed(c)
  BY <1>3, <1>5, <1>6, <1>9 DEF AskFailed, At, StatusStep, Terminal
<1>10. CASE AskFinished(c)
  BY <1>3, <1>10 DEF AskFinished, StatusStep
<1>11. CASE AskFailedAgain(c)
  BY <1>3, <1>5, <1>6, <1>11 DEF AskFailedAgain, At, StatusStep, Terminal
<1>12. CASE AskRunning(c)
  BY <1>3, <1>4, <1>6, <1>12 DEF AskRunning, StatusStep
<1>13. CASE Recheck(c)
  BY <1>3, <1>4, <1>6, <1>13 DEF Recheck, StatusStep, Recoverable
<1>14. CASE ReadHistory(c)
  BY <1>4, <1>5, <1>14 DEF ReadHistory, At, Terminal, Recoverable
<1>15. QED
  BY <1>7, <1>8, <1>9, <1>10, <1>11, <1>12, <1>13, <1>14

LEMMA CancelRecalls ==
  ASSUME Sane, Recoverable, NEW c \in Clients, NEW k \in Key, Recalls(c, k), Cancel(c)
  PROVE  Recalls(c, k)'
<1>1. pc[c] = "cancel" /\ call[c].op = "stop" /\ ServerTypeOK /\ ClientTypeOK /\ call[c].key \in Key
  BY DEF Cancel, At, Sane, IInv, Calls, SoundCall, ShapeOf
<1>2. Remembers(c, k) /\ gen[k] \in 0..MaxGen /\ handle[c][k] \in 0..MaxGen /\ Tidy(k)
  BY <1>1 DEF Sane, SInv, Books, Sober, ServerTypeOK, ClientTypeOK
<1>3. cache[c][call[c].key] = "none"
  BY <1>1, Asking DEF StatusStep
<1>4. LookAgain(c) => /\ pc'[c] = "lookup" /\ call'[c].op = "stop" /\ call'[c].key = call[c].key
                      /\ cache' = cache /\ handle' = handle
  BY <1>1 DEF LookAgain, client, Sane, IInv, Calls, CallTypeOK, Call
<1>5. CASE UNCHANGED srv /\ LookAgain(c)
  BY <1>1, <1>4, <1>5, FaithfulCommands, RecallsStays DEF Sane, StatusStep
<1>6. CASE CancelTask(call[c].key) /\ call[c].key # k /\ cache'[c][k] = cache[c][k] /\ handle' = handle
  <2>1. /\ live' = live /\ gen' = gen /\ fate'[k] = fate[k]
        /\ k \in recorded => k \in recorded'
    BY <1>1, <1>6 DEF CancelTask, ServerTypeOK
  <2>2. QED
    BY <1>6, <2>1 DEF Recalls
<1>7. CASE CancelTask(k) /\ call[c].key = k
  <2>1. /\ live' = live /\ gen' = gen /\ k \in recorded' /\ handle' = handle
        /\ \A g \in Gens : g # gen[k] => fate'[k][g] = fate[k][g]
    BY <1>1, <1>4, <1>7 DEF CancelTask, ServerTypeOK, Recoverable, Cancel, srv
  <2>2. CASE cache'[c][k] = "Cancelled"
    BY <2>2 DEF Recalls
  <2>3. CASE LookAgain(c)
    <3>1. CASE gen[k] = handle[c][k]
      BY <1>4, <1>7, <2>1, <2>3, <3>1 DEF Recalls, StatusStep
    <3>2. CASE gen[k] # handle[c][k]
      BY <1>2, <1>3, <1>7, <2>1, <3>2 DEF Recalls, Gens
    <3>3. QED
      BY <3>1, <3>2
  <2>4. QED
    BY <1>1, <1>4, <1>7, <2>2, <2>3 DEF Cancel, ClientTypeOK
<1>8. QED
  <2>1. CASE LookAgain(c)
    BY <1>4, <1>5, <1>6, <1>7, <2>1 DEF Cancel
  <2>2. CASE CancelTask(call[c].key) /\ cache' = [cache EXCEPT ![c][call[c].key] = "Cancelled"]
             /\ UNCHANGED <<session, handle>>
    <3>1. call[c].key # k => cache'[c][k] = cache[c][k]
      BY <1>1, <2>2 DEF ClientTypeOK
    <3>2. QED
      BY <1>6, <1>7, <2>2, <3>1
  <2>3. QED
    BY <2>1, <2>2 DEF Cancel

LEMMA StartRecalls ==
  ASSUME Sane, NEW c \in Clients, NEW k \in Key, Recalls(c, k),
         Submit(c) \/ TaskCreate(c) \/ Configure(c) \/ Execute(c) \/ SubmitCleanup(c)
  PROVE  Recalls(c, k)'
<1>1. /\ pc[c] \notin StatusStep \cup {"cancel"} /\ ServerTypeOK /\ ClientTypeOK
      /\ pc[c] \in {"configure", "execute", "cleanup"} => call[c].key \in Key
      /\ pc[c] = "submit" \/ pc[c] = "taskCreate" => session[c] \in Sessions
      /\ pc[c] = "cleanup" => gen[call[c].key] > handle[c][call[c].key]
  BY DEF Submit, TaskCreate, Configure, Execute, SubmitCleanup, At, StatusStep, Sane, IInv,
         Calls, SoundCall, ShapeOf, SInv, Sober, Fits
<1>2. /\ Tidy(k) /\ gen[k] \in 0..MaxGen /\ handle[c][k] \in 0..MaxGen
      /\ handle[c][k] > 0 => handle[c][k] \in Gens
  BY <1>1 DEF Sane, SInv, Books, ServerTypeOK, ClientTypeOK, Gens
<1>3. ASSUME cache'[c][k] = cache[c][k], handle'[c][k] = handle[c][k], live' = live,
             \A g \in Gens : fate'[k][g] = "Cancelled" /\ g = handle[c][k] => fate[k][g] = "Cancelled"
      PROVE  Recalls(c, k)'
  BY <1>1, <1>2, <1>3 DEF Recalls
<1>4. ASSUME UNCHANGED client, UNCHANGED srv PROVE Recalls(c, k)'
  BY <1>3, <1>4 DEF client, srv
<1>5. ASSUME NEW j \in Key, NEW st \in Active, NewTask(j, st),
             UNCHANGED client \/ Adopt(c, j, gen[j] + 1)
      PROVE  Recalls(c, k)'
  <2>1. gen[j] + 1 \in Gens
    BY <1>1, <1>5 DEF NewTask, Free, ServerTypeOK, Gens
  <2>2. /\ live' = live /\ fate'[j][gen[j] + 1] = "active"
        /\ \A g \in Gens : fate'[k][g] = "Cancelled" => fate[k][g] = "Cancelled"
    BY <1>1, <1>5, <2>1 DEF NewTask, ServerTypeOK
  <2>3. CASE Adopt(c, j, gen[j] + 1) /\ j = k
    <3>1. handle'[c][k] = gen[k] + 1
      BY <1>1, <2>3 DEF Adopt, ClientTypeOK
    <3>2. QED
      BY <2>2, <2>3, <3>1 DEF Recalls
  <2>4. CASE UNCHANGED client \/ j # k
    <3>1. cache'[c][k] = cache[c][k] /\ handle'[c][k] = handle[c][k]
      BY <1>1, <1>5, <2>4 DEF Adopt, ClientTypeOK, client
    <3>2. QED
      BY <1>3, <2>2, <3>1
  <2>5. QED
    BY <1>5, <2>3, <2>4
<1>6. CASE Submit(c) \/ TaskCreate(c)
  <2>1. \A t \in TaskIds : <<session[c], t>> \in Key
    BY <1>1, <1>6 DEF Submit, TaskCreate, At, Key
  <2>2. QED
    BY <1>4, <1>5, <1>6, <2>1 DEF Submit, TaskCreate, Active
<1>7. CASE Configure(c)
  BY <1>4, <1>7 DEF Configure
<1>8. CASE Execute(c)
  <2>1. PICK j \in Key : j = call[c].key
    BY <1>1, <1>8 DEF Execute, At
  <2>2. ASSUME StartTask(j), UNCHANGED client \/ Adopt(c, j, gen[j]) PROVE Recalls(c, k)'
    <3>1. live' = live /\ fate' = fate
      BY <2>2 DEF StartTask
    <3>2. CASE Adopt(c, j, gen[j]) /\ j = k
      <4>1. handle'[c][k] = gen[k] /\ fate[k][gen[k]] = "active"
        BY <1>1, <1>2, <2>2, <3>2 DEF Adopt, ClientTypeOK, StartTask, Tidy, Active
      <4>2. QED
        BY <3>1, <4>1 DEF Recalls
    <3>3. CASE UNCHANGED client \/ j # k
      <4>1. cache'[c][k] = cache[c][k] /\ handle'[c][k] = handle[c][k]
        BY <1>1, <2>2, <3>3 DEF Adopt, ClientTypeOK, client
      <4>2. QED
        BY <1>3, <3>1, <4>1
    <3>4. QED
      BY <2>2, <3>2, <3>3
  <2>3. QED
    BY <1>4, <1>8, <2>1, <2>2 DEF Execute
<1>9. CASE SubmitCleanup(c)
  <2>1. PICK j \in Key : j = call[c].key /\ gen[j] > handle[c][j] /\ gen[j] \in 0..MaxGen
    BY <1>1, <1>9 DEF SubmitCleanup, At, ServerTypeOK
  <2>2. ASSUME CancelTask(j), UNCHANGED client PROVE Recalls(c, k)'
    <3>1. /\ live' = live
          /\ \A g \in Gens : k # j \/ g # gen[j] => fate'[k][g] = fate[k][g]
      BY <1>1, <2>2 DEF CancelTask, ServerTypeOK
    <3>2. QED
      BY <1>2, <1>3, <2>1, <2>2, <3>1 DEF client
  <2>3. QED
    BY <1>4, <1>9, <2>1, <2>2 DEF SubmitCleanup
<1>10. QED
  BY <1>6, <1>7, <1>8, <1>9

LEMMA SessionRecalls ==
  ASSUME Sane, NEW c \in Clients, NEW k \in Key, Recalls(c, k),
         SessionExists(c) \/ SessionCreate(c) \/ SessionDelete(c)
  PROVE  Recalls(c, k)'
<1>1. /\ pc[c] \notin StatusStep \cup {"cancel"} /\ ServerTypeOK /\ ClientTypeOK
      /\ Fits(c, pc[c]) /\ Remembers(c, k)
  BY DEF SessionExists, SessionCreate, SessionDelete, At, StatusStep, Sane, IInv, SInv, Sober
<1>2. ASSUME Faithful, cache'[c][k] = cache[c][k], handle'[c][k] = handle[c][k]
      PROVE  Recalls(c, k)'
  BY <1>1, <1>2, RecallsStays DEF Sane
<1>3. ASSUME handle'[c][k] = 0 PROVE Recalls(c, k)'
  BY <1>3 DEF Recalls
<1>4. CASE SessionExists(c)
  <2>1. Faithful
    BY <1>1, <1>4, FaithfulCommands DEF SessionExists
  <2>2. CASE UNCHANGED client
    BY <1>2, <2>1, <2>2 DEF client
  <2>3. CASE handle' = [handle EXCEPT ![c] = NoHandles]
    BY <1>1, <1>3, <2>3 DEF ClientTypeOK, NoHandles
  <2>4. QED
    BY <1>4, <2>2, <2>3 DEF SessionExists
<1>5. CASE SessionCreate(c)
  <2>1. session[c] = NoSession /\ k[1] \in Sessions
    BY <1>1, <1>5 DEF SessionCreate, At, Fits, Key
  <2>2. handle[c][k] = 0
    BY <1>1, <2>1 DEF Remembers
  <2>3. QED
    BY <1>3, <1>5, <2>2 DEF SessionCreate
<1>6. CASE SessionDelete(c)
  <2>1. PICK s \in Sessions : s = call[c].target
    BY <1>6 DEF SessionDelete, At, Sane, IInv, Calls, SoundCall, ShapeOf
  <2>2. Faithful
    BY <1>1, <1>6, <2>1, FaithfulCommands DEF SessionDelete
  <2>3. CASE UNCHANGED client
    BY <1>2, <2>2, <2>3 DEF client
  <2>4. CASE /\ cache' = [cache EXCEPT ![c] = VerdictsWithout(c, s)]
             /\ handle' = [handle EXCEPT ![c] = [j \in Key |-> IF j[1] = s THEN 0 ELSE handle[c][j]]]
    <3>1. /\ cache'[c][k] = (IF k[1] = s THEN "none" ELSE cache[c][k])
          /\ handle'[c][k] = (IF k[1] = s THEN 0 ELSE handle[c][k])
      BY <1>1, <2>4 DEF ClientTypeOK, VerdictsWithout
    <3>2. QED
      BY <1>2, <1>3, <2>2, <3>1
  <2>5. QED
    BY <1>6, <2>1, <2>3, <2>4 DEF SessionDelete
<1>7. QED
  BY <1>4, <1>5, <1>6

LEMMA OtherRecalls ==
  ASSUME Sane, NEW c \in Clients, NEW k \in Key, Recalls(c, k),
         Ensure(c) \/ GetResults(c) \/ GetRecheck(c) \/ Use(c)
  PROVE  Recalls(c, k)'
<1>1. CASE Ensure(c) \/ GetResults(c) \/ GetRecheck(c)
  <2>1. /\ pc[c] \notin StatusStep \cup {"cancel"} /\ call[c].key \in Key /\ UNCHANGED client
        /\ ServerTypeOK
    BY <1>1 DEF Ensure, GetResults, GetRecheck, At, StatusStep, Sane, IInv, Calls, SoundCall,
                ShapeOf
  <2>2. ASSUME UNCHANGED srv PROVE Faithful
    BY <2>1, <2>2, FaithfulCommands
  <2>3. ASSUME ConsumeTask(call[c].key) PROVE Faithful
    BY <2>1, <2>3, FaithfulCommands
  <2>4. UNCHANGED srv \/ ConsumeTask(call[c].key)
    <3>1. CASE Ensure(c) \/ GetRecheck(c)
      BY <3>1, Zenon DEF Ensure, GetRecheck
    <3>2. CASE GetResults(c)
      BY <3>2, Zenon DEF GetResults
    <3>3. QED
      BY <1>1, <3>1, <3>2
  <2>5. Faithful
    BY <2>2, <2>3, <2>4
  <2>6. QED
    BY <2>1, <2>5, RecallsStays DEF client, Sane
<1>2. CASE Use(c)
  <2>1. UNCHANGED srv /\ Faithful
    BY <1>2, UseCalm, FaithfulCommands DEF Sane, SInv, IInv
  <2>2. CASE handle' = [handle EXCEPT ![c] = NoHandles]
    BY <2>2 DEF Recalls, Sane, IInv, ClientTypeOK, NoHandles
  <2>3. CASE UNCHANGED client /\ pc[c] = "idle"
    BY <2>1, <2>3, RecallsStays DEF client, Sane, StatusStep
  <2>4. QED
    BY <1>2, <2>2, <2>3, Zenon
       DEF Use, Construct, Acquire, Release, RejectStart, StartTaskCall, Ask, Enter, At
<1>3. QED
  BY <1>1, <1>2

LEMMA NextRecalls == IInv /\ IInv' /\ SInv /\ RInv /\ [Next]_vars => RInv'
<1> SUFFICES ASSUME IInv, IInv', SInv, Recoverable, [Next]_vars,
                    NEW c \in Clients, NEW k \in Key, Recalls(c, k)
             PROVE  Recalls(c, k)'
  BY DEF RInv, Recoverable, Unreachable
<1>1. Sane
  BY DEF Sane
<1>2. CASE Daemon
  <2>1. Faithful
    BY <1>2, FaithfulCommands DEF Daemon, IInv
  <2>2. QED
    BY <1>2, <2>1, RecallsStays DEF Daemon
<1>3. ASSUME NEW d \in Clients, Advance(d) \/ Use(d) PROVE Recalls(c, k)'
  <2>1. c = d
    BY ReuseAssumption DEF Recoverable
  <2>2. QED
    BY <1>1, <1>3, <2>1, QueryRecalls, CancelRecalls, StartRecalls, SessionRecalls, OtherRecalls
       DEF Advance
<1>4. CASE UNCHANGED vars
  BY <1>4 DEF vars, Recalls
<1>5. QED
  BY <1>2, <1>3, <1>4 DEF Next

\* Only a history without the cancellation makes a status query answer TaskNotFound.
LEMMA OnlyTheHistory ==
  ASSUME Sane, NEW c \in Clients, Next, pc[c] # "idle", pc'[c] = "idle",
         out'[c].call.op \in {"status", "stop"}, out'[c].res = "TaskNotFound"
  PROVE  /\ ReadHistory(c) /\ (call[c].key \notin recorded \/ Unreachable)
         /\ out'[c].call.key = call[c].key /\ out'[c].call.named = call[c].named
<1>1. ~ Daemon
  BY DEF Daemon
<1>2. ASSUME NEW d \in Clients, Advance(d) \/ Use(d) PROVE c = d
  BY <1>2, OthersUntouched DEF Sane
<1>3. Advance(c) \/ Use(c)
  BY <1>1, <1>2 DEF Next
<1>4. ASSUME NEW final, NEW res, ReturnFrom(c, final, res)
      PROVE  out'[c].call = final /\ out'[c].res = res
  BY <1>4 DEF ReturnFrom, Sane, IInv, Calls, CallTypeOK
<1>5. ASSUME NEW res, Return(c, res) \/ ReturnUnclean(c, res)
      PROVE  /\ out'[c].call.op = call[c].op /\ out'[c].res = res
             /\ out'[c].call.key = call[c].key /\ out'[c].call.named = call[c].named
  <2>1. call[c] \in Call
    BY DEF Sane, IInv, Calls, CallTypeOK
  <2>2. CASE Return(c, res)
    BY <1>4, <2>2 DEF Return
  <2>3. CASE ReturnUnclean(c, res)
    <3>1. PICK final : final = [call[c] EXCEPT !.clean = FALSE] /\ ReturnFrom(c, final, res)
      BY <2>3 DEF ReturnUnclean
    <3>2. final.op = call[c].op /\ final.key = call[c].key /\ final.named = call[c].named
      BY <2>1, <3>1 DEF Call
    <3>3. QED
      BY <1>4, <3>1, <3>2
  <2>4. QED
    BY <1>5, <2>2, <2>3
<1>6. ASSUME NEW step \in Step \ {"idle"}, Goto(c, step) \/ GotoUnclean(c, step) PROVE FALSE
  BY <1>6 DEF Goto, GotoUnclean, Sane, IInv, Calls, CallTypeOK
<1>7. ~ LookAgain(c)
  BY DEF LookAgain, Sane, IInv, Calls, CallTypeOK
<1>8. ASSUME NEW res \in Answer, Conclude(c, res)
      PROVE  res = "TaskNotFound" /\ out'[c].call.key = call[c].key
                                  /\ out'[c].call.named = call[c].named
  <2>1. {"cancel", "ensure"} \subseteq Step \ {"idle"}
    BY DEF Step
  <2>2. PICK r : Return(c, r)
    BY <1>6, <1>8, <2>1 DEF Conclude
  <2>3. /\ \A x : Return(c, x) => x = "TaskNotFound"
        /\ call[c].op \in {"status", "stop"}
    BY <1>5, <2>2
  <2>4. QED
    BY <1>5, <1>6, <1>8, <2>1, <2>2, <2>3 DEF Conclude
<1>9. CASE Use(c)
  <2>1. out'[c] = NoOut
    BY <1>9 DEF Use, Construct, Acquire, Release, RejectStart, StartTaskCall, Ask, Enter, At,
                Sane, IInv, Calls, CallTypeOK
  <2>2. QED
    BY <2>1 DEF NoOut
<1>10. ASSUME NEW res, Return(c, res) \/ ReturnUnclean(c, res)
       PROVE  call[c].op \in {"status", "stop"} /\ res = "TaskNotFound"
  BY <1>5, <1>10
<1>11. {"execute", "cleanup", "getResults", "getRecheck", "sessionCreate", "configure", "exists",
        "failed", "finished", "failedAgain", "running", "recheck", "logs"}
         \subseteq Step \ {"idle"}
  BY DEF Step
<1>12. pc[c] \in {"sessionExists", "sessionCreate", "sessionDelete", "submit", "taskCreate",
                 "configure", "execute", "cleanup", "ensure", "getResults", "getRecheck"}
         => call[c].op \notin {"status", "stop"}
  BY DEF Sane, IInv, Calls, SoundCall, ShapeOf
<1>13. CASE \/ SessionExists(c) \/ SessionCreate(c) \/ SessionDelete(c)
            \/ Ensure(c) \/ GetResults(c) \/ GetRecheck(c)
  <2>1. (\E res : Return(c, res)) \/ \E step \in Step \ {"idle"} : Goto(c, step)
    BY <1>11, <1>13 DEF SessionExists, SessionCreate, SessionDelete, Ensure, GetResults, GetRecheck
  <2>2. call[c].op \notin {"status", "stop"}
    BY <1>12, <1>13 DEF SessionExists, SessionCreate, SessionDelete, Ensure, GetResults,
                        GetRecheck, At, StatusStep
  <2>3. QED
    BY <1>6, <1>10, <2>1, <2>2
<1>14. CASE Submit(c) \/ TaskCreate(c) \/ Configure(c) \/ Execute(c) \/ SubmitCleanup(c)
  <2>1. call[c].op \notin {"status", "stop"}
    BY <1>12, <1>14 DEF Submit, TaskCreate, Configure, Execute, SubmitCleanup, At, StatusStep
  <2>2. \A t \in TaskIds : <<session[c], t>> \in Key \/ ~(Submit(c) \/ TaskCreate(c))
    BY DEF Submit, TaskCreate, At, Sane, IInv, Calls, SoundCall, ShapeOf, Key
  <2>3. ASSUME NEW k \in Key, NEW res,
               \/ ReturnFrom(c, Made(c, k), res)
               \/ ReturnFrom(c, [Made(c, k) EXCEPT !.clean = FALSE], res)
        PROVE  FALSE
    <3>1. /\ Made(c, k).op = call[c].op
          /\ [Made(c, k) EXCEPT !.clean = FALSE].op = call[c].op
      BY MadeFacts
    <3>2. CASE ReturnFrom(c, Made(c, k), res)
      BY <1>4, <2>1, <3>1, <3>2
    <3>3. CASE ReturnFrom(c, [Made(c, k) EXCEPT !.clean = FALSE], res)
      BY <1>4, <2>1, <3>1, <3>3
    <3>4. QED
      BY <2>3, <3>2, <3>3
  <2>4. pc' # [pc EXCEPT ![c] = "configure"]
    BY DEF Sane, IInv, Calls, CallTypeOK
  <2>5. \/ \E res : Return(c, res) \/ ReturnUnclean(c, res)
        \/ \E step \in Step \ {"idle"} : Goto(c, step) \/ GotoUnclean(c, step)
    BY <1>11, <1>14, <2>2, <2>3, <2>4 DEF Submit, TaskCreate, Configure, Execute, SubmitCleanup
  <2>6. QED
    BY <1>6, <1>10, <2>1, <2>5
<1>15. CASE Cancel(c)
  BY <1>7, <1>10, <1>15 DEF Cancel
<1>16. CASE \/ Lookup(c) \/ AskExists(c) \/ AskFailed(c) \/ AskFinished(c)
            \/ AskFailedAgain(c) \/ AskRunning(c) \/ Recheck(c)
  <2>1. \/ \E res \in Answer \ {"TaskNotFound"} : Conclude(c, res)
        \/ \E step \in Step \ {"idle"} : Goto(c, step)
    <3>1. Terminal \cup {"Queued", "Running", "Other"} \subseteq Answer \ {"TaskNotFound"}
      BY DEF Answer, Terminal
    <3>2. CASE Lookup(c)
      <4>1. cache[c][call[c].key] \in Terminal \cup {"none"}
        BY <3>2 DEF Lookup, At, Sane, IInv, ClientTypeOK, Calls, SoundCall, ShapeOf, StatusStep
      <4>2. QED
        BY <1>11, <3>1, <3>2, <4>1 DEF Lookup
    <3>3. QED
      BY <1>11, <1>16, <3>1, <3>2
         DEF AskExists, AskFailed, AskFinished, AskFailedAgain, AskRunning, Recheck, Learn, Terminal
  <2>2. QED
    BY <1>6, <1>8, <2>1
<1>17. CASE ReadHistory(c)
  <2>1. ~ Learn(c, "Cancelled")
    BY <1>8 DEF Learn, Answer, Terminal
  <2>2. Conclude(c, "TaskNotFound") /\ (call[c].key \notin recorded \/ Unreachable)
    BY <1>17, <2>1 DEF ReadHistory
  <2>3. QED
    BY <1>8, <1>17, <2>2 DEF Answer
<1>18. QED
  BY <1>3, <1>9, <1>13, <1>14, <1>15, <1>16, <1>17 DEF Advance

(* When the daemon retains diagnostics and can be reached, a task that was   *)
(* cancelled in a session that still exists is never reported missing.       *)
THEOREM CancellationRecoveredAlways == Spec => CancellationRecovered
<1>1. Init => RInv
  BY DEF Init, RInv, Recalls, NoHandles
<1>2. Spec => []RInv
  BY <1>1, Inductive, NextRecalls, PTL DEF Spec
<1> DEFINE Recovered(c) ==
      LET o == out'[c] IN
      (/\ pc[c] # "idle" /\ pc'[c] = "idle"
       /\ o.call.op \in {"status", "stop"} /\ o.res = "TaskNotFound"
       /\ Diagnostics /\ ~Unreachable
       /\ o.call.key[1] \in live /\ o.call.named > 0)
      => fate[o.call.key][o.call.named] # "Cancelled"
<1>3. ASSUME IInv, IInv', SInv, RInv, Next, NEW c \in Clients PROVE Recovered(c)
  <2> SUFFICES ASSUME pc[c] # "idle", pc'[c] = "idle",
                      out'[c].call.op \in {"status", "stop"}, out'[c].res = "TaskNotFound",
                      Diagnostics, ~Unreachable,
                      out'[c].call.key[1] \in live, out'[c].call.named > 0
               PROVE  fate[out'[c].call.key][out'[c].call.named] # "Cancelled"
    OBVIOUS
  <2> DEFINE k == call[c].key
             n == call[c].named
  <2>1. /\ out'[c].call.key = k /\ out'[c].call.named = n
        /\ pc[c] = "logs" /\ k \notin recorded
    BY <1>3, OnlyTheHistory DEF Sane, ReadHistory, At
  <2>2. /\ k \in Key /\ n \in 0..MaxGen /\ n <= gen[k] /\ gen[k] \in 0..MaxGen
        /\ IF Reuse THEN n = handle[c][k] ELSE n <= 1
        /\ cache[c][k] = "none" /\ Tidy(k)
    BY <1>3, <2>1, Asking DEF Sane, StatusStep
  <2>3. CASE Reuse
    <3>1. Recalls(c, k)
      BY <1>3, <2>2, <2>3 DEF RInv, Recoverable
    <3>2. QED
      BY <2>1, <2>2, <2>3, <3>1 DEF Recalls
  <2>4. CASE ~Reuse
    BY <2>1, <2>2, <2>4 DEF Tidy
  <2>5. QED
    BY <2>3, <2>4
<1>4. IInv /\ IInv' /\ SInv /\ RInv /\ [Next]_vars => [\A c \in Clients : Recovered(c)]_vars
  BY <1>3
<1>5. QED
  BY <1>2, <1>4, Inductive, PTL DEF Spec, CancellationRecovered
=============================================================================

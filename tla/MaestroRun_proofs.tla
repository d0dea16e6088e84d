-------------------------- MODULE MaestroRun_proofs --------------------------
(***************************************************************************)
(* A run of the task runner on a Maestro Local resource, for every value   *)
(* of the constants: the calls of the instance keep the contract that the  *)
(* runner relies on, and a run leaves no active task behind.               *)
(***************************************************************************)
EXTENDS MaestroRun, MaestroLocal_proofs

USE ServerAssumption, ClientAssumption, RunnerAssumption

(***************************************************************************)
(* The instance that the runner uses.  Identifiers are not given twice, so *)
(* that the first task of a name is the only one.                          *)
(***************************************************************************)

\* A task of the runner's session.
Ours(k) ==
  /\ k \in Key
  /\ k[1] = session[Runner]
  /\ gen[k] = 1
  /\ fate[k][1] # "none"

\* What the call that has returned says is so.
Speaks ==
  LET o == out[Runner] IN
  /\ o.call.op = "start" /\ o.res = "Ok" => o.call.made
  /\ o.call.op = "start" /\ o.call.made => Ours(o.call.key)
  /\ o.call.op = "status" /\ o.res \in Terminal /\ o.call.key \in Key =>
       fate[o.call.key][1] = o.res
  /\ o.call.op = "result" /\ o.res = "Ok" /\ o.call.key \in Key =>
       fate[o.call.key][1] = "Completed"
  /\ Trouble = {} => o.call.clean

LEMMA FirstGen == 1 \in Gens
  BY DEF Gens

\* A task of the runner stays, and ends once.
LEMMA OursStays ==
  ASSUME IInv, IInv', Steady, NEW k, Ours(k), session'[Runner] = session[Runner]
  PROVE  /\ Ours(k)'
         /\ \/ fate'[k][1] = fate[k][1]
            \/ fate[k][1] = "active" /\ fate'[k][1] \in Terminal \cup {"dropped"}
<1>1. k \in Key /\ gen'[k] \in 0..MaxGen /\ gen[k] = 1 /\ fate[k][1] # "none"
  BY DEF Ours, IInv, ServerTypeOK
<1>2. Grows(k) /\ Tidy(k)'
  BY <1>1 DEF Steady, Books
<1>3. gen'[k] = 1
  BY <1>1, <1>2 DEF Grows, Tidy
<1>4. \/ fate'[k][1] = fate[k][1]
      \/ fate[k][1] = "active" /\ fate'[k][1] \in Terminal \cup {"dropped"}
  BY <1>1, <1>2, FirstGen DEF Grows, Promise!Progress, Promise!Ended, Promise!Terminal, Terminal
<1>5. QED
  BY <1>1, <1>3, <1>4 DEF Ours, Terminal

\* A task that has ended stays as it ended, whoever it belongs to.
LEMMA FateStays ==
  ASSUME IInv, Books, Steady, NEW k \in Key, fate[k][1] \in Terminal
  PROVE  fate'[k][1] = fate[k][1]
<1>1. Tidy(k) /\ Grows(k) /\ gen[k] \in 0..MaxGen
  BY DEF Books, Steady, IInv, ServerTypeOK
<1>2. gen[k] >= 1
  BY <1>1, FirstGen DEF Tidy, Terminal
<1>3. QED
  BY <1>1, <1>2, FirstGen DEF Grows, Terminal

\* What the runner's instance knows, while others act.
LEMMA SpeaksStays ==
  ASSUME IInv, IInv', Books, Steady, Speaks, session'[Runner] = session[Runner],
         out'[Runner] = out[Runner]
  PROVE  Speaks'
<1> DEFINE o == out[Runner]
<1>1. o.call.op = "start" /\ o.call.made => Ours(o.call.key)'
  BY OursStays DEF Speaks
<1>2. o.res \in Terminal /\ o.call.key \in Key /\ fate[o.call.key][1] = o.res
      => fate'[o.call.key][1] = o.res
  BY FateStays
<1>3. o.call.key \in Key /\ fate[o.call.key][1] = "Completed" => fate'[o.call.key][1] = "Completed"
  BY FateStays DEF Terminal
<1>4. QED
  BY <1>1, <1>2, <1>3 DEF Speaks

(***************************************************************************)
(* One exchange of the running call.                                       *)
(***************************************************************************)

Like(x, y) ==
  /\ y.op = x.op /\ y.key = x.key /\ y.named = x.named /\ (y.made <=> x.made)
  /\ Trouble = {} => (y.clean <=> x.clean)

TrueReport(f, res) ==
  /\ f.op = "start" /\ res = "Ok" => f.made
  /\ f.op = "status" /\ res \in Terminal => fate[f.key][1] = res
  /\ f.op = "result" /\ res = "Ok" => fate[f.key][1] = "Completed"

\* The call goes on, or returns, as y.  A submission goes on when it has made a task.
Goes(y) ==
  \/ /\ pc'[Runner] # "idle" /\ (y.op = "start" => y.made)
     /\ Like(y, call'[Runner])
     /\ out'[Runner] = out[Runner]
  \/ /\ pc'[Runner] = "idle" /\ call'[Runner] = NoCall
     /\ Like(y, out'[Runner].call)
     /\ TrueReport(out[Runner].call, out[Runner].res)'

\* The daemon makes k a task.
Creates(k) ==
  /\ k \in Key /\ k[1] = session[Runner]
  /\ gen'[k] = 1 /\ fate'[k][1] = "active"

Takes ==
  /\ session'[Runner] = session[Runner]
  /\ \/ Goes(call[Runner])
     \/ /\ call[Runner].op = "start" /\ ~call[Runner].made
        /\ \E k \in Key : Creates(k) /\ Goes(Made(Runner, k))

LEMMA LikeItself == \A x : Like(x, x)
  BY DEF Like

LEMMA LikeUnclean == ASSUME NEW x \in Call, Trouble # {} PROVE Like(x, [x EXCEPT !.clean = FALSE])
  BY DEF Like, Call

\* The instance's variables, one by one.
LEMMA RunnerTyped ==
  ASSUME IInv
  PROVE  /\ pc[Runner] \in Step /\ call[Runner] \in Call /\ Runner \in DOMAIN pc
         /\ Runner \in DOMAIN call /\ Runner \in DOMAIN out /\ Runner \in DOMAIN session
         /\ ShapeOf(Runner)
  BY DEF IInv, ClientTypeOK, Calls, CallTypeOK, SoundCall

LEMMA GotoGoes ==
  ASSUME IInv, NEW step, step # "idle", call[Runner].op = "start" => call[Runner].made,
         Goto(Runner, step) \/ (GotoUnclean(Runner, step) /\ Trouble # {})
  PROVE  Goes(call[Runner])
<1>1. pc'[Runner] = step /\ out'[Runner] = out[Runner]
  BY RunnerTyped DEF Goto, GotoUnclean
<1>2. Like(call[Runner], call'[Runner])
  <2>1. CASE Goto(Runner, step)
    BY <2>1, LikeItself DEF Goto
  <2>2. CASE GotoUnclean(Runner, step) /\ Trouble # {}
    <3>1. call'[Runner] = [call[Runner] EXCEPT !.clean = FALSE]
      BY <2>2, RunnerTyped DEF GotoUnclean
    <3>2. QED
      BY <2>2, <3>1, RunnerTyped, LikeUnclean
  <2>3. QED
    BY <2>1, <2>2
<1>3. QED
  BY <1>1, <1>2 DEF Goes

LEMMA FinalGoes ==
  ASSUME IInv, NEW y, NEW f, NEW res, ReturnFrom(Runner, f, res), Like(y, f), TrueReport(f, res)'
  PROVE  Goes(y)
<1>1. pc'[Runner] = "idle" /\ call'[Runner] = NoCall
      /\ out'[Runner].call = f /\ out'[Runner].res = res
  BY RunnerTyped DEF ReturnFrom
<1>2. QED
  BY <1>1 DEF Goes, TrueReport

LEMMA ReturnGoes ==
  ASSUME IInv, NEW x, x = call[Runner], NEW res,
         Return(Runner, res) \/ (ReturnUnclean(Runner, res) /\ Trouble # {}),
         TrueReport(x, res)'
  PROVE  Goes(x)
<1>1. PICK f : ReturnFrom(Runner, f, res) /\ Like(x, f)
  BY RunnerTyped, LikeItself, LikeUnclean DEF Return, ReturnUnclean
<1>2. f.op = x.op /\ f.key = x.key /\ (f.made <=> x.made)
  BY <1>1 DEF Like
<1>3. TrueReport(f, res)'
  BY <1>2 DEF TrueReport
<1>4. QED
  BY <1>1, <1>3, FinalGoes

\* A status is concluded with what is known of the task.
LEMMA ConcludeGoes ==
  ASSUME IInv, pc[Runner] \in StatusStep, NEW res \in Answer, Conclude(Runner, res),
         res \in Terminal => fate'[call[Runner].key][1] = res
  PROVE  Goes(call[Runner])
<1>1. PICK x : x = call[Runner]
  OBVIOUS
<1>2. x.op # "start"
  BY <1>1, RunnerTyped DEF ShapeOf
<1>3. ASSUME NEW r, Return(Runner, r), x.op = "status" => r = res, x.op = "result" => r # "Ok"
      PROVE  Goes(x)
  <2>1. TrueReport(x, r)'
    BY <1>1, <1>2, <1>3 DEF TrueReport
  <2>2. QED
    BY <1>1, <1>3, <2>1, ReturnGoes
<1>4. \/ \E r : Return(Runner, r) /\ (x.op = "status" => r = res) /\ (x.op = "result" => r # "Ok")
      \/ Goto(Runner, "cancel") \/ Goto(Runner, "ensure")
  BY <1>1 DEF Conclude
<1>5. QED
  BY <1>1, <1>2, <1>3, <1>4, GotoGoes

\* Where a status is asked for, a fate that is known is that of the only task.
LEMMA OnlyFate ==
  ASSUME IInv, Books, NEW k \in Key, NEW g \in Gens, fate[k][g] \in Terminal
  PROVE  g = 1
<1>1. Tidy(k) /\ gen[k] \in 0..MaxGen
  BY DEF Books, IInv, ServerTypeOK
<1>2. g <= gen[k] /\ gen[k] <= 1
  BY <1>1 DEF Tidy, Gens, Terminal
<1>3. QED
  BY <1>1, <1>2 DEF Gens

LEMMA TaskFate ==
  ASSUME IInv, Books, NEW k \in Key
  PROVE  /\ task[k] = "failed" => fate[k][1] = "Failed"
         /\ task[k] = "completed" => fate[k][1] = "Completed"
         /\ k \in recorded => fate[k][1] = "Cancelled"
<1>1. Tidy(k) /\ gen[k] \in 0..MaxGen
  BY DEF Books, IInv, ServerTypeOK
<1>2. gen[k] > 0 => gen[k] = 1
  BY <1>1 DEF Tidy
<1>3. QED
  BY <1>1, <1>2 DEF Tidy

LEMMA StatusGoes ==
  ASSUME IInv, SInv,
         \/ Lookup(Runner) \/ AskExists(Runner) \/ AskFailed(Runner) \/ AskFinished(Runner)
         \/ AskFailedAgain(Runner) \/ AskRunning(Runner) \/ Recheck(Runner) \/ ReadHistory(Runner)
  PROVE  Goes(call[Runner])
<1> DEFINE k == call[Runner].key
<1>1. pc[Runner] \in StatusStep /\ UNCHANGED srv
  BY DEF Lookup, AskExists, AskFailed, AskFinished, AskFailedAgain, AskRunning, Recheck,
         ReadHistory, At, StatusStep
<1>2. k \in Key /\ Books /\ fate' = fate
  BY <1>1, RunnerTyped DEF ShapeOf, SInv, srv
<1>3. /\ task[k] = "failed" => fate[k][1] = "Failed"
      /\ task[k] = "completed" => fate[k][1] = "Completed"
      /\ k \in recorded => fate[k][1] = "Cancelled"
  BY <1>2, TaskFate
<1>4. /\ {"Failed", "Completed", "Cancelled", "TaskNotFound", "Other", "Running", "Queued"}
           \subseteq Answer
      /\ {"TaskNotFound", "Other", "Running", "Queued"} \cap Terminal = {}
  BY DEF Answer, Terminal
<1>5. ASSUME NEW step \in StatusStep, Goto(Runner, step) PROVE Goes(call[Runner])
  BY <1>1, <1>5, RunnerTyped, GotoGoes DEF StatusStep, ShapeOf
<1>6. ASSUME NEW res \in {"TaskNotFound", "Other", "Running", "Queued"}, Conclude(Runner, res)
      PROVE  Goes(call[Runner])
  BY <1>1, <1>4, <1>6, ConcludeGoes
<1>7. ASSUME NEW res \in {"Failed", "Completed", "Cancelled"}, Conclude(Runner, res),
             fate[k][1] = res
      PROVE  Goes(call[Runner])
  BY <1>1, <1>2, <1>4, <1>7, ConcludeGoes
<1>8. CASE Lookup(Runner)
  <2>1. ASSUME cache[Runner][k] # "none", Conclude(Runner, cache[Runner][k])
        PROVE  Goes(call[Runner])
    <3>1. cache[Runner][k] \in Terminal
      BY <1>2, <2>1 DEF IInv, ClientTypeOK
    <3>2. PICK g \in Gens : fate[k][g] = cache[Runner][k]
      BY <1>2, <2>1 DEF SInv, Sober, Remembers
    <3>3. fate[k][1] = cache[Runner][k]
      BY <1>2, <3>1, <3>2, OnlyFate
    <3>4. QED
      BY <1>7, <2>1, <3>1, <3>3 DEF Terminal
  <2>2. QED
    BY <1>5, <1>8, <2>1 DEF Lookup, StatusStep
<1>9. CASE AskExists(Runner) \/ AskFinished(Runner) \/ AskRunning(Runner) \/ Recheck(Runner)
  BY <1>5, <1>6, <1>9 DEF AskExists, AskFinished, AskRunning, Recheck, StatusStep
<1>10. CASE AskFailed(Runner) \/ ReadHistory(Runner)
  BY <1>3, <1>5, <1>6, <1>7, <1>10 DEF AskFailed, ReadHistory, Learn, StatusStep
<1>11. CASE AskFailedAgain(Runner)
  <2>1. task[k] \notin Active
    BY <1>11 DEF AskFailedAgain, At, SInv, Sober, Fits
  <2>2. task[k] \notin {"absent", "failed"} => task[k] = "completed"
    BY <1>2, <2>1 DEF IInv, ServerTypeOK, TaskState
  <2>3. QED
    BY <1>3, <1>5, <1>7, <1>11, <2>2 DEF AskFailedAgain, Learn, StatusStep
<1>12. QED
  BY <1>8, <1>9, <1>10, <1>11

\* A task that the daemon creates for the call.
LEMMA CreationCreates ==
  ASSUME IInv, Books, NEW t \in TaskIds, session[Runner] \in Sessions,
         NEW st \in Active, NewTask(<<session[Runner], t>>, st)
  PROVE  Creates(<<session[Runner], t>>)
<1> DEFINE k == <<session[Runner], t>>
<1>1. k \in Key /\ k[1] = session[Runner]
  BY DEF Key
<1>2. gen[k] = 0
  BY DEF NewTask, Free
<1> HIDE DEF k
<1>3. gen' = [gen EXCEPT ![k] = @ + 1] /\ fate' = [fate EXCEPT ![k][1] = "active"]
  BY <1>2 DEF NewTask, k
<1>4. gen'[k] = 1 /\ fate'[k][1] = "active"
  BY <1>1, <1>2, <1>3, FirstGen DEF IInv, ServerTypeOK
<1>5. QED
  BY <1>1, <1>4 DEF Creates, k

LEMMA MadeIs ==
  ASSUME IInv, NEW k \in Key
  PROVE  /\ Made(Runner, k) \in Call /\ Made(Runner, k).made /\ Made(Runner, k).key = k
         /\ Made(Runner, k).op = call[Runner].op
         /\ Made(Runner, k).named = call[Runner].named
         /\ Made(Runner, k).clean = call[Runner].clean
<1>1. call[Runner] \in Call
  BY RunnerTyped
<1>2. QED
  BY <1>1 DEF Made, Call

\* The submission, which may create the task.
LEMMA SubmitGoes ==
  ASSUME IInv, Books, Submit(Runner) \/ TaskCreate(Runner)
  PROVE  Takes
<1>1. /\ call[Runner].op = "start" /\ ~call[Runner].made /\ session[Runner] \in Sessions
      /\ call[Runner] \in Call
  BY RunnerTyped DEF Submit, TaskCreate, At, ShapeOf
<1>2. session' = session
  BY DEF Submit, TaskCreate, Adopt, client
<1>3. ASSUME NEW res, Return(Runner, res) \/ (ReturnUnclean(Runner, res) /\ Trouble # {}),
             res # "Ok"
      PROVE  Goes(call[Runner])
  <2>1. PICK x : x = call[Runner]
    OBVIOUS
  <2>2. TrueReport(x, res)'
    BY <1>1, <1>3, <2>1 DEF TrueReport
  <2>3. QED
    BY <1>3, <2>1, <2>2, ReturnGoes
<1>4. ASSUME NEW t \in TaskIds, NEW st \in Active, NewTask(<<session[Runner], t>>, st),
             \/ ReturnFrom(Runner, Made(Runner, <<session[Runner], t>>), "Ok")
             \/ /\ ReturnFrom(Runner, [Made(Runner, <<session[Runner], t>>)
                                         EXCEPT !.clean = FALSE], "Other")
                /\ Trouble # {}
             \/ /\ pc' = [pc EXCEPT ![Runner] = "configure"]
                /\ call' = [call EXCEPT ![Runner] = Made(Runner, <<session[Runner], t>>)]
                /\ UNCHANGED out
      PROVE  \E k \in Key : Creates(k) /\ Goes(Made(Runner, k))
  <2> DEFINE k == <<session[Runner], t>>
  <2>1. k \in Key /\ Creates(k)
    BY <1>1, <1>4, CreationCreates DEF Key
  <2>2. PICK y : y = Made(Runner, k) /\ y \in Call /\ y.made /\ y.op = "start"
    BY <1>1, <2>1, MadeIs
  <2> HIDE DEF k
  <2>3. CASE ReturnFrom(Runner, y, "Ok")
    <3>1. TrueReport(y, "Ok")'
      BY <2>2 DEF TrueReport
    <3>2. QED
      BY <2>1, <2>2, <2>3, <3>1, FinalGoes, LikeItself
  <2>4. CASE ReturnFrom(Runner, [y EXCEPT !.clean = FALSE], "Other") /\ Trouble # {}
    <3>1. PICK z : z = [y EXCEPT !.clean = FALSE]
      OBVIOUS
    <3>2. Like(y, z) /\ z.op = "start"
      BY <2>2, <2>4, <3>1, LikeUnclean DEF Like
    <3>3. TrueReport(z, "Other")'
      BY <3>2 DEF TrueReport
    <3>4. QED
      BY <2>1, <2>2, <2>4, <3>1, <3>2, <3>3, FinalGoes
  <2>5. CASE /\ pc' = [pc EXCEPT ![Runner] = "configure"]
             /\ call' = [call EXCEPT ![Runner] = y]
             /\ UNCHANGED out
    BY <2>1, <2>2, <2>5, RunnerTyped, LikeItself DEF Goes
  <2>6. QED
    BY <1>4, <2>2, <2>3, <2>4, <2>5 DEF k
<1>5. {"created", "queued"} \subseteq Active /\ "Ok" \notin Refusal
  BY DEF Active, Refusal
<1>6. Lost \/ Unreachable => Trouble # {}
  BY DEF Lost, Unreachable
<1>7. CASE Submit(Runner)
  <2>1. \/ \E t \in TaskIds : /\ NewTask(<<session[Runner], t>>, "queued")
                              /\ ReturnFrom(Runner, Made(Runner, <<session[Runner], t>>), "Ok")
        \/ \E res \in (Refusal \ {"UnsupportedPayload"}) \cup {"Other"} : Return(Runner, res)
        \/ Trouble # {} /\ ReturnUnclean(Runner, "Other")
        \/ /\ Trouble # {}
           /\ \E t \in TaskIds :
                /\ NewTask(<<session[Runner], t>>, "queued")
                /\ ReturnFrom(Runner, [Made(Runner, <<session[Runner], t>>)
                                         EXCEPT !.clean = FALSE], "Other")
    BY <1>6, <1>7, Zenon DEF Submit
  <2>2. ASSUME NEW res \in (Refusal \ {"UnsupportedPayload"}) \cup {"Other"}, Return(Runner, res)
        PROVE  Goes(call[Runner])
    BY <1>3, <1>5, <2>2
  <2>3. QED
    BY <1>1, <1>2, <1>3, <1>4, <1>5, <2>1, <2>2 DEF Takes
<1>8. CASE TaskCreate(Runner)
  <2>1. \/ \E t \in TaskIds :
             /\ NewTask(<<session[Runner], t>>, "created")
             /\ pc' = [pc EXCEPT ![Runner] = "configure"]
             /\ call' = [call EXCEPT ![Runner] = Made(Runner, <<session[Runner], t>>)]
             /\ UNCHANGED out
        \/ /\ Trouble # {}
           /\ \E t \in TaskIds :
                /\ NewTask(<<session[Runner], t>>, "created")
                /\ ReturnFrom(Runner, [Made(Runner, <<session[Runner], t>>)
                                         EXCEPT !.clean = FALSE], "Other")
        \/ Return(Runner, "Other")
    BY <1>6, <1>8 DEF TaskCreate
  <2>2. QED
    BY <1>1, <1>2, <1>3, <1>4, <1>5, <2>1 DEF Takes
<1>9. QED
  BY <1>7, <1>8

\* The exchanges of a legacy submission whose task was created.
LEMMA LegacyGoes ==
  ASSUME IInv, Configure(Runner) \/ Execute(Runner) \/ SubmitCleanup(Runner), call[Runner].made
  PROVE  Takes
<1>1. PICK x : x = call[Runner]
  OBVIOUS
<1>2. /\ x.op = "start" /\ x.made /\ session' = session
      /\ Lost \/ Unreachable \/ Refused => Trouble # {}
  BY <1>1, RunnerTyped DEF Configure, Execute, SubmitCleanup, At, ShapeOf, Adopt, client,
                           Lost, Unreachable, Refused
<1>3. \A res : TrueReport(x, res)'
  BY <1>2 DEF TrueReport
<1>4. ASSUME NEW res, Return(Runner, res) \/ (ReturnUnclean(Runner, res) /\ Trouble # {})
      PROVE  Goes(call[Runner])
  BY <1>1, <1>3, <1>4, ReturnGoes
<1>5. ASSUME NEW step \in {"execute", "cleanup"},
             Goto(Runner, step) \/ (GotoUnclean(Runner, step) /\ Trouble # {})
      PROVE  Goes(call[Runner])
  BY <1>5, GotoGoes
<1>6. Goes(call[Runner])
  <2>1. CASE Configure(Runner)
    BY <1>2, <1>5, <2>1 DEF Configure
  <2>2. CASE Execute(Runner)
    BY <1>2, <1>4, <1>5, <2>2 DEF Execute
  <2>3. CASE SubmitCleanup(Runner)
    BY <1>2, <1>4, <2>3 DEF SubmitCleanup
  <2>4. QED
    BY <2>1, <2>2, <2>3
<1>7. QED
  BY <1>2, <1>6 DEF Takes

LEMMA CancelGoes ==
  ASSUME IInv, Cancel(Runner)
  PROVE  Goes(call[Runner]) /\ session' = session
<1>1. PICK x : x = call[Runner] /\ x.op = "stop" /\ x \in Call
  BY RunnerTyped DEF Cancel, At, ShapeOf
<1>2. CASE Return(Runner, "Ok")
  <2>1. TrueReport(x, "Ok")'
    BY <1>1 DEF TrueReport
  <2>2. QED
    BY <1>1, <1>2, <2>1, ReturnGoes DEF Cancel, LookAgain, client
<1>3. CASE LookAgain(Runner)
  <2>1. call'[Runner] = [x EXCEPT !.again = TRUE] /\ pc'[Runner] = "lookup"
        /\ out' = out /\ session' = session
    BY <1>1, <1>3, RunnerTyped DEF LookAgain, client
  <2>2. Like(x, call'[Runner])
    BY <1>1, <2>1 DEF Like, Call
  <2>3. QED
    BY <1>1, <2>1, <2>2 DEF Goes
<1>4. QED
  BY <1>2, <1>3 DEF Cancel, LookAgain, client

\* The result is that of a task that completed.
LEMMA ResultGoes ==
  ASSUME IInv, Books, Ensure(Runner) \/ GetResults(Runner) \/ GetRecheck(Runner)
  PROVE  Goes(call[Runner]) /\ session' = session
<1>1. PICK x : x = call[Runner] /\ x.op = "result" /\ x.key \in Key
  BY RunnerTyped DEF Ensure, GetResults, GetRecheck, At, ShapeOf
<1>2. session' = session
  BY DEF Ensure, GetResults, GetRecheck, client
<1>3. ASSUME NEW step \in {"getResults", "getRecheck"}, Goto(Runner, step)
      PROVE  Goes(call[Runner])
  BY <1>1, <1>3, GotoGoes
<1>4. ASSUME NEW res \in {"TaskNotFound", "Other"}, Return(Runner, res)
      PROVE  Goes(call[Runner])
  <2>1. TrueReport(x, res)'
    BY <1>1, <1>4 DEF TrueReport
  <2>2. QED
    BY <1>1, <1>4, <2>1, ReturnGoes
<1>5. ASSUME ConsumeTask(x.key), Return(Runner, "Ok")
      PROVE  Goes(call[Runner])
  <2>1. fate'[x.key][1] = "Completed"
    BY <1>1, <1>5, TaskFate DEF ConsumeTask
  <2>2. TrueReport(x, "Ok")'
    BY <1>1, <2>1 DEF TrueReport
  <2>3. QED
    BY <1>1, <1>5, <2>2, ReturnGoes
<1>6. QED
  BY <1>1, <1>2, <1>3, <1>4, <1>5 DEF Ensure, GetResults, GetRecheck

\* Every exchange of a call that the runner makes.
LEMMA ExchangeTakes ==
  ASSUME IInv, SInv, Advance(Runner), call[Runner].op \in {"start", "status", "stop", "result"},
         pc[Runner] \in {"configure", "execute", "cleanup"} => call[Runner].made
  PROVE  Takes
<1>1. Books
  BY DEF SInv
<1>2. ~(SessionExists(Runner) \/ SessionCreate(Runner) \/ SessionDelete(Runner))
  BY RunnerTyped DEF SessionExists, SessionCreate, SessionDelete, At, ShapeOf
<1>3. CASE Submit(Runner) \/ TaskCreate(Runner)
  BY <1>1, <1>3, SubmitGoes
<1>4. CASE Configure(Runner) \/ Execute(Runner) \/ SubmitCleanup(Runner)
  <2>1. call[Runner].made
    BY <1>4 DEF Configure, Execute, SubmitCleanup, At
  <2>2. QED
    BY <1>4, <2>1, LegacyGoes
<1>5. CASE \/ Lookup(Runner) \/ AskExists(Runner) \/ AskFailed(Runner) \/ AskFinished(Runner)
           \/ AskFailedAgain(Runner) \/ AskRunning(Runner) \/ Recheck(Runner)
           \/ ReadHistory(Runner)
  <2>1. session' = session
    BY <1>5, Zenon DEF Lookup, AskExists, AskFailed, AskFinished, AskFailedAgain, AskRunning,
           Recheck, ReadHistory, Learn, client
  <2>2. Goes(call[Runner])
    BY <1>5, StatusGoes
  <2>3. QED
    BY <2>1, <2>2 DEF Takes
<1>6. CASE Cancel(Runner) \/ Ensure(Runner) \/ GetResults(Runner) \/ GetRecheck(Runner)
  BY <1>1, <1>6, CancelGoes, ResultGoes DEF Takes
<1>7. QED
  BY <1>2, <1>3, <1>4, <1>5, <1>6 DEF Advance

(***************************************************************************)
(* The run and its calls.                                                  *)
(***************************************************************************)

\* Which calls the process makes where.
Placed ==
  /\ R!RunnerTypeOK
  /\ stage \in {"setup", "starting"} => ~started
  /\ stage \in {"naming", "polling", "asking", "fetching", "writing", "sleeping", "reporting",
                "cleaning"} => started
  /\ ~started => asked \in {"none", "start"}
  /\ stage \in {"setup", "naming", "polling", "writing", "sleeping", "exited"} => asked = "none"
  /\ stage = "starting" => asked \in {"none", "start"}
  /\ stage = "asking" => asked \in {"none", "status"}
  /\ stage = "fetching" => asked \in {"none", "result"}
  /\ stage = "reporting" => asked \in {"none", "logs"}
  /\ stage = "cleaning" => asked \in {"none", "stop"}

\* The running call is the one the process has asked for, about its own task.
CallFits ==
  LET c == call[Runner] IN
  /\ pc[Runner] = "idle" => c = NoCall
  /\ pc[Runner] # "idle" =>
       /\ c.op \in IF started THEN {"status", "stop", "result"} ELSE {"start"}
       /\ started => c.key = jobId /\ c.named > 0
       /\ c.op = "start" /\ c.made => Ours(c.key)
       /\ pc[Runner] \in {"configure", "execute", "cleanup"} => c.made
       /\ stage # "killed" => asked = c.op
       /\ Trouble = {} => c.clean

\* What the last call returned is what the process goes by.
OutFits ==
  LET o == out[Runner] IN
  /\ ~started => o.call.op \in {"none", "start"}
  /\ stage # "killed" /\ pc[Runner] = "idle" /\ asked \in {"start", "status", "result", "stop"} =>
       /\ o.call.op = asked
       /\ asked # "start" => o.call.key = jobId /\ o.call.named > 0
  /\ stage = "setup" => out[Runner] = NoOut
  /\ stage = "starting" /\ asked = "none" =>
       /\ o.call.op = "start"
       /\ IF answer = "Ok" THEN o.res = "Ok" /\ jobId = o.call.key ELSE o.res # "Ok"
  /\ stage = "exited" /\ ~started => o.res # "Ok"

Knows ==
  /\ started => Ours(jobId)
  /\ Trouble = {} /\ started /\ (stage = "exited" \/ (stage = "cleaning" /\ asked = "none"))
     => fate[jobId][1] # "active"

RunInv == Placed /\ CallFits /\ OutFits /\ Knows /\ Speaks

(* What a step of the process comes to.                                    *)

Same == stage' = stage /\ asked' = asked /\ answer' = answer /\ started' = started

Launches ==
  /\ stage = "setup" /\ stage' = "starting"
  /\ asked' = "start" /\ ~started'

Accepts ==
  /\ stage = "starting" /\ stage' = "naming"
  /\ asked = "none" /\ asked' = "none"
  /\ answer = "Ok" /\ started'

\* The run ends before it has a task.
Leaves ==
  /\ stage' = "exited" /\ asked = "none" /\ asked' = "none" /\ ~started'
  /\ stage = "setup" \/ (stage = "starting" /\ answer = "Err")

Asks ==
  /\ stage # "killed" /\ started /\ started' /\ asked = "none"
  /\ \/ stage' = "asking" /\ asked' = "status"
     \/ stage' = "fetching" /\ asked' = "result"
     \/ stage' = "reporting" /\ asked' = "logs"
     \/ stage' = "cleaning" /\ asked' = "stop"

\* The run goes on with its task, or ends.
Passes ==
  /\ stage # "killed" /\ started /\ started' /\ asked = "none" /\ asked' = "none"
  /\ \/ stage' \in {"polling", "writing", "sleeping"}
     \/ stage = "cleaning" /\ stage' = "exited"

Dies == stage' = "killed" /\ asked' = asked /\ answer' = answer /\ started' = started

LEMMA RunnerMoves ==
  ASSUME Placed, R!RunnerNext
  PROVE  Placed' /\ (Same \/ Launches \/ Accepts \/ Leaves \/ Asks \/ Passes \/ Dies)
<1> USE DEF R!Call, R!Returned, R!Move, R!Fail
<1>1. CASE R!Reject \/ R!StartRefused
  BY <1>1 DEF R!Reject, R!StartRefused, Placed, R!RunnerTypeOK, R!Stage, R!Answer, Leaves
<1>2. CASE R!Launch
  BY <1>2 DEF R!Launch, Placed, R!RunnerTypeOK, R!Stage, R!Answer, Launches
<1>3. CASE R!StartAccepted
  BY <1>3 DEF R!StartAccepted, Placed, R!RunnerTypeOK, R!Stage, R!Answer, Accepts
<1>4. CASE R!NameTask \/ R!Poll
  BY <1>4 DEF R!NameTask, R!Poll, Placed, R!RunnerTypeOK, R!Stage, R!Answer, Asks, Passes
<1>5. CASE R!Judge
  BY <1>5 DEF R!Judge, Placed, R!RunnerTypeOK, R!Stage, R!Answer, Asks, Passes
<1>6. CASE R!Wake \/ R!Fetched
  BY <1>6 DEF R!Wake, R!Fetched, Placed, R!RunnerTypeOK, R!Stage, R!Answer, Asks, Passes
<1>7. CASE R!WriteResult \/ R!Report
  BY <1>7 DEF R!WriteResult, R!Report, Placed, R!RunnerTypeOK, R!Stage, R!Answer, Asks
<1>8. CASE R!Clean
  BY <1>8 DEF R!Clean, Placed, R!RunnerTypeOK, R!Stage, R!Answer, Passes
<1>9. CASE R!Signal
  BY <1>9 DEF R!Signal, Placed, R!RunnerTypeOK, Same
<1>10. CASE R!Kill
  BY <1>10 DEF R!Kill, Placed, R!RunnerTypeOK, R!Stage, Dies
<1>11. QED
  BY <1>1, <1>2, <1>3, <1>4, <1>5, <1>6, <1>7, <1>8, <1>9, <1>10 DEF R!RunnerNext, R!Proceed

(* The steps of the process keep the invariant.                            *)

\* The instance does not move.
LEMMA StillKeeps ==
  ASSUME RunInv, UNCHANGED vars, UNCHANGED jobId, Placed',
         Same \/ Accepts \/ Leaves \/ Passes \/ Dies \/ (Asks /\ asked' = "logs")
  PROVE  RunInv'
<1>1. Speaks' /\ \A k : Ours(k) => Ours(k)'
  BY DEF RunInv, Speaks, Ours, vars
<1>2. CallFits'
  <2>1. pc[Runner] # "idle" => started' = started
    BY DEF RunInv, CallFits, Placed, R!RunnerTypeOK, Same, Accepts, Leaves, Passes, Dies, Asks
  <2>2. pc[Runner] # "idle" /\ stage' # "killed" => stage # "killed" /\ asked' = asked
    BY DEF RunInv, CallFits, Same, Accepts, Leaves, Passes, Dies, Asks, Placed
  <2>3. QED
    BY <1>1, <2>1, <2>2
       DEF RunInv, CallFits, vars, Same, Accepts, Leaves, Passes, Dies, Asks
<1>3. OutFits'
  BY DEF RunInv, OutFits, CallFits, Placed, vars, Same, Accepts, Leaves, Passes, Dies, Asks,
         NoOut, NoCall
<1>4. Knows'
  BY <1>1 DEF RunInv, Knows, OutFits, CallFits, Speaks, Placed, vars, Same, Accepts, Leaves,
              Passes, Dies, Asks
<1>5. QED
  BY <1>1, <1>2, <1>3, <1>4 DEF RunInv

\* What the instance knows is not of a task, and nothing it says is of one.
LEMMA SilentSpeaks ==
  ASSUME NEW o, o.call.op = "start" => ~o.call.made /\ o.res # "Ok",
         o.call.op \notin {"status", "result"}, o.call.clean, out'[Runner] = o
  PROVE  Speaks'
BY DEF Speaks

LEMMA Beginnings ==
  /\ NoOut.call = NoCall /\ NoOut.res = "none" /\ NoCall.op = "none" /\ NoCall.clean /\ ~NoCall.made
  /\ Starting.op = "start" /\ Starting.clean /\ ~Starting.made
BY DEF NoOut, NoCall, Starting

LEMMA LaunchKeeps ==
  ASSUME IInv, RunInv, Launches, Placed', UNCHANGED jobId,
         StartTaskCall(Runner) \/ RejectStart(Runner)
  PROVE  RunInv'
<1>1. ~started /\ stage' = "starting" /\ asked' = "start" /\ ~started'
      /\ pc[Runner] = "idle"
  BY DEF RunInv, Placed, CallFits, Launches
<1>2. \/ /\ pc'[Runner] # "idle" /\ pc'[Runner] \notin {"configure", "execute", "cleanup"}
         /\ call'[Runner] = Starting /\ out'[Runner] = NoOut
      \/ /\ pc'[Runner] = "idle" /\ call'[Runner] = NoCall
         /\ out'[Runner].call = Starting /\ out'[Runner].res # "Ok"
  BY <1>1, RunnerTyped DEF StartTaskCall, RejectStart, Enter, ReturnFrom
<1>3. Speaks'
  BY <1>2, Beginnings, SilentSpeaks
<1>4. CallFits'
  BY <1>1, <1>2, Beginnings DEF CallFits
<1>5. OutFits'
  BY <1>1, <1>2, Beginnings DEF OutFits
<1>6. Knows'
  BY <1>1 DEF Knows
<1>7. QED
  BY <1>3, <1>4, <1>5, <1>6 DEF RunInv

LEMMA AskKeeps ==
  ASSUME IInv, RunInv, Asks, asked' # "logs", Placed', UNCHANGED jobId,
         Ask(Runner, asked', jobId[2])
  PROVE  RunInv'
<1>1. PICK op, k : op = asked' /\ op \in {"status", "result", "stop"} /\ k = jobId
      /\ Ours(k) /\ k = <<session[Runner], jobId[2]>> /\ Named(Runner, k) = 1
  BY DEF RunInv, Knows, Asks, Ours, Key, Named
<1>2. /\ pc'[Runner] = "lookup" /\ out'[Runner] = NoOut /\ UNCHANGED <<session, gen, fate>>
      /\ call'[Runner] = [NoCall EXCEPT !.op = op, !.key = k, !.named = 1]
  BY <1>1, RunnerTyped DEF Ask, Enter, srv, client
<1>3. PICK x : x = call'[Runner] /\ x.op = op /\ x.key = k /\ x.named = 1 /\ x.clean /\ ~x.made
  BY <1>2 DEF NoCall
<1>4. Speaks'
  BY <1>2, Beginnings, SilentSpeaks
<1>5. CallFits'
  BY <1>1, <1>2, <1>3 DEF CallFits, Asks
<1>6. OutFits'
  BY <1>1, <1>2, Beginnings DEF OutFits, Asks
<1>7. Knows'
  BY <1>1, <1>2 DEF Knows, Asks, Ours
<1>8. QED
  BY <1>4, <1>5, <1>6, <1>7 DEF RunInv

LEMMA RunnerStepKeeps ==
  ASSUME IInv, RunInv, RunnerStep
  PROVE  RunInv' /\ [Next]_vars
<1>1. Placed' /\ (Same \/ Launches \/ Accepts \/ Leaves \/ Asks \/ Passes \/ Dies)
  BY RunnerMoves DEF RunInv, RunnerStep
<1>2. CASE Launches
  <2>1. asked = "none" /\ asked' = "start"
    BY <1>2 DEF Launches, RunInv, Placed
  <2>2. StartTaskCall(Runner) \/ RejectStart(Runner)
    BY <2>1 DEF RunnerStep, Begin
  <2>3. QED
    BY <1>1, <1>2, <2>2, LaunchKeeps DEF RunnerStep, Next, Use
<1>3. CASE Asks /\ asked' # "logs"
  <2>1. asked = "none" /\ asked' \in {"status", "result", "stop"}
    BY <1>3 DEF Asks
  <2>2. Ask(Runner, asked', jobId[2])
    BY <2>1 DEF RunnerStep, Begin
  <2>3. jobId[2] \in TaskIds
    BY <1>3 DEF Asks, RunInv, Knows, Ours, Key
  <2>4. Use(Runner)
    BY <2>1, <2>2, <2>3 DEF Use
  <2>5. QED
    BY <1>1, <1>3, <2>2, <2>4, AskKeeps DEF RunnerStep, Next
<1>4. CASE Same \/ Accepts \/ Leaves \/ Passes \/ Dies \/ (Asks /\ asked' = "logs")
  <2>1. UNCHANGED vars
    BY <1>4 DEF RunnerStep, Begin, Same, Accepts, Leaves, Passes, Dies, Asks
  <2>2. QED
    BY <1>1, <1>4, <2>1, StillKeeps DEF RunnerStep
<1>5. QED
  BY <1>1, <1>2, <1>3, <1>4

\* A call returns to the process.
LEMMA ReturnKeepsRun ==
  ASSUME IInv, SInv, RunInv, CallReturns
  PROVE  RunInv' /\ [Next]_vars
<1>1. UNCHANGED vars /\ stage # "killed" /\ pc[Runner] = "idle"
      /\ UNCHANGED <<stage, running, started, result, delivered>> /\ asked' = "none"
  BY DEF CallReturns, R!Reply, At
<1>2. Placed'
  <2>1. answer' \in R!Answer
    BY DEF CallReturns, R!Reply, Reading, R!Answer, R!Verdict, Terminal
  <2>2. QED
    BY <1>1, <2>1 DEF RunInv, Placed, R!RunnerTypeOK
<1>3. \/ /\ asked = "start" /\ jobId' = IF out[Runner].res = "Ok" THEN out[Runner].call.key ELSE jobId
         /\ answer' = IF out[Runner].res = "Ok" THEN "Ok" ELSE "Err"
      \/ asked \in {"status", "result", "stop", "logs"} /\ jobId' = jobId
  BY DEF CallReturns, R!Reply, Reading
<1>4. Speaks'
  BY <1>1 DEF RunInv, Speaks, Ours, vars
<1>5. CallFits'
  BY <1>1 DEF RunInv, CallFits, vars
<1>6. OutFits'
  BY <1>1, <1>3 DEF RunInv, OutFits, Placed, vars
<1>7. Knows'
  <2>1. started => jobId' = jobId /\ Ours(jobId)'
    BY <1>1, <1>3 DEF RunInv, Placed, R!RunnerTypeOK, R!Stage, Knows, Ours, vars
  <2>2. CASE Trouble = {} /\ stage = "cleaning" /\ asked = "stop"
    <3>1. PICK f : f = out[Runner].call /\ f.op = "stop" /\ f.key = jobId /\ f.named > 0
      BY <1>1, <2>2 DEF RunInv, OutFits
    <3>2. f.named <= gen[jobId] /\ Settled(jobId, f.named) /\ f.named \in 0..MaxGen
      BY <2>2, <3>1 DEF SInv, Sober, Tells, IInv, Calls, CallTypeOK, Call
    <3>3. gen[jobId] = 1
      BY <2>2 DEF RunInv, Placed, Knows, Ours
    <3>4. fate[jobId][1] # "active"
      BY <3>1, <3>2, <3>3 DEF Settled
    <3>5. QED
      BY <1>1, <2>1, <2>2, <3>4 DEF RunInv, Placed, Knows, vars
  <2>3. CASE ~(Trouble = {} /\ stage = "cleaning" /\ asked = "stop")
    BY <1>1, <1>3, <2>1, <2>3 DEF RunInv, Placed, Knows, vars
  <2>4. QED
    BY <2>2, <2>3
<1>8. QED
  BY <1>1, <1>2, <1>4, <1>5, <1>6, <1>7 DEF RunInv

(* The exchanges, of the run and of the others, keep the invariant.        *)

LEMMA AdvanceBusy == ASSUME NEW c \in Clients, Advance(c) PROVE pc[c] # "idle"
<1>1. CASE SessionExists(c) \/ SessionCreate(c) \/ SessionDelete(c)
           \/ Submit(c) \/ TaskCreate(c) \/ Configure(c) \/ Execute(c) \/ SubmitCleanup(c)
  BY <1>1 DEF SessionExists, SessionCreate, SessionDelete, Submit, TaskCreate, Configure,
              Execute, SubmitCleanup, At
<1>2. CASE Lookup(c) \/ AskExists(c) \/ AskFailed(c) \/ AskFinished(c)
           \/ AskFailedAgain(c) \/ AskRunning(c) \/ Recheck(c) \/ ReadHistory(c)
  BY <1>2 DEF Lookup, AskExists, AskFailed, AskFinished, AskFailedAgain, AskRunning, Recheck,
              ReadHistory, At
<1>3. CASE Cancel(c) \/ Ensure(c) \/ GetResults(c) \/ GetRecheck(c)
  BY <1>3 DEF Cancel, Ensure, GetResults, GetRecheck, At
<1>4. QED
  BY <1>1, <1>2, <1>3 DEF Advance

\* The call that goes on or returns is the one that was running.
LEMMA ExchangeGoes ==
  ASSUME IInv, IInv', SInv, Steady, RunInv, RunnerExchange
  PROVE  /\ pc[Runner] # "idle" /\ stage # "killed" /\ asked = call[Runner].op
         /\ session'[Runner] = session[Runner] /\ out[Runner] = NoOut
         /\ \E y : /\ Goes(y) /\ y.op = call[Runner].op
                   /\ started => y.key = jobId /\ y.named > 0
                   /\ y.op = "start" /\ y.made => Ours(y.key)'
                   /\ Trouble = {} => y.clean
                   /\ \/ y.key = call[Runner].key /\ (y.made <=> call[Runner].made)
                      \/ ~call[Runner].made /\ y.made /\ fate'[y.key][1] = "active"
<1>1. pc[Runner] # "idle" /\ stage # "killed"
  BY AdvanceBusy DEF RunnerExchange
<1>2. asked = call[Runner].op /\ call[Runner].op \in {"start", "status", "stop", "result"}
  BY <1>1 DEF RunInv, CallFits
<1>3. Takes
  BY <1>1, <1>2, ExchangeTakes DEF RunnerExchange, RunInv, CallFits
<1>4. out[Runner] = NoOut /\ session'[Runner] = session[Runner]
  BY <1>1, <1>3 DEF SInv, Sober, Fits, Takes
<1>5. CASE Goes(call[Runner])
  <2>1. PICK y : y = call[Runner]
    OBVIOUS
  <2>2. y.op = "start" /\ y.made => Ours(y.key)
    BY <1>1, <2>1 DEF RunInv, CallFits
  <2>3. y.op = "start" /\ y.made => Ours(y.key)'
    BY <1>4, <2>2, OursStays
  <2>4. QED
    BY <1>1, <1>2, <1>4, <1>5, <2>1, <2>3 DEF RunInv, CallFits
<1>6. ASSUME call[Runner].op = "start", ~call[Runner].made, NEW k \in Key, Creates(k),
             Goes(Made(Runner, k))
      PROVE  \E y : /\ Goes(y) /\ y.op = call[Runner].op
                    /\ started => y.key = jobId /\ y.named > 0
                    /\ y.op = "start" /\ y.made => Ours(y.key)'
                    /\ Trouble = {} => y.clean
                    /\ \/ y.key = call[Runner].key /\ (y.made <=> call[Runner].made)
                       \/ ~call[Runner].made /\ y.made /\ fate'[y.key][1] = "active"
  <2>1. PICK y : /\ y = Made(Runner, k) /\ y.made /\ y.key = k
                 /\ y.op = call[Runner].op /\ y.clean = call[Runner].clean
    BY <1>6, MadeIs
  <2>2. Ours(k)'
    BY <1>4, <1>6 DEF Creates, Ours
  <2>3. QED
    BY <1>1, <1>6, <2>1, <2>2 DEF RunInv, CallFits, Creates
<1>7. QED
  BY <1>1, <1>2, <1>3, <1>4, <1>5, <1>6 DEF Takes

LEMMA ExchangeKeeps ==
  ASSUME IInv, IInv', SInv, Steady, RunInv, RunnerExchange
  PROVE  RunInv'
<1>1. PICK y : /\ Goes(y) /\ y.op = call[Runner].op
               /\ started => y.key = jobId /\ y.named > 0
               /\ y.op = "start" /\ y.made => Ours(y.key)'
               /\ Trouble = {} => y.clean
  BY ExchangeGoes
<1>2. /\ pc[Runner] # "idle" /\ stage # "killed" /\ asked = y.op
      /\ session'[Runner] = session[Runner] /\ out[Runner] = NoOut
      /\ UNCHANGED <<stage, running, asked, answer, started, result, delivered, jobId>>
  BY <1>1, ExchangeGoes DEF RunnerExchange, runVars
<1>3. started => Ours(jobId)'
  BY <1>2, OursStays DEF RunInv, Knows
<1>4. y.op \in IF started THEN {"status", "stop", "result"} ELSE {"start"}
  BY <1>1, <1>2 DEF RunInv, CallFits
<1>5. Placed'
  BY <1>2 DEF RunInv, Placed, R!RunnerTypeOK
<1>6. Knows'
  <2>1. stage # "exited" /\ ~(stage = "cleaning" /\ asked = "none")
    BY <1>2, <1>4 DEF RunInv, Placed
  <2>2. QED
    BY <1>2, <1>3, <2>1 DEF Knows, Ours
<1>7. CASE pc'[Runner] # "idle"
  <2>1. PICK x : x = call'[Runner] /\ Like(y, x) /\ out'[Runner] = NoOut
                 /\ (y.op = "start" => y.made)
    BY <1>1, <1>2, <1>7 DEF Goes
  <2>2. /\ x.op = y.op /\ x.key = y.key /\ x.named = y.named /\ (x.made <=> y.made)
        /\ Trouble = {} => x.clean
    BY <1>1, <2>1 DEF Like
  <2>3. Speaks'
    BY <2>1, Beginnings, SilentSpeaks
  <2>4. CallFits'
    <3>1. pc'[Runner] \in {"configure", "execute", "cleanup"} => x.op = "start"
      BY <2>1 DEF IInv, Calls, SoundCall, ShapeOf
    <3>2. QED
      BY <1>1, <1>2, <1>4, <1>7, <2>1, <2>2, <3>1 DEF CallFits, Ours
  <2>5. OutFits'
    BY <1>2, <1>4, <1>7, <2>1, Beginnings DEF RunInv, Placed, OutFits
  <2>6. QED
    BY <1>5, <1>6, <2>3, <2>4, <2>5 DEF RunInv
<1>8. CASE pc'[Runner] = "idle"
  <2>1. PICK o : /\ o = out'[Runner] /\ Like(y, o.call) /\ TrueReport(o.call, o.res)'
                 /\ call'[Runner] = NoCall
    BY <1>1, <1>8 DEF Goes, TrueReport
  <2>2. /\ o.call.op = y.op /\ o.call.key = y.key /\ o.call.named = y.named
        /\ (o.call.made <=> y.made)
        /\ Trouble = {} => o.call.clean
    BY <1>1, <2>1 DEF Like
  <2>3. Speaks'
    BY <1>1, <2>1, <2>2 DEF Speaks, Ours, TrueReport
  <2>4. CallFits'
    BY <1>8, <2>1 DEF CallFits
  <2>5. OutFits'
    BY <1>1, <1>2, <1>4, <2>1, <2>2 DEF RunInv, Placed, OutFits
  <2>6. QED
    BY <1>5, <1>6, <2>3, <2>4, <2>5 DEF RunInv
<1>9. QED
  BY <1>7, <1>8

LEMMA OthersKeep ==
  ASSUME IInv, IInv', SInv, Steady, RunInv, UNCHANGED runVars,
         session'[Runner] = session[Runner], pc'[Runner] = pc[Runner],
         call'[Runner] = call[Runner], out'[Runner] = out[Runner]
  PROVE  RunInv'
<1>1. UNCHANGED <<stage, running, asked, answer, started, result, delivered, jobId>>
  BY DEF runVars
<1>2. Speaks'
  BY SpeaksStays DEF RunInv, SInv
<1>3. PICK x, o, j : /\ x = call[Runner] /\ x = call'[Runner]
                     /\ o = out[Runner] /\ o = out'[Runner]
                     /\ j = jobId /\ j = jobId'
  BY <1>1
<1>4. CallFits'
  <2>1. pc[Runner] # "idle" /\ x.op = "start" /\ x.made => Ours(x.key)'
    BY <1>3, OursStays DEF RunInv, CallFits
  <2>2. QED
    BY <1>1, <1>3, <2>1 DEF RunInv, CallFits, Ours
<1>5. OutFits'
  BY <1>1, <1>3 DEF RunInv, OutFits
<1>6. Knows'
  <2>1. started => Ours(j)' /\ (fate[j][1] # "active" => fate'[j][1] # "active")
    BY <1>3, OursStays DEF RunInv, Knows
  <2>2. QED
    BY <1>1, <1>3, <2>1 DEF RunInv, Knows, Ours
<1>7. Placed'
  BY <1>1 DEF RunInv, Placed, R!RunnerTypeOK
<1>8. QED
  BY <1>2, <1>4, <1>5, <1>6, <1>7 DEF RunInv

(***************************************************************************)
(* The invariant of the run.                                               *)
(***************************************************************************)

LEMMA RunInitInv == RunInit => IInv /\ SInv /\ RunInv
<1> SUFFICES ASSUME RunInit PROVE RunInv
  BY InitInv, InitSober DEF RunInit
<1>1. pc[Runner] = "idle" /\ call[Runner] = NoCall /\ out[Runner] = NoOut
      /\ stage = "setup" /\ asked = "none" /\ ~started
  BY DEF RunInit, Init, R!RunnerInit
<1>2. Placed
  BY DEF RunInit, R!RunnerInit, Placed, R!RunnerTypeOK, R!Stage, R!Answer
<1>3. CallFits /\ OutFits /\ Knows
  BY <1>1, Beginnings DEF CallFits, OutFits, Knows
<1>4. Speaks
  BY <1>1, Beginnings DEF Speaks
<1>5. QED
  BY <1>2, <1>3, <1>4 DEF RunInv

LEMMA OthersStep ==
  ASSUME IInv, Others
  PROVE  /\ Next
         /\ session'[Runner] = session[Runner] /\ pc'[Runner] = pc[Runner]
         /\ call'[Runner] = call[Runner] /\ out'[Runner] = out[Runner]
BY OthersUntouched DEF Others, Daemon, Next

\* The run is a behaviour of the instances, and keeps its invariant.
LEMMA RunKeeps ==
  ASSUME IInv, SInv, RunInv, RunNext
  PROVE  IInv' /\ SInv' /\ Steady /\ RunInv'
<1>1. [Next]_vars
  BY RunnerStepKeeps, ReturnKeepsRun, OthersStep DEF RunNext, RunnerExchange, Next
<1>2. IInv' /\ SInv'
  BY <1>1, NextInv, NextSober
<1>3. Steady
  BY <1>1, <1>2, StepSober, SameBooks, CalmSteady DEF IInv, SInv, vars, srv
<1>4. RunInv'
  BY <1>2, <1>3, RunnerStepKeeps, ReturnKeepsRun, ExchangeKeeps, OthersStep, OthersKeep
     DEF RunNext, Others
<1>5. QED
  BY <1>2, <1>3, <1>4

LEMMA RunStutters ==
  ASSUME IInv, SInv, RunInv, UNCHANGED allVars
  PROVE  IInv' /\ SInv' /\ RunInv'
<1>1. UNCHANGED vars /\ UNCHANGED jobId /\ Same
  BY DEF allVars, vars, Same
<1>2. Placed'
  BY DEF RunInv, Placed, R!RunnerTypeOK, allVars
<1>3. QED
  BY <1>1, <1>2, NextInv, NextSober, StillKeeps

LEMMA RunInductive == RunSpec => [](IInv /\ SInv /\ RunInv)
<1>1. IInv /\ SInv /\ RunInv /\ [RunNext]_allVars => (IInv /\ SInv /\ RunInv)'
  BY RunKeeps, RunStutters
<1>2. QED
  BY <1>1, RunInitInv, PTL DEF RunSpec

(***************************************************************************)
(* The run's task, as the contract speaks of it.                           *)
(***************************************************************************)

\* The task of the run, and the task it is about to have.
LEMMA KeyIs ==
  ASSUME IInv, SInv, RunInv
  PROVE  /\ RunKey = NoKey \/ Ours(RunKey)
         /\ started => RunKey = jobId
         /\ RunJob = IF RunKey = NoKey THEN "none" ELSE fate[RunKey][1]
         /\ RunJob = "none" <=> RunKey = NoKey
<1>1. RunKey = NoKey \/ Ours(RunKey)
  <2>1. CASE started
    BY <2>1 DEF RunKey, RunInv, Knows
  <2>2. CASE ~started /\ call[Runner].op = "start" /\ call[Runner].made
    <3>1. pc[Runner] # "idle"
      BY <2>2, Beginnings DEF RunInv, CallFits
    <3>2. QED
      BY <2>2, <3>1 DEF RunKey, RunInv, CallFits
  <2>3. CASE ~started /\ ~(call[Runner].op = "start" /\ call[Runner].made)
    BY <2>3 DEF RunKey, RunInv, Speaks
  <2>4. QED
    BY <2>1, <2>2, <2>3
<1>2. started => RunKey = jobId
  BY DEF RunKey
<1>3. QED
  BY <1>1, <1>2 DEF RunJob, Ours

\* A step in which the run's task stays the same.
LEMMA JobProgress ==
  ASSUME IInv, SInv, RunInv, IInv', SInv', RunInv', Steady, session'[Runner] = session[Runner],
         RunKey' = RunKey
  PROVE  \/ RunJob' = RunJob
         \/ RunJob = "active" /\ RunJob' \in Terminal \cup {"dropped"}
<1>1. PICK k : k = RunKey /\ k = RunKey'
  OBVIOUS
<1>2. CASE k = NoKey
  BY <1>1, <1>2 DEF RunJob
<1>3. CASE Ours(k)
  <2>1. RunJob = fate[k][1] /\ RunJob' = fate'[k][1]
    BY <1>1, <1>3 DEF RunJob, Ours
  <2>2. QED
    BY <1>3, <2>1, OursStays
<1>4. QED
  BY <1>1, <1>2, <1>3, KeyIs

\* A step of the process leaves its task alone.
LEMMA StepJob ==
  ASSUME IInv, SInv, RunInv, RunnerStep
  PROVE  RunJob' = RunJob
<1>1. Same \/ Launches \/ Accepts \/ Leaves \/ Asks \/ Passes \/ Dies
  BY RunnerMoves DEF RunInv, RunnerStep
<1>2. CASE Same \/ Leaves \/ Passes \/ Dies \/ (Asks /\ asked' = "logs")
  <2>1. UNCHANGED vars /\ jobId' = jobId
    BY <1>2 DEF RunnerStep, Begin, Same, Leaves, Passes, Dies, Asks
  <2>2. started' <=> started
    BY <1>2 DEF Same, Leaves, Passes, Dies, Asks, RunInv, Placed
  <2>3. QED
    BY <2>1, <2>2 DEF RunJob, RunKey, vars
<1>3. CASE Asks /\ asked' # "logs"
  <2>1. started /\ started' /\ jobId' = jobId /\ UNCHANGED fate
    BY <1>3 DEF Asks, RunnerStep, Begin, Ask, Enter, srv
  <2>2. QED
    BY <2>1 DEF RunJob, RunKey
<1>4. CASE Launches
  <2>1. /\ stage = "setup" /\ ~started /\ ~started' /\ asked = "none" /\ asked' = "start"
        /\ call[Runner] = NoCall /\ out[Runner] = NoOut /\ pc[Runner] = "idle"
    BY <1>4 DEF Launches, RunInv, Placed, CallFits, OutFits
  <2>2. StartTaskCall(Runner) \/ RejectStart(Runner)
    BY <2>1 DEF RunnerStep, Begin
  <2>3. \/ call'[Runner] = Starting /\ out'[Runner] = NoOut
        \/ call'[Runner] = NoCall /\ out'[Runner].call = Starting
    BY <2>1, <2>2, RunnerTyped DEF StartTaskCall, RejectStart, Enter, ReturnFrom
  <2>4. RunKey = NoKey
    BY <2>1, Beginnings DEF RunKey
  <2>5. RunKey' = NoKey
    BY <2>1, <2>3, Beginnings DEF RunKey
  <2>6. QED
    BY <2>4, <2>5 DEF RunJob
<1>5. CASE Accepts
  <2>1. UNCHANGED vars /\ jobId' = jobId /\ started' /\ ~started /\ stage = "starting"
        /\ asked = "none" /\ answer = "Ok"
    BY <1>5 DEF RunnerStep, Begin, Accepts, RunInv, Placed
  <2>2. call[Runner] = NoCall /\ out[Runner].call.op = "start" /\ out[Runner].res = "Ok"
        /\ jobId = out[Runner].call.key
    BY <2>1 DEF RunInv, CallFits, OutFits
  <2>3. RunKey = jobId
    BY <2>1, <2>2, Beginnings DEF RunKey, RunInv, Speaks
  <2>4. RunKey' = jobId
    BY <2>1 DEF RunKey
  <2>5. QED
    BY <2>1, <2>3, <2>4 DEF RunJob, vars
<1>6. QED
  BY <1>1, <1>2, <1>3, <1>4, <1>5

\* A call that returns leaves the task alone: what it tells is so.
LEMMA ReturnJob ==
  ASSUME IInv, SInv, RunInv, CallReturns
  PROVE  RunJob' = RunJob /\ Contract!Answers
<1>1. /\ UNCHANGED vars /\ stage # "killed" /\ pc[Runner] = "idle" /\ started' = started
      /\ started => jobId' = jobId
  BY DEF CallReturns, R!Reply, At, RunInv, Placed, R!RunnerTypeOK, R!Stage
<1>2. RunJob' = RunJob
  BY <1>1 DEF RunJob, RunKey, vars
<1>3. \A op, a : R!Reply(op, a) => Contract!Reply(op, a)
  BY DEF R!Reply, Contract!Reply
<1>4. CASE \E a \in {"Ok", "Err"} : R!Reply("logs", a)
  BY <1>2, <1>3, <1>4 DEF Contract!Logs, Contract!Answers
<1>5. CASE asked = "start" /\ R!Reply("start", Reading("start", out[Runner].res))
  <2>1. ~started /\ out[Runner].call.op = "start" /\ call[Runner] = NoCall
    BY <1>1, <1>5 DEF RunInv, OutFits, CallFits, Placed, R!RunnerTypeOK, R!Stage
  <2>2. CASE out[Runner].res = "Ok"
    <3>1. RunKey = out[Runner].call.key /\ Ours(RunKey)
      BY <2>1, <2>2, Beginnings DEF RunKey, RunInv, Speaks
    <3>2. RunJob # "none"
      BY <3>1 DEF RunJob, Ours
    <3>3. R!Reply("start", "Ok")
      BY <1>5, <2>2 DEF Reading
    <3>4. QED
      BY <1>2, <1>3, <3>2, <3>3 DEF Contract!Start, Contract!Answers
  <2>3. CASE out[Runner].res # "Ok"
    <3>1. R!Reply("start", "Err")
      BY <1>5, <2>3 DEF Reading
    <3>2. QED
      BY <1>2, <1>3, <3>1 DEF Contract!Start, Contract!Answers
  <2>4. QED
    BY <2>2, <2>3
<1>6. ASSUME NEW op \in {"status", "result", "stop"}, asked = op,
             R!Reply(op, Reading(op, out[Runner].res))
      PROVE  Contract!Answers
  <2>1. PICK o : /\ o = out[Runner] /\ o.call.op = op /\ o.call.key = jobId /\ o.call.named > 0
                 /\ Contract!Reply(op, Reading(op, o.res))
    BY <1>1, <1>3, <1>6 DEF RunInv, OutFits
  <2>2. started
    BY <1>6 DEF RunInv, Placed
  <2>3. Ours(jobId) /\ RunJob = fate[jobId][1]
    BY <2>2, KeyIs DEF RunInv, Knows, Ours
  <2>4. CASE op = "status"
    <3>1. o.res \in Terminal => RunJob = o.res
      BY <2>1, <2>3, <2>4 DEF RunInv, Speaks, Ours
    <3>2. \/ o.res \in Terminal /\ Contract!Reply("status", o.res)
          \/ Contract!Reply("status", "Pending") \/ Contract!Reply("status", "Err")
      BY <2>1, <2>4 DEF Reading
    <3>3. QED
      BY <1>2, <3>1, <3>2 DEF Contract!Status, Contract!Answers, Contract!Verdict, Terminal
  <2>5. CASE op = "result"
    <3>1. o.res = "Ok" => RunJob = "Completed"
      BY <2>1, <2>3, <2>5 DEF RunInv, Speaks, Ours
    <3>2. \/ o.res = "Ok" /\ Contract!Reply("result", "Ok")
          \/ Contract!Reply("result", "Err")
      BY <2>1, <2>5 DEF Reading
    <3>3. QED
      BY <1>2, <3>1, <3>2 DEF Contract!Result, Contract!Answers
  <2>6. CASE op = "stop"
    <3>1. Tells(o.call, o.res) /\ o.call.named \in 0..MaxGen
      BY <2>1 DEF SInv, Sober, IInv, Calls, CallTypeOK, Call
    <3>2. o.res = "Ok" => RunJob # "active"
      BY <2>1, <2>3, <2>6, <3>1 DEF Tells, Settled, Ours
    <3>3. \/ o.res = "Ok" /\ Contract!Reply("stop", "Ok")
          \/ Contract!Reply("stop", "Err")
      BY <2>1, <2>6 DEF Reading
    <3>4. QED
      BY <1>2, <3>2, <3>3 DEF Contract!Stop, Contract!Answers
  <2>7. QED
    BY <2>4, <2>5, <2>6
<1>7. QED
  BY <1>2, <1>4, <1>5, <1>6 DEF CallReturns

\* An exchange begins the task, or leaves it, or sees it end.
LEMMA ExchangeJob ==
  ASSUME IInv, IInv', SInv, SInv', Steady, RunInv, RunInv', RunnerExchange
  PROVE  \/ RunJob' = RunJob
         \/ RunJob = "active" /\ RunJob' \in Terminal \cup {"dropped"}
         \/ asked = "start" /\ RunJob = "none" /\ RunJob' = "active"
<1>1. PICK y : /\ Goes(y) /\ y.op = call[Runner].op
               /\ y.op = "start" /\ y.made => Ours(y.key)'
               /\ \/ y.key = call[Runner].key /\ (y.made <=> call[Runner].made)
                  \/ ~call[Runner].made /\ y.made /\ fate'[y.key][1] = "active"
  BY ExchangeGoes
<1>2. /\ pc[Runner] # "idle" /\ asked = call[Runner].op /\ out[Runner] = NoOut
      /\ session'[Runner] = session[Runner] /\ started' = started /\ jobId' = jobId
  BY ExchangeGoes DEF RunnerExchange, runVars
<1>3. CASE started
  <2>1. RunKey' = RunKey
    BY <1>2, <1>3 DEF RunKey
  <2>2. QED
    BY <1>2, <2>1, JobProgress
<1>4. CASE ~started
  <2>1. y.op = "start" /\ asked = "start"
    BY <1>1, <1>2, <1>4 DEF RunInv, CallFits
  <2>2. RunKey = IF call[Runner].made THEN call[Runner].key ELSE NoKey
    BY <1>1, <1>2, <1>4, <2>1, Beginnings DEF RunKey
  <2>3. RunKey' = IF y.made THEN y.key ELSE NoKey
    <3>1. CASE pc'[Runner] # "idle"
      <4>1. PICK x : x = call'[Runner] /\ Like(y, x) /\ y.made
        BY <1>1, <2>1, <3>1 DEF Goes
      <4>2. x.op = "start" /\ x.made /\ x.key = y.key
        BY <2>1, <4>1 DEF Like
      <4>3. QED
        BY <1>2, <1>4, <4>1, <4>2 DEF RunKey
    <3>2. CASE pc'[Runner] = "idle"
      <4>1. PICK x : x = out'[Runner].call /\ Like(y, x) /\ call'[Runner] = NoCall
        BY <1>1, <3>2 DEF Goes
      <4>2. x.op = "start" /\ (x.made <=> y.made) /\ x.key = y.key
        BY <2>1, <4>1 DEF Like
      <4>3. QED
        BY <1>2, <1>4, <4>1, <4>2, Beginnings DEF RunKey
    <3>3. QED
      BY <3>1, <3>2
  <2>4. CASE y.key = call[Runner].key /\ (y.made <=> call[Runner].made)
    <3>1. RunKey' = RunKey
      BY <2>2, <2>3, <2>4
    <3>2. QED
      BY <1>2, <3>1, JobProgress
  <2>5. CASE ~call[Runner].made /\ y.made /\ fate'[y.key][1] = "active"
    <3>1. RunJob = "none"
      BY <2>2, <2>5 DEF RunJob
    <3>2. y.key # NoKey
      BY <1>1, <2>1, <2>5 DEF Ours
    <3>3. RunJob' = "active"
      BY <2>3, <2>5, <3>2 DEF RunJob
    <3>4. QED
      BY <2>1, <3>1, <3>3
  <2>6. QED
    BY <1>1, <2>4, <2>5
<1>5. QED
  BY <1>3, <1>4

(***************************************************************************)
(* The theorems.                                                           *)
(***************************************************************************)

\* The process is the one of the contract.
LEMMA SameProcess ==
  /\ R!RunnerNext => Contract!RunnerNext
  /\ R!RunnerInit => Contract!RunnerInit
<1> USE DEF R!Call, R!Returned, R!Move, R!Fail,
            Contract!Call, Contract!Returned, Contract!Move, Contract!Fail
<1>1. /\ R!Reject => Contract!Reject
      /\ R!Launch => Contract!Launch
      /\ R!Signal => Contract!Signal
      /\ R!Kill => Contract!Kill
  BY DEF R!Reject, R!Launch, R!Signal, R!Kill, R!Dead,
         Contract!Reject, Contract!Launch, Contract!Signal, Contract!Kill, Contract!Dead
<1>2. /\ R!StartRefused => Contract!StartRefused
      /\ R!StartAccepted => Contract!StartAccepted
      /\ R!NameTask => Contract!NameTask
      /\ R!Poll => Contract!Poll
      /\ R!Judge => Contract!Judge
  BY DEF R!StartRefused, R!StartAccepted, R!NameTask, R!Poll, R!Judge, Contract!StartRefused,
         Contract!StartAccepted, Contract!NameTask, Contract!Poll, Contract!Judge
<1>3. /\ R!Wake => Contract!Wake
      /\ R!Fetched => Contract!Fetched
      /\ R!WriteResult => Contract!WriteResult
      /\ R!Report => Contract!Report
      /\ R!Clean => Contract!Clean
  BY DEF R!Wake, R!Fetched, R!WriteResult, R!Report, R!Clean, Contract!Wake,
         Contract!Fetched, Contract!WriteResult, Contract!Report, Contract!Clean
<1>4. R!RunnerInit => Contract!RunnerInit
  BY DEF R!RunnerInit, Contract!RunnerInit
<1>5. QED
  BY <1>1, <1>2, <1>3, <1>4
     DEF R!RunnerNext, R!Proceed, Contract!RunnerNext, Contract!Proceed

LEMMA ContractStep ==
  ASSUME IInv, SInv, RunInv, RunNext
  PROVE  [Contract!Next]_(Contract!vars)
<1>1. IInv' /\ SInv' /\ Steady /\ RunInv'
  BY RunKeeps
<1>2. CASE RunnerStep
  BY <1>2, StepJob, SameProcess DEF Contract!Next, RunnerStep
<1>3. CASE CallReturns
  BY <1>3, ReturnJob DEF Contract!Next
<1>4. ASSUME UNCHANGED runVars,
             \/ RunJob' = RunJob
             \/ RunJob = "active" /\ RunJob' \in Terminal \cup {"dropped"}
             \/ asked = "start" /\ RunJob = "none" /\ RunJob' = "active"
      PROVE  [Contract!Next]_(Contract!vars)
  <2>1. UNCHANGED <<stage, running, asked, answer, started, result, delivered>>
    BY <1>4 DEF runVars
  <2>2. CASE RunJob' = RunJob
    BY <2>1, <2>2 DEF Contract!vars
  <2>3. CASE RunJob = "active" /\ RunJob' \in Terminal \cup {"dropped"}
    BY <2>1, <2>3 DEF Contract!Next, Contract!JobEnds, Contract!runner, Contract!Verdict, Terminal
  <2>4. CASE asked = "start" /\ RunJob = "none" /\ RunJob' = "active"
    BY <2>1, <2>4 DEF Contract!Next, Contract!JobBegins, Contract!runner
  <2>5. QED
    BY <1>4, <2>2, <2>3, <2>4
<1>5. CASE RunnerExchange
  <2>1. UNCHANGED runVars
    BY <1>5 DEF RunnerExchange
  <2>2. QED
    BY <1>1, <1>4, <1>5, <2>1, ExchangeJob
<1>6. CASE Others
  <2>1. UNCHANGED runVars /\ RunKey' = RunKey /\ session'[Runner] = session[Runner]
    BY <1>6, OthersStep DEF Others, runVars, RunKey
  <2>2. QED
    BY <1>1, <1>4, <2>1, JobProgress
<1>7. QED
  BY <1>2, <1>3, <1>5, <1>6 DEF RunNext

(* A run of the task runner on a Maestro Local resource keeps the contract  *)
(* of the trait QuantumResource, whatever the daemon, the other instances   *)
(* of the session and the network do between two exchanges of a call: a     *)
(* terminal status and a delivered result are the truth about the task of   *)
(* this run, and a task_stop that returns Ok left it not active             *)
(* (src/maestro/local.rs under src/bin/task_runner.rs).                     *)
THEOREM RunContractKept == RunSpec => RunKeepsContract
<1>1. RunInit => Contract!Init
  <2> SUFFICES ASSUME RunInit PROVE Contract!Init
    OBVIOUS
  <2>1. RunJob = "none"
    <3>1. call[Runner] = NoCall /\ out[Runner] = NoOut /\ ~started
      BY DEF RunInit, Init, R!RunnerInit
    <3>2. QED
      BY <3>1, Beginnings DEF RunJob, RunKey
  <2>2. QED
    BY <2>1, SameProcess DEF RunInit, Contract!Init
<1>2. IInv /\ SInv /\ RunInv /\ [RunNext]_allVars => [Contract!Next]_(Contract!vars)
  <2>1. UNCHANGED allVars => UNCHANGED (Contract!vars)
    BY DEF allVars, Contract!vars, RunJob, RunKey
  <2>2. QED
    BY <2>1, ContractStep
<1>3. QED
  BY <1>1, <1>2, RunInductive, PTL DEF RunSpec, RunKeepsContract, Contract!Spec

(* When every exchange is answered and no cancellation is refused, a run    *)
(* that ends on its own leaves no active task behind, not even one whose    *)
(* submission failed half-way (src/bin/task_runner.rs, src/maestro/local.rs *)
(* cleanup of a failed submission).                                         *)
THEOREM RunLeavesNothingAlways == RunSpec => []RunLeavesNothing
<1>1. IInv /\ SInv /\ RunInv => RunLeavesNothing
  <2> SUFFICES ASSUME IInv, SInv, RunInv, stage = "exited", Trouble = {}
               PROVE  RunJob # "active"
    BY DEF RunLeavesNothing
  <2>1. pc[Runner] = "idle" /\ call[Runner] = NoCall
    BY DEF RunInv, Placed, CallFits
  <2>2. CASE started
    BY <2>2, KeyIs DEF RunInv, Knows, Ours
  <2>3. CASE ~started /\ RunKey # NoKey
    <3>1. PICK o : o = out[Runner] /\ o.call.op = "start" /\ o.call.made /\ RunKey = o.call.key
      BY <2>1, <2>3, Beginnings DEF RunKey
    <3>2. o.call.clean /\ o.res # "Ok" /\ Tells(o.call, o.res)
      BY <2>3, <3>1 DEF RunInv, OutFits, Speaks, SInv, Sober
    <3>3. task[RunKey] \notin Active
      BY <3>1, <3>2 DEF Tells
    <3>4. Ours(RunKey) /\ Tidy(RunKey)
      BY <2>3, KeyIs DEF SInv, Books, Ours
    <3>5. fate[RunKey][1] # "active"
      BY <3>3, <3>4, FirstGen DEF Tidy
    <3>6. QED
      BY <2>3, <3>5 DEF RunJob
  <2>4. CASE RunKey = NoKey
    BY <2>4 DEF RunJob
  <2>5. QED
    BY <2>2, <2>3, <2>4
<1>2. QED
  BY <1>1, RunInductive, PTL
=============================================================================

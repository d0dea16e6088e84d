--------------------------- MODULE Vendors_proofs ---------------------------
(***************************************************************************)
(* Proofs about the vendors whose calls are plain sequences of requests:   *)
(* what the QuantumResource trait promises of tasks, for every set of      *)
(* tasks, of sessions and of troubles.                                     *)
(*                                                                         *)
(* A step of a vendor is one of a few kinds, whatever the vendor is: the   *)
(* server moves on, a call begins, goes on or returns.  What a kind of     *)
(* step keeps is proved once; each vendor's actions are shown to be steps  *)
(* of these kinds, with what its calls know of their tasks.                *)
(***************************************************************************)
EXTENDS Vendors, TLAPS

(***************************************************************************)
(* What the vendors share.                                                 *)
(***************************************************************************)

\* A call about a task names it.
Names(c) == c.op \in {"status", "stop", "result", "logs"} => c.id \in Jobs

\* A call is reported when it has returned, and not before.
Reported == IF pc = "idle" THEN call = NoCall ELSE out = NoOut

\* IQM Server and CUDA-Q tasks also answer for tasks that are not completed.
ResultOfCompleted ==
  (out.call.op = "result" /\ out.res = "Ok" /\ vendor \notin {"IQMServer", "PasqalCloud"})
    => job[out.call.id] = "Completed"

Contract ==
  /\ StartContract /\ OneJobPerStart /\ StopSettles /\ FinalStatusIsFinal
  /\ StatusAnswers /\ ResultOfCompleted

Common == CallTypeOK /\ Reported /\ Names(call) /\ Names(out.call) /\ Contract

\* The instance has no way to obtain a token.
Excused == vendor = "PasqalCloud" /\ (~creds \/ auth = "malformed")

-----------------------------------------------------------------------------
(* The kinds of steps. *)

\* No task begins, and one that has ended stays as it is.
Ripens ==
  /\ job' \in [Jobs -> JobState]
  /\ \A j \in Jobs : job[j] \notin Active =>
       job'[j] = job[j] \/ (job[j] = "cancelling" /\ job'[j] = "Cancelled")

Passes == Ripens /\ UNCHANGED <<pc, call, out>>

Begins ==
  /\ pc = "idle" /\ pc' # "idle" /\ out' = NoOut
  /\ call' \in Call /\ call'.made = 0 /\ Names(call')
  /\ UNCHANGED job

Continues ==
  /\ pc # "idle" /\ pc' # "idle" /\ UNCHANGED out
  /\ job' \in [Jobs -> JobState] /\ call' \in Call /\ Names(call')
  /\ "POST" \notin retries => call'.made <= 1

\* What the call reports is so.
Lawful(final, res) ==
  /\ final \in Call /\ res \in Result /\ Names(final)
  /\ job' \in [Jobs -> JobState]
  /\ "POST" \notin retries => final.made <= 1
  /\ final.op = "start" /\ res \in Refusal => final.made = 0
  /\ final.op = "stop" /\ res = "Ok" => job'[final.id] \notin Active
  /\ final.op = "status" /\ res \in Terminal =>
       job'[final.id] = res \/ (res = "Cancelled" /\ job'[final.id] = "cancelling")
  /\ final.op = "status" /\ final.met = {} /\ job'[final.id] # "absent" =>
       res \notin {"Other", "AuthenticationFailed", "TaskNotFound"} \/ Excused
  /\ final.op = "result" /\ res = "Ok" /\ vendor \notin {"IQMServer", "PasqalCloud"} =>
       job'[final.id] = "Completed"

Returns == \E final, res : ReturnFrom(final, res) /\ Lawful(final, res)

LEMMA NoCallType ==
  /\ NoCall \in Call /\ NoOut \in [call : Call, res : Result]
  /\ NoCall.op = "none" /\ NoCall.made = 0 /\ NoCall.met = {} /\ NoOut.call = NoCall
  /\ Names(NoCall)
  BY DEF NoCall, NoOut, Call, Op, Result, Names

\* A contract without a report to speak of.
LEMMA NothingReported ==
  ASSUME NoOut = out', call' \in Call, "POST" \notin retries' => call'.made <= 1
  PROVE  Contract' /\ Names(out'.call)
<1>1. out'.call.op = "none" /\ out'.call.made = 0 /\ out'.call = NoCall
  BY NoCallType
<1>2. OneJobPerStart'
  BY <1>1 DEF OneJobPerStart, Call
<1>3. QED
  BY <1>1, <1>2, NoCallType DEF Contract, StartContract, StopSettles, FinalStatusIsFinal,
         StatusAnswers, ResultOfCompleted

LEMMA CommonKept ==
  ASSUME Common, UNCHANGED <<vendor, retries>>, Excused => Excused',
         Passes \/ Begins \/ Continues \/ Returns
  PROVE  Common'
<1>1. CASE Passes
  <2>1. Names(out.call) /\ Contract
    BY DEF Common
  <2>2. StopSettles' /\ FinalStatusIsFinal' /\ StatusAnswers' /\ ResultOfCompleted'
    BY <1>1, <2>1 DEF Contract, Passes, Ripens, StopSettles, FinalStatusIsFinal, Names, Terminal,
           Active, StatusAnswers, ResultOfCompleted, Excused
  <2>3. QED
    BY <1>1, <2>1, <2>2 DEF Passes, Ripens, Common, CallTypeOK, Reported, Contract, Names,
                            StartContract, OneJobPerStart
<1>2. CASE Begins
  BY <1>2, NothingReported, NoCallType DEF Begins, Common, CallTypeOK, Reported, Names
<1>3. CASE Continues
  <2>1. out' = NoOut
    BY <1>3 DEF Continues, Common, Reported
  <2>2. QED
    BY <1>3, <2>1, NothingReported, NoCallType DEF Continues, Common, CallTypeOK, Reported, Names
<1>4. CASE Returns
  <2>1. PICK final, res : ReturnFrom(final, res) /\ Lawful(final, res)
    BY <1>4 DEF Returns
  <2>2. /\ pc' = "idle" /\ call' = NoCall
        /\ out' = [call |-> final, res |-> res] /\ out'.call = final /\ out'.res = res
        /\ final \in Call /\ res \in Result
    BY <2>1 DEF ReturnFrom, Lawful
  <2>3. OneJobPerStart'
    BY <2>1, <2>2, NoCallType DEF OneJobPerStart, Lawful, Call
  <2>4. StartContract' /\ StopSettles' /\ FinalStatusIsFinal' /\ StatusAnswers' /\ ResultOfCompleted'
    BY <2>1, <2>2 DEF Lawful, StartContract, StopSettles, FinalStatusIsFinal, StatusAnswers,
           ResultOfCompleted, Excused
  <2>5. CallTypeOK' /\ Reported' /\ Names(call)' /\ Names(out.call)'
    BY <2>1, <2>2, NoCallType DEF Lawful, CallTypeOK, Reported
  <2>6. QED
    BY <2>3, <2>4, <2>5 DEF Common, Contract
<1>5. QED
  BY <1>1, <1>2, <1>3, <1>4

-----------------------------------------------------------------------------
(* How calls move on. *)

Sane == Assumption /\ Common

LEMMA Words ==
  /\ Active = {"created", "queued", "running"} /\ Terminal = {"Completed", "Failed", "Cancelled"}
  /\ JobState = {"absent", "cancelling"} \cup Active \cup Terminal
  /\ Active \cap Terminal = {}
  BY DEF Active, Terminal, JobState

LEMMA MetType ==
  ASSUME Sane, NEW t \in AnyTrouble
  PROVE  /\ Met(t) \in Call /\ Met(t).op = call.op /\ Met(t).id = call.id /\ Met(t).ripe = call.ripe
         /\ Met(t).made = call.made /\ Met(t).met # {}
         /\ call \in Call /\ Names(call) => Names(Met(t))
  BY DEF Sane, Common, CallTypeOK, Met, Call, Names

LEMMA TroubleKnown == ASSUME Sane, NEW t \in Trouble PROVE t \in AnyTrouble
  BY DEF Sane, Assumption

\* Some trouble ends the call.
Troubled(res) == \E t \in AnyTrouble : ReturnFrom(Met(t), res)

LEMMA ReturnTroubledIs ==
  ASSUME Sane, NEW t, NEW res, ReturnTroubled(t, res)
  PROVE  Troubled(res)
  BY TroubleKnown DEF ReturnTroubled, Troubled

\* Fails, whatever may go wrong.
LEMMA TroubledReturns ==
  ASSUME Sane, NEW res \in Result \ ({"Ok"} \cup Terminal), Troubled(res), UNCHANGED job,
         "POST" \notin retries => call.made <= 1,
         call.op = "start" => call.made = 0 \/ res \notin Refusal
  PROVE  Returns /\ pc' = "idle" /\ out'.res # "Ok"
<1>1. PICK t \in AnyTrouble : ReturnFrom(Met(t), res)
  BY DEF Troubled
<1>2. Lawful(Met(t), res)
  BY MetType DEF Lawful, Sane, Common, CallTypeOK
<1>3. QED
  BY <1>1, <1>2 DEF Returns, ReturnFrom

LEMMA FailsReturns ==
  ASSUME Sane, NEW kinds \in SUBSET (Result \ ({"Ok"} \cup Terminal)), Fails(kinds),
         "POST" \notin retries => call.made <= 1,
         call.op = "start" => call.made = 0 \/ kinds \cap Refusal = {}
  PROVE  Returns /\ pc' = "idle" /\ job' = job /\ out'.res # "Ok"
<1>1. PICK res \in kinds : ReturnTroubled("failed", res)
  BY DEF Fails
<1>2. Troubled(res) /\ job' = job
  BY <1>1, ReturnTroubledIs DEF Fails
<1>3. QED
  BY <1>2, TroubledReturns

LEMMA RefuseReturns ==
  ASSUME Sane, NEW begun \in Call, NEW kinds \in SUBSET (Result \ ({"Ok"} \cup Terminal)),
         begun.op \in {"start", "release"}, begun.made = 0, Refuse(begun, kinds)
  PROVE  Returns /\ pc' = "idle" /\ job' = job /\ out'.call.op # "result"
<1>1. PICK res \in kinds : ReturnFrom(begun, res) /\ job' = job
  BY DEF Refuse
<1>2. Lawful(begun, res)
  BY <1>1 DEF Lawful, Sane, Common, CallTypeOK, Names
<1>3. QED
  BY <1>1, <1>2 DEF Returns, ReturnFrom

LEMMA StartingType ==
  /\ Starting \in Call /\ Starting.op = "start" /\ Starting.made = 0
  /\ \A op \in Op : /\ [NoCall EXCEPT !.op = op] \in Call
                    /\ [NoCall EXCEPT !.op = op].op = op /\ [NoCall EXCEPT !.op = op].made = 0
<1>1. ASSUME NEW op \in Op
      PROVE  /\ [NoCall EXCEPT !.op = op] \in Call
             /\ [NoCall EXCEPT !.op = op].op = op /\ [NoCall EXCEPT !.op = op].made = 0
  BY NoCallType DEF Call
<1>2. QED
  BY <1>1 DEF Starting, Op

LEMMA AboutType ==
  ASSUME NEW op \in Op, NEW j \in Jobs
  PROVE  /\ About(op, j) \in Call /\ About(op, j).op = op /\ About(op, j).id = j
         /\ About(op, j).made = 0 /\ About(op, j).met = {}
         /\ About(op, j).ripe <=> job[j] = "Completed"
<1>1. ASSUME NEW ripe \in BOOLEAN, NEW begun,
             begun = [NoCall EXCEPT !.op = op, !.id = j, !.ripe = ripe]
      PROVE  /\ begun \in Call /\ begun.op = op /\ begun.id = j
             /\ begun.made = 0 /\ begun.met = {} /\ begun.ripe = ripe
  BY <1>1, NoCallType DEF Call
<1>2. (job[j] = "Completed") \in BOOLEAN
  OBVIOUS
<1>3. QED
  BY <1>1, <1>2 DEF About

LEMMA BeginBegins ==
  ASSUME Sane, NEW step, step # "idle", NEW begun \in Call, begun.made = 0, Names(begun),
         Begin(step, begun)
  PROVE  Begins /\ pc' = step /\ call' = begun /\ job' = job
  BY DEF Begins, Begin

LEMMA BeginAboutBegins ==
  ASSUME Sane, NEW step, step # "idle", NEW op \in Op, BeginAbout(op, step)
  PROVE  /\ Begins /\ pc' = step /\ call'.op = op /\ job' = job
         /\ call'.id \in Jobs /\ call'.met = {}
         /\ call'.ripe <=> job[call'.id] = "Completed"
<1>1. PICK j \in Jobs : Begin(step, About(op, j))
  BY DEF BeginAbout
<1>2. Names(About(op, j))
  BY AboutType DEF Names
<1>3. call' = About(op, j) /\ Begins /\ pc' = step /\ job' = job
  BY <1>1, <1>2, AboutType, BeginBegins
<1>4. QED
  BY <1>3, AboutType

\* The call with the task that the server made for it.
MadeFor(j, made) == made = [call EXCEPT !.id = j, !.made = @ + 1]

LEMMA MadeType ==
  ASSUME Sane, NEW j \in Jobs, call.made <= 1, NEW made, MadeFor(j, made)
  PROVE  /\ made \in Call /\ made.op = call.op /\ made.id = j /\ made.made = call.made + 1
         /\ \A t, lost : t \in AnyTrouble /\ lost = [made EXCEPT !.met = @ \cup {t}] =>
              /\ lost \in Call /\ lost.op = call.op /\ lost.id = j /\ lost.made = call.made + 1
              /\ lost.met # {}
<1>1. call \in Call /\ call.made + 1 \in 0..2
  BY DEF Sane, Common, CallTypeOK, Call
<1>2. made \in Call /\ made.op = call.op /\ made.id = j /\ made.made = call.made + 1
  BY <1>1 DEF Call, MadeFor
<1>3. ASSUME NEW t \in AnyTrouble, NEW lost, lost = [made EXCEPT !.met = @ \cup {t}]
      PROVE  /\ lost \in Call /\ lost.op = call.op /\ lost.id = j /\ lost.made = call.made + 1
             /\ lost.met # {}
  BY <1>2, <1>3 DEF Call
<1>4. QED
  BY <1>2, <1>3

\* The reply of a submission is received, or lost.
LEMMA MadeReturns ==
  ASSUME Sane, call.op = "start", call.made <= 1, "POST" \notin retries => call.made = 0,
         NEW j \in Jobs, NEW made, MadeFor(j, made), job' \in [Jobs -> JobState],
         \/ ReturnFrom(made, "Ok")
         \/ ReturnFrom([made EXCEPT !.met = @ \cup {"lost"}], "Other")
  PROVE  Returns /\ pc' = "idle" /\ out'.call.op = "start"
<1>1. "lost" \in AnyTrouble
  BY DEF AnyTrouble
<1>2. PICK lost : lost = [made EXCEPT !.met = @ \cup {"lost"}]
  OBVIOUS
<1>3. PICK final \in {made, lost}, res \in {"Ok", "Other"} : ReturnFrom(final, res)
  BY <1>2
<1>4. final \in Call /\ final.op = "start" /\ final.made = call.made + 1
  BY <1>1, <1>2, <1>3, MadeType
<1>5. call.made \in 0..2 /\ res \in Result /\ res \notin Refusal
  BY <1>3 DEF Sane, Common, CallTypeOK, Call, Result, Refusal
<1>6. Lawful(final, res)
  BY <1>4, <1>5 DEF Lawful, Names
<1>7. QED
  BY <1>3, <1>4, <1>6 DEF Returns, ReturnFrom

LEMMA SubmitReturns ==
  ASSUME Sane, call.op = "start", call.made <= 1, "POST" \notin retries => call.made = 0,
         NEW j \in Jobs, NEW made, MadeFor(j, made), ReturnsOk(made) \/ LosesReply(made),
         job' \in [Jobs -> JobState]
  PROVE  Returns /\ pc' = "idle" /\ out'.call.op = "start"
  BY MadeReturns DEF ReturnsOk, LosesReply

\* The cancellation is obeyed, or declined.
LEMMA CancelReturns ==
  ASSUME Sane, call.op = "stop", "POST" \notin retries => call.made <= 1,
         NEW st \in {"cancelling", "Cancelled"},
         NEW kinds \in SUBSET (Result \ ({"Ok"} \cup Terminal)),
         \/ job' = [job EXCEPT ![call.id] = st] /\ (Return("Ok") \/ Troubled("Other"))
         \/ job' = job /\ \E res \in kinds : Return(res)
  PROVE  /\ Returns /\ pc' = "idle" /\ out'.call.op = "stop"
         /\ job' = job \/ job' = [job EXCEPT ![call.id] = st]
<1>1. call \in Call /\ call.id \in Jobs /\ Names(call) /\ job \in [Jobs -> JobState]
  BY DEF Sane, Common, CallTypeOK, Names
<1>2. CASE job' = [job EXCEPT ![call.id] = st] /\ Return("Ok")
  <2>1. Lawful(call, "Ok")
    BY <1>1, <1>2, Words DEF Lawful, Result, Terminal
  <2>2. QED
    BY <1>2, <2>1 DEF Returns, Return, ReturnFrom
<1>3. CASE job' = [job EXCEPT ![call.id] = st] /\ Troubled("Other")
  <2>1. PICK t \in AnyTrouble : ReturnFrom(Met(t), "Other")
    BY <1>3 DEF Troubled
  <2>2. Lawful(Met(t), "Other")
    BY <1>1, <1>3, Words, MetType DEF Lawful, Result, Terminal
  <2>3. QED
    BY <1>3, <2>1, <2>2, MetType DEF Returns, ReturnFrom
<1>4. CASE job' = job /\ \E res \in kinds : Return(res)
  <2>1. PICK res \in kinds : ReturnFrom(call, res)
    BY <1>4 DEF Return
  <2>2. Lawful(call, res)
    BY <1>1, <1>4 DEF Lawful
  <2>3. QED
    BY <1>4, <2>1, <2>2 DEF Returns, ReturnFrom
<1>5. QED
  BY <1>2, <1>3, <1>4

LEMMA CancelsReturns ==
  ASSUME Sane, call.op = "stop", "POST" \notin retries => call.made <= 1,
         NEW st \in {"cancelling", "Cancelled"},
         NEW kinds \in SUBSET (Result \ ({"Ok"} \cup Terminal)), Cancels(st, kinds)
  PROVE  /\ Returns /\ pc' = "idle" /\ out'.call.op = "stop"
         /\ job' = job \/ job' = [job EXCEPT ![call.id] = st]
  BY CancelReturns, ReturnTroubledIs DEF Cancels

\* The call returns as it is.
LEMMA PlainReturns ==
  ASSUME Sane, NEW res, Return(res), Lawful(call, res)
  PROVE  Returns /\ pc' = "idle" /\ out' = [call |-> call, res |-> res]
  BY DEF Returns, Return, ReturnFrom

LEMMA ProgressPasses ==
  ASSUME Sane, NEW moves, Progress(moves),
         \A m \in moves : m[1] \in Active \/ (m[1] = "cancelling" /\ m[2] = "Cancelled")
  PROVE  /\ Passes
         /\ \E j \in Jobs, st \in JobState : <<job[j], st>> \in moves /\ job' = [job EXCEPT ![j] = st]
<1>1. PICK j \in Jobs, st \in JobState : <<job[j], st>> \in moves /\ job' = [job EXCEPT ![j] = st]
  BY DEF Progress
<1>2. job \in [Jobs -> JobState]
  BY DEF Sane, Common, CallTypeOK
<1>3. Ripens
  <2>1. <<job[j], st>>[1] = job[j] /\ <<job[j], st>>[2] = st
    OBVIOUS
  <2>2. QED
    BY <1>1, <1>2, <2>1 DEF Ripens
<1>4. QED
  BY <1>1, <1>3 DEF Passes, Progress

(***************************************************************************)
(* Alice & Bob Felis                                                       *)
(***************************************************************************)

LEMMA FelisWords ==
  /\ F!Active = Active /\ F!Terminal = Terminal /\ F!JobState = JobState
  /\ F!NoCall = NoCall /\ F!NoOut = NoOut /\ F!Starting = Starting
  /\ F!CallTypeOK = CallTypeOK /\ F!Moves = Moves
  BY DEF F!Active, Active, F!Terminal, Terminal, F!JobState, JobState, F!Call, Call,
         F!Op, Op, F!AnyTrouble, AnyTrouble, F!NoCall, NoCall, F!NoOut, NoOut,
         F!Refusal, Refusal, F!Result, Result, F!CallTypeOK, CallTypeOK,
         F!Starting, Starting, F!Moves, Moves

\* Felis extends VendorCall: its calls move on as those of the vendors do.
LEMMA FelisCalls ==
  /\ \A final, res : F!ReturnFrom(final, res) = ReturnFrom(final, res)
  /\ \A res : F!Return(res) = Return(res)
  /\ \A step : F!Goto(step) = Goto(step)
  /\ \A t, res : F!ReturnTroubled(t, res) = ReturnTroubled(t, res)
  /\ \A kinds : F!Fails(kinds) = Fails(kinds)
  /\ \A step, begun : F!Begin(step, begun) = Begin(step, begun)
  /\ \A op, step : F!BeginAbout(op, step) = BeginAbout(op, step)
  /\ \A begun, kinds : F!Refuse(begun, kinds) = Refuse(begun, kinds)
  /\ \A kinds : F!Reject(kinds) = Reject(kinds)
  /\ \A st, kinds : F!Cancels(st, kinds) = Cancels(st, kinds)
  /\ \A moves : F!Progress(moves) = Progress(moves)
  BY FelisWords
  DEF F!ReturnFrom, ReturnFrom, F!Return, Return, F!Goto, Goto, F!Met, Met,
      F!ReturnTroubled, ReturnTroubled, F!Fails, Fails, F!Begin, Begin,
      F!BeginAbout, BeginAbout, F!About, About, F!Refuse, Refuse, F!Reject, Reject,
      F!Cancels, Cancels, F!Progress, Progress

\* What a call knows while it is under way.
FelisKnows ==
  /\ pc \in {"idle", "create_job", "upload_input", "get_job", "cancel_job", "download_output"}
  /\ \A j \in Jobs : job[j] # "cancelling"
  /\ pc = "create_job" => call.op = "start" /\ call.made = 0
  /\ pc = "upload_input" => call.op = "start" /\ call.made = 1 /\ call.id \in Jobs
  /\ pc = "get_job" => call.op \in {"status", "stop"}
  /\ pc = "cancel_job" => call.op = "stop" /\ call.made = 0
  /\ pc = "download_output" => call.op = "result"
  /\ pc \notin {"idle", "upload_input"} => call.made = 0

FelisSane == vendor = "AliceBobFelis" /\ Sane /\ FelisKnows
FelisStep == (Passes \/ Begins \/ Continues \/ Returns) /\ FelisKnows'

\* A call that has returned knows nothing.
LEMMA FelisRests ==
  ASSUME FelisSane, Returns, job' \in [Jobs -> JobState], \A j \in Jobs : job'[j] # "cancelling"
  PROVE  FelisStep
<1>1. pc' = "idle" /\ call' = NoCall
  BY DEF Returns, ReturnFrom
<1>2. QED
  BY <1>1, NoCallType DEF FelisStep, FelisKnows

LEMMA FelisBegins ==
  ASSUME FelisSane, Begins, pc' \in {"create_job", "get_job", "download_output"},
         pc' = "create_job" => call'.op = "start",
         pc' = "get_job" => call'.op \in {"status", "stop"},
         pc' = "download_output" => call'.op = "result"
  PROVE  FelisStep
  BY DEF FelisStep, FelisKnows, FelisSane, Begins

LEMMA FelisProgress == ASSUME FelisSane, F!Progress(F!FelisMoves) PROVE FelisStep
<1>1. /\ Passes
      /\ \E j \in Jobs, st \in JobState :
           <<job[j], st>> \in F!FelisMoves /\ job' = [job EXCEPT ![j] = st]
  <2>1. Progress(F!FelisMoves)
    BY FelisCalls
  <2>2. \A m \in F!FelisMoves : m[1] \in Active
    BY FelisWords, Words DEF F!FelisMoves, Moves
  <2>3. QED
    BY <2>1, <2>2, ProgressPasses DEF FelisSane
<1>2. job \in [Jobs -> JobState] /\ call \in Call /\ out \in [call : Call, res : Result]
  BY DEF FelisSane, Sane, Common, CallTypeOK
<1>3. PICK j \in Jobs, st \in JobState :
        <<job[j], st>> \in F!FelisMoves /\ job' = [job EXCEPT ![j] = st]
  BY <1>1
<1>4. st # "cancelling"
  BY <1>3, FelisWords DEF F!FelisMoves, Moves
<1>5. FelisKnows'
  BY <1>1, <1>2, <1>3, <1>4 DEF FelisKnows, FelisSane, Passes, Ripens
<1>6. QED
  BY <1>1, <1>5 DEF FelisStep

LEMMA FelisBeginning ==
  ASSUME FelisSane, F!RejectStart \/ F!TaskStart \/ F!TaskStatus \/ F!TaskStop \/ F!TaskResult
  PROVE  FelisStep
<1>1. CASE F!RejectStart
  <2>1. Refuse(Starting, {"UnsupportedPayload", "InvalidInput"})
    BY <1>1, FelisCalls DEF F!RejectStart, Reject
  <2>2. {"UnsupportedPayload", "InvalidInput"} \in SUBSET (Result \ ({"Ok"} \cup Terminal))
    BY DEF Result, Refusal, Terminal
  <2>3. Returns /\ job' = job
    BY <2>1, <2>2, StartingType, RefuseReturns DEF FelisSane
  <2>4. QED
    BY <2>3, FelisRests DEF FelisSane, Sane, Common, CallTypeOK, FelisKnows
<1>2. CASE F!TaskStart
  <2>1. Begin("create_job", Starting)
    BY <1>2, FelisCalls, FelisWords DEF F!TaskStart
  <2>2. Begins /\ pc' = "create_job" /\ call' = Starting
    BY <2>1, StartingType, BeginBegins DEF FelisSane, Names
  <2>3. QED
    BY <2>2, StartingType, FelisBegins
<1>3. CASE F!TaskStatus \/ F!TaskStop \/ F!TaskResult
  <2>1. PICK op \in {"status", "stop", "result"}, step \in {"get_job", "download_output"} :
          BeginAbout(op, step) /\ (step = "download_output" <=> op = "result")
    BY <1>3, FelisCalls DEF F!TaskStatus, F!TaskStop, F!TaskResult
  <2>2. Begins /\ pc' = step /\ call'.op = op
    BY <2>1, BeginAboutBegins DEF FelisSane, Op
  <2>3. QED
    BY <2>1, <2>2, FelisBegins
<1>4. QED
  BY <1>1, <1>2, <1>3

LEMMA FelisKinds ==
  F!FailureKinds \cup {"ResourceNotFound", "TaskNotFound"} \in SUBSET (Result \ ({"Ok"} \cup Terminal))
  BY DEF F!FailureKinds, Result, Refusal, Terminal

LEMMA FelisFails ==
  ASSUME FelisSane, pc # "idle", pc # "upload_input",
         F!Fails(F!FailureKinds) \/ F!Fails(F!FailureKinds \cup {"ResourceNotFound"})
  PROVE  FelisStep
<1>1. PICK kinds \in SUBSET (F!FailureKinds \cup {"ResourceNotFound", "TaskNotFound"}) : Fails(kinds)
  BY FelisCalls
<1>2. call.made = 0 /\ job \in [Jobs -> JobState] /\ \A j \in Jobs : job[j] # "cancelling"
  BY DEF FelisSane, FelisKnows, Sane, Common, CallTypeOK
<1>3. Returns /\ job' = job
  BY <1>1, <1>2, FelisKinds, FailsReturns DEF FelisSane
<1>4. QED
  BY <1>2, <1>3, FelisRests

LEMMA FelisCreateJob == ASSUME FelisSane, F!CreateJob PROVE FelisStep
<1>1. /\ pc = "create_job" /\ call.op = "start" /\ call.made = 0
      /\ call \in Call /\ job \in [Jobs -> JobState] /\ \A j \in Jobs : job[j] # "cancelling"
  BY DEF F!CreateJob, FelisSane, FelisKnows, Sane, Common, CallTypeOK
<1>2. CASE F!Fails(F!FailureKinds \cup {"ResourceNotFound"})
  BY <1>1, <1>2, FelisFails
<1>3. CASE F!Creates("created", F!GoesOn) \/ F!Creates("created", F!LosesReply)
  <2>1. PICK j, made :
          /\ j \in Jobs
          /\ job' = [job EXCEPT ![j] = "created"]
          /\ MadeFor(j, made)
          /\ F!GoesOn(made) \/ LosesReply(made)
    BY <1>3, FelisCalls DEF F!Creates, F!LosesReply, LosesReply, MadeFor
  <2>2. job' \in [Jobs -> JobState] /\ \A i \in Jobs : job'[i] # "cancelling"
    BY <1>1, <2>1 DEF JobState, Active
  <2>3. made \in Call /\ made.op = "start" /\ made.id = j /\ made.made = 1
    BY <1>1, <2>1, MadeType DEF FelisSane
  <2>4. CASE F!GoesOn(made)
    <3>1. pc' = "upload_input" /\ UNCHANGED out /\ call' = made
      BY <2>4 DEF F!GoesOn
    <3>2. Continues
      BY <1>1, <2>2, <2>3, <3>1 DEF Continues, Names
    <3>3. QED
      BY <2>1, <2>2, <2>3, <3>1, <3>2 DEF FelisStep, FelisKnows
  <2>5. CASE LosesReply(made)
    <3>1. Returns
      BY <1>1, <2>1, <2>2, <2>5, SubmitReturns DEF FelisSane
    <3>2. QED
      BY <2>2, <3>1, FelisRests
  <2>6. QED
    BY <2>1, <2>4, <2>5
<1>4. QED
  BY <1>2, <1>3 DEF F!CreateJob

LEMMA FelisUploadInput == ASSUME FelisSane, F!UploadInput PROVE FelisStep
<1>1. /\ pc = "upload_input" /\ call.op = "start" /\ call.made = 1 /\ call.id \in Jobs
      /\ call \in Call /\ job \in [Jobs -> JobState] /\ \A j \in Jobs : job[j] # "cancelling"
  BY DEF F!UploadInput, FelisSane, FelisKnows, Sane, Common, CallTypeOK
<1>2. CASE /\ job' = [job EXCEPT ![call.id] = "queued"]
           /\ F!Return("Ok") \/ F!ReturnTroubled("lost", "Other")
  <2>1. job' \in [Jobs -> JobState] /\ \A i \in Jobs : job'[i] # "cancelling"
    BY <1>1, <1>2 DEF JobState, Active
  <2>2. PICK final \in Call, res \in {"Ok", "Other"} : ReturnFrom(final, res)
          /\ final.op = "start" /\ final.made = 1
    BY <1>1, <1>2, FelisCalls, MetType, TroubleKnown DEF Return, ReturnTroubled, FelisSane
  <2>3. Lawful(final, res)
    BY <2>1, <2>2 DEF Lawful, Names, Result, Refusal
  <2>4. QED
    BY <2>1, <2>2, <2>3, FelisRests DEF Returns
<1>3. CASE UNCHANGED job /\ \E res \in F!UploadFailureKinds : F!Return(res)
  <2>1. Return("Other")
    BY <1>3, FelisCalls DEF F!UploadFailureKinds
  <2>2. Lawful(call, "Other")
    BY <1>1, <1>3 DEF Lawful, Names, Result, Refusal
  <2>3. QED
    BY <1>1, <1>3, <2>1, <2>2, PlainReturns, FelisRests DEF FelisSane
<1>4. CASE F!Fails(F!UploadFailureKinds)
  <2>1. Fails({"Other"}) /\ {"Other"} \in SUBSET (Result \ ({"Ok"} \cup Terminal))
    BY <1>4, FelisCalls DEF F!UploadFailureKinds, Result, Terminal
  <2>2. Returns /\ job' = job
    BY <1>1, <2>1, FailsReturns DEF FelisSane, Refusal
  <2>3. QED
    BY <1>1, <2>2, FelisRests
<1>5. QED
  BY <1>2, <1>3, <1>4 DEF F!UploadInput

LEMMA FelisGetJob == ASSUME FelisSane, F!GetJob PROVE FelisStep
<1>1. /\ pc = "get_job" /\ call.op \in {"status", "stop"} /\ call.made = 0 /\ call.id \in Jobs
      /\ call \in Call /\ job \in [Jobs -> JobState] /\ \A j \in Jobs : job[j] # "cancelling"
  BY DEF F!GetJob, FelisSane, FelisKnows, Sane, Common, CallTypeOK, Names
<1>2. CASE F!Fails(F!FailureKinds)
  BY <1>1, <1>2, FelisFails
<1>3. CASE job[call.id] = "absent" /\ UNCHANGED job /\ Return("TaskNotFound")
  <2>1. Lawful(call, "TaskNotFound")
    BY <1>1, <1>3 DEF Lawful, Names, Result, Refusal, Terminal
  <2>2. QED
    BY <1>1, <1>3, <2>1, PlainReturns, FelisRests DEF FelisSane
<1>4. CASE /\ job[call.id] # "absent" /\ UNCHANGED job /\ call.op = "status"
           /\ Return(F!StatusOf(job[call.id]))
  <2>1. F!StatusOf(job[call.id]) \in {"Queued", "Running"} \cup Terminal
        /\ (F!StatusOf(job[call.id]) \in Terminal => F!StatusOf(job[call.id]) = job[call.id])
    <3>1. job[call.id] \in Active \cup Terminal
      BY <1>1, <1>4 DEF JobState
    <3>2. QED
      BY <3>1, FelisWords DEF F!StatusOf, Active, Terminal
  <2>2. Lawful(call, F!StatusOf(job[call.id]))
    BY <1>1, <1>4, <2>1 DEF Lawful, Names, Result, Terminal
  <2>3. QED
    BY <1>1, <1>4, <2>2, PlainReturns, FelisRests DEF FelisSane
<1>5. CASE /\ UNCHANGED job /\ call.op = "stop"
           /\ job[call.id] \in {"Completed", "Cancelled"} /\ Return("Ok")
  <2>1. Lawful(call, "Ok")
    BY <1>1, <1>5 DEF Lawful, Names, Result, Active, Terminal
  <2>2. QED
    BY <1>1, <1>5, <2>1, PlainReturns, FelisRests DEF FelisSane
<1>6. CASE UNCHANGED job /\ call.op = "stop" /\ Goto("cancel_job")
  BY <1>1, <1>6 DEF Goto, FelisStep, Continues, Names, FelisKnows
<1>7. QED
  BY <1>1, <1>2, <1>3, <1>4, <1>5, <1>6, FelisCalls DEF F!GetJob, F!Gets, F!MustCancel

LEMMA FelisCancelJob == ASSUME FelisSane, F!CancelJob PROVE FelisStep
<1>1. /\ pc = "cancel_job" /\ call.op = "stop" /\ call.made = 0 /\ call.id \in Jobs
      /\ job \in [Jobs -> JobState] /\ \A j \in Jobs : job[j] # "cancelling"
  BY DEF F!CancelJob, FelisSane, FelisKnows, Sane, Common, CallTypeOK, Names
<1>2. CASE F!Cancels("Cancelled", F!FailureKinds)
  <2>1. Returns /\ (job' = job \/ job' = [job EXCEPT ![call.id] = "Cancelled"])
    BY <1>1, <1>2, FelisCalls, FelisKinds, CancelsReturns DEF FelisSane
  <2>2. job' \in [Jobs -> JobState] /\ \A i \in Jobs : job'[i] # "cancelling"
    BY <1>1, <2>1 DEF JobState, Terminal
  <2>3. QED
    BY <2>1, <2>2, FelisRests
<1>3. CASE F!Fails(F!FailureKinds)
  BY <1>1, <1>3, FelisFails
<1>4. QED
  BY <1>2, <1>3 DEF F!CancelJob

LEMMA FelisDownloadOutput == ASSUME FelisSane, F!DownloadOutput PROVE FelisStep
<1>1. /\ pc = "download_output" /\ call.op = "result" /\ call.made = 0 /\ call.id \in Jobs
      /\ call \in Call /\ job \in [Jobs -> JobState] /\ \A j \in Jobs : job[j] # "cancelling"
  BY DEF F!DownloadOutput, FelisSane, FelisKnows, Sane, Common, CallTypeOK, Names
<1>2. CASE F!Fails(F!FailureKinds)
  BY <1>1, <1>2, FelisFails
<1>3. CASE /\ UNCHANGED job
           /\ \E res \in {"Ok", "InvalidInput", "TaskNotFound", "Other"} :
                Return(res) /\ (res = "Ok" => job[call.id] = "Completed")
  <2>1. PICK res \in {"Ok", "InvalidInput", "TaskNotFound", "Other"} :
          Return(res) /\ (res = "Ok" => job[call.id] = "Completed")
    BY <1>3
  <2>2. Lawful(call, res)
    BY <1>1, <1>3, <2>1 DEF Lawful, Names, Result, Refusal
  <2>3. QED
    BY <1>1, <1>3, <2>1, <2>2, PlainReturns, FelisRests DEF FelisSane
<1>4. QED
  BY <1>2, <1>3, FelisCalls DEF F!DownloadOutput, F!Gets

LEMMA FelisNext == ASSUME FelisSane, F!Next PROVE FelisStep
  BY FelisProgress, FelisBeginning, FelisCreateJob, FelisUploadInput, FelisGetJob,
     FelisCancelJob, FelisDownloadOutput DEF F!Next

(***************************************************************************)
(* IQM Server                                                              *)
(***************************************************************************)

LEMMA IqmWords ==
  /\ I!Active = Active /\ I!Terminal = Terminal /\ I!JobState = JobState
  /\ I!NoCall = NoCall /\ I!NoOut = NoOut /\ I!Starting = Starting
  /\ I!CallTypeOK = CallTypeOK /\ I!Moves = Moves
  BY DEF I!Active, Active, I!Terminal, Terminal, I!JobState, JobState, I!Call, Call,
         I!Op, Op, I!AnyTrouble, AnyTrouble, I!NoCall, NoCall, I!NoOut, NoOut,
         I!Refusal, Refusal, I!Result, Result, I!CallTypeOK, CallTypeOK,
         I!Starting, Starting, I!Moves, Moves

LEMMA IqmCalls ==
  /\ \A final, res : I!ReturnFrom(final, res) = ReturnFrom(final, res)
  /\ \A res : I!Return(res) = Return(res)
  /\ \A step : I!Goto(step) = Goto(step)
  /\ \A t : I!Met(t) = Met(t)
  /\ \A t, res : I!ReturnTroubled(t, res) = ReturnTroubled(t, res)
  /\ \A kinds : I!Fails(kinds) = Fails(kinds)
  /\ \A step, begun : I!Begin(step, begun) = Begin(step, begun)
  /\ \A op, j : I!About(op, j) = About(op, j)
  /\ \A op, step : I!BeginAbout(op, step) = BeginAbout(op, step)
  /\ \A begun, kinds : I!Refuse(begun, kinds) = Refuse(begun, kinds)
  /\ \A kinds : I!Reject(kinds) = Reject(kinds)
  /\ \A st, kinds : I!Cancels(st, kinds) = Cancels(st, kinds)
  /\ \A moves : I!Progress(moves) = Progress(moves)
  /\ \A made : I!ReturnsOk(made) = ReturnsOk(made) /\ I!LosesReply(made) = LosesReply(made)
  BY IqmWords
  DEF I!ReturnFrom, ReturnFrom, I!Return, Return, I!Goto, Goto, I!Met, Met,
      I!ReturnTroubled, ReturnTroubled, I!Fails, Fails, I!Begin, Begin,
      I!BeginAbout, BeginAbout, I!About, About, I!Refuse, Refuse, I!Reject, Reject,
      I!Cancels, Cancels, I!Progress, Progress,
      I!ReturnsOk, ReturnsOk, I!LosesReply, LosesReply

\* What a call knows while it is under way; that what task_result has received
\* is so, as long as the job was completed when it was asked for.
IqmKnows ==
  /\ pc \in {"idle", "submit", "get", "cancel", "artifacts"}
  /\ yields \in [Jobs -> SUBSET I!Artifact] /\ part \in [I!Artifact -> I!Part]
  /\ \A j \in Jobs : job[j] \notin {"created", "cancelling"}
  /\ pc # "idle" => call.made = 0
  /\ pc = "submit" => call.op = "start"
  /\ pc = "get" => call.op \in {"status", "stop", "logs"}
  /\ pc = "cancel" => call.op = "stop"
  /\ pc = "artifacts" => call.op = "result"
  /\ pc = "artifacts" /\ call.ripe =>
       /\ job[call.id] = "Completed"
       /\ \A a \in I!Artifact : /\ part[a] = "value" => a \in yields[call.id]
                                /\ part[a] = "null" => a \notin yields[call.id]
  /\ I!ResultWhole

IqmSane == vendor = "IQMServer" /\ Sane /\ IqmKnows
IqmStep == (Passes \/ Begins \/ Continues \/ Returns) /\ IqmKnows'

LEMMA IqmFacts ==
  ASSUME IqmSane
  PROVE  /\ job \in [Jobs -> JobState] /\ \A j \in Jobs : job[j] \notin {"created", "cancelling"}
         /\ call \in Call /\ Names(call) /\ (pc # "idle" => out = NoOut /\ call.made = 0)
         /\ yields \in [Jobs -> SUBSET I!Artifact] /\ part \in [I!Artifact -> I!Part]
  BY DEF IqmSane, IqmKnows, Sane, Common, CallTypeOK, Reported

LEMMA IqmRests ==
  ASSUME IqmSane, Returns, UNCHANGED <<yields, part>>,
         \A j \in Jobs : job'[j] \notin {"created", "cancelling"},
         out'.call.op # "result" \/ out'.res # "Ok" \/ I!ResultWhole'
  PROVE  IqmStep
<1>1. pc' = "idle"
  BY DEF Returns, ReturnFrom
<1>2. I!ResultWhole'
  BY DEF I!ResultWhole
<1>3. QED
  BY <1>1, <1>2, IqmFacts DEF IqmStep, IqmKnows

LEMMA IqmProgress == ASSUME IqmSane, I!Progress(I!Moves), UNCHANGED I!iqmVars PROVE IqmStep
<1>1. /\ Passes
      /\ \E j \in Jobs, st \in JobState : <<job[j], st>> \in Moves /\ job' = [job EXCEPT ![j] = st]
  <2>1. Progress(Moves)
    BY IqmCalls, IqmWords
  <2>2. \A m \in Moves : m[1] \in Active
    BY Words DEF Moves
  <2>3. QED
    BY <2>1, <2>2, ProgressPasses DEF IqmSane
<1>2. PICK j \in Jobs, st \in JobState : <<job[j], st>> \in Moves /\ job' = [job EXCEPT ![j] = st]
  BY <1>1
<1>3. st \notin {"created", "cancelling"} /\ job[j] # "Completed"
  BY <1>2 DEF Moves
<1>4. \A i \in Jobs : job'[i] \notin {"created", "cancelling"}
                      /\ (job[i] = "Completed" => job'[i] = "Completed")
  BY <1>2, <1>3, IqmFacts
<1>5. I!ResultWhole'
  BY <1>1 DEF IqmSane, IqmKnows, I!ResultWhole, I!iqmVars, Passes
<1>6. IqmKnows'
  BY <1>1, <1>4, <1>5 DEF IqmKnows, IqmSane, Passes, I!iqmVars, Sane, Common, Names
<1>7. QED
  BY <1>1, <1>6 DEF IqmStep

LEMMA IqmBegins ==
  ASSUME IqmSane, Begins, UNCHANGED yields, pc' \in {"submit", "get", "artifacts"},
         part' \in [I!Artifact -> I!Part],
         pc' = "submit" => call'.op = "start",
         pc' = "get" => call'.op \in {"status", "stop", "logs"},
         pc' = "artifacts" => /\ call'.op = "result" /\ part' = I!Unread
                              /\ call'.ripe => job[call'.id] = "Completed"
  PROVE  IqmStep
<1>1. I!ResultWhole'
  BY DEF I!ResultWhole, Begins
<1>2. \A a \in I!Artifact : I!Unread[a] = "unread"
  BY DEF I!Unread
<1>3. QED
  BY <1>1, <1>2, IqmFacts DEF IqmStep, IqmKnows, IqmSane, Begins

LEMMA IqmBeginning ==
  ASSUME IqmSane,
         I!RejectStart \/ I!TaskStart \/ I!TaskStatus \/ I!TaskStop \/ I!TaskLogs \/ I!TaskResult
  PROVE  IqmStep
<1>1. CASE I!RejectStart
  <2>1. Refuse(Starting, {"UnsupportedPayload", "InvalidInput"}) /\ UNCHANGED <<yields, part>>
    BY <1>1, IqmCalls DEF I!RejectStart, Reject, I!iqmVars
  <2>2. {"UnsupportedPayload", "InvalidInput"} \in SUBSET (Result \ ({"Ok"} \cup Terminal))
    BY DEF Result, Refusal, Terminal
  <2>3. Returns /\ job' = job /\ out'.call.op # "result"
    BY <2>1, <2>2, StartingType, RefuseReturns DEF IqmSane
  <2>4. QED
    BY <2>1, <2>3, IqmFacts, IqmRests
<1>2. CASE I!TaskStart
  <2>1. Begin("submit", Starting) /\ UNCHANGED <<yields, part>>
    BY <1>2, IqmCalls, IqmWords DEF I!TaskStart, I!iqmVars
  <2>2. Begins /\ pc' = "submit" /\ call' = Starting
    BY <2>1, StartingType, BeginBegins DEF IqmSane, Names
  <2>3. QED
    BY <2>1, <2>2, StartingType, IqmFacts, IqmBegins
<1>3. CASE I!TaskStatus \/ I!TaskStop \/ I!TaskLogs
  <2>1. PICK op \in {"status", "stop", "logs"} : BeginAbout(op, "get")
    BY <1>3, IqmCalls DEF I!TaskStatus, I!TaskStop, I!TaskLogs
  <2>2. UNCHANGED <<yields, part>>
    BY <1>3 DEF I!TaskStatus, I!TaskStop, I!TaskLogs, I!iqmVars
  <2>3. Begins /\ pc' = "get" /\ call'.op = op
    BY <2>1, BeginAboutBegins DEF IqmSane, Op
  <2>4. QED
    BY <2>1, <2>2, <2>3, IqmFacts, IqmBegins
<1>4. CASE I!TaskResult
  <2>1. BeginAbout("result", "artifacts") /\ part' = I!Unread /\ UNCHANGED yields
    BY <1>4, IqmCalls DEF I!TaskResult
  <2>2. /\ Begins /\ pc' = "artifacts" /\ call'.op = "result"
        /\ call'.ripe <=> job[call'.id] = "Completed"
    BY <2>1, BeginAboutBegins DEF IqmSane, Op
  <2>3. I!Unread \in [I!Artifact -> I!Part]
    BY DEF I!Unread, I!Part
  <2>4. QED
    BY <2>1, <2>2, <2>3, IqmBegins
<1>5. QED
  BY <1>1, <1>2, <1>3, <1>4

LEMMA IqmKinds ==
  I!FailureKinds \cup {"ResourceNotFound"} \in SUBSET (Result \ ({"Ok"} \cup Terminal))
  BY DEF I!FailureKinds, I!Unclassified, Result, Refusal, Terminal

LEMMA IqmFails ==
  ASSUME IqmSane, pc # "idle", UNCHANGED I!iqmVars,
         I!Fails(I!FailureKinds) \/ I!Fails(I!FailureKinds \cup {"ResourceNotFound"})
  PROVE  IqmStep
<1>1. PICK kinds \in SUBSET (I!FailureKinds \cup {"ResourceNotFound"}) : Fails(kinds)
  BY IqmCalls
<1>2. Returns /\ job' = job /\ out'.res # "Ok"
  BY <1>1, IqmFacts, IqmKinds, FailsReturns DEF IqmSane
<1>3. QED
  BY <1>2, IqmFacts, IqmRests DEF I!iqmVars

LEMMA IqmSubmit == ASSUME IqmSane, I!JobSubmit PROVE IqmStep
<1>1. pc = "submit" /\ call.op = "start" /\ call.made = 0 /\ UNCHANGED I!iqmVars
  BY IqmFacts DEF I!JobSubmit, IqmSane, IqmKnows
<1>2. CASE I!Fails(I!FailureKinds \cup {"ResourceNotFound"})
  BY <1>1, <1>2, IqmFails
<1>3. CASE I!Creates("queued", I!ReturnsOk) \/ I!Creates("queued", I!LosesSubmitReply)
  <2>1. PICK j, made :
          /\ j \in Jobs
          /\ job' = [job EXCEPT ![j] = "queued"]
          /\ MadeFor(j, made)
          /\ ReturnsOk(made) \/ LosesReply(made)
    BY <1>3, IqmCalls DEF I!Creates, I!LosesSubmitReply, I!Unclassified, LosesReply, MadeFor
  <2>2. job' \in [Jobs -> JobState] /\ \A i \in Jobs : job'[i] \notin {"created", "cancelling"}
    BY <2>1, IqmFacts DEF JobState, Active
  <2>3. Returns /\ out'.call.op = "start"
    BY <1>1, <2>1, <2>2, SubmitReturns DEF IqmSane
  <2>4. QED
    BY <1>1, <2>2, <2>3, IqmRests DEF I!iqmVars
<1>4. QED
  BY <1>2, <1>3 DEF I!JobSubmit

LEMMA IqmGetJob == ASSUME IqmSane, I!GetJob PROVE IqmStep
<1>1. /\ pc = "get" /\ call.op \in {"status", "stop", "logs"} /\ call.made = 0
      /\ call.id \in Jobs /\ UNCHANGED <<yields, part>>
  BY IqmFacts DEF I!GetJob, IqmSane, IqmKnows, Names, I!iqmVars
<1>2. CASE I!Fails(I!FailureKinds)
  BY <1>1, <1>2, IqmFails DEF I!iqmVars
<1>3. CASE UNCHANGED job /\ job[call.id] = "absent" /\ Return("TaskNotFound")
  <2>1. Lawful(call, "TaskNotFound")
    BY <1>1, <1>3, IqmFacts DEF Lawful, Names, Result, Refusal, Terminal
  <2>2. QED
    BY <1>1, <1>3, <2>1, IqmFacts, PlainReturns, IqmRests DEF IqmSane
<1>4. CASE /\ UNCHANGED job /\ job[call.id] # "absent" /\ call.op = "status"
           /\ Return(I!StatusOf(job[call.id]))
  <2>1. /\ I!StatusOf(job[call.id]) \in {"Queued", "Running"} \cup Terminal
        /\ I!StatusOf(job[call.id]) \in Terminal => I!StatusOf(job[call.id]) = job[call.id]
    <3>1. job[call.id] \in {"queued", "running"} \cup Terminal
      BY <1>1, <1>4, IqmFacts DEF JobState, Active
    <3>2. QED
      BY <3>1, IqmWords DEF I!StatusOf, Terminal
  <2>2. Lawful(call, I!StatusOf(job[call.id]))
    BY <1>1, <1>4, <2>1, IqmFacts DEF Lawful, Names, Result, Terminal
  <2>3. QED
    BY <1>1, <1>4, <2>2, IqmFacts, PlainReturns, IqmRests DEF IqmSane
<1>5. CASE /\ UNCHANGED job
           /\ call.op = "logs" \/ (call.op = "stop" /\ job[call.id] \notin Active)
           /\ Return("Ok")
  <2>1. Lawful(call, "Ok")
    BY <1>1, <1>5, IqmFacts, Words DEF Lawful, Names, Result
  <2>2. QED
    BY <1>1, <1>5, <2>1, IqmFacts, PlainReturns, IqmRests DEF IqmSane
<1>6. CASE UNCHANGED job /\ call.op = "stop" /\ Goto("cancel")
  <2>1. UNCHANGED <<job, call, out>> /\ pc' = "cancel"
    BY <1>6 DEF Goto
  <2>2. Continues
    BY <1>1, <2>1, IqmFacts DEF Continues
  <2>3. I!ResultWhole'
    BY <2>1 DEF I!ResultWhole
  <2>4. QED
    BY <1>1, <1>6, <2>1, <2>2, <2>3, IqmFacts DEF IqmStep, IqmKnows
<1>7. QED
  BY <1>1, <1>2, <1>3, <1>4, <1>5, <1>6, IqmCalls, IqmWords DEF I!GetJob, I!Gets, I!MustCancel

LEMMA IqmCancelJob == ASSUME IqmSane, I!CancelJob PROVE IqmStep
<1>1. /\ pc = "cancel" /\ call.op = "stop" /\ call.made = 0 /\ UNCHANGED I!iqmVars
  BY IqmFacts DEF I!CancelJob, IqmSane, IqmKnows
<1>2. CASE I!Cancels("Cancelled", {I!Unclassified})
  <2>1. {I!Unclassified} \in SUBSET (Result \ ({"Ok"} \cup Terminal))
    BY DEF I!Unclassified, Result, Terminal
  <2>2. /\ Returns /\ out'.call.op = "stop"
        /\ (job' = job \/ job' = [job EXCEPT ![call.id] = "Cancelled"])
    BY <1>1, <1>2, <2>1, IqmCalls, CancelsReturns DEF IqmSane
  <2>3. \A i \in Jobs : job'[i] \notin {"created", "cancelling"}
    BY <2>2, IqmFacts
  <2>4. QED
    BY <1>1, <2>2, <2>3, IqmRests DEF I!iqmVars
<1>3. CASE I!Fails(I!FailureKinds)
  BY <1>1, <1>3, IqmFails
<1>4. QED
  BY <1>2, <1>3 DEF I!CancelJob

LEMMA IqmGetArtifacts ==
  ASSUME IqmSane, NEW a \in I!Artifact, I!GetArtifacts(a)
  PROVE  IqmStep
<1>1. /\ pc = "artifacts" /\ UNCHANGED <<job, pc, call, out, yields>>
      /\ call.op = "result" /\ call.id \in Jobs /\ call.made = 0
  BY IqmFacts DEF I!GetArtifacts, I!callVars, IqmSane, IqmKnows, Names
<1>2. PICK p \in I!Part :
        /\ part' = [part EXCEPT ![a] = p]
        /\ p = "value" => job[call.id] = "Completed" /\ a \in yields[call.id]
        /\ p = "null" => ~(job[call.id] = "Completed" /\ a \in yields[call.id])
  BY DEF I!GetArtifacts, I!Received, I!Part
<1>3. Continues
  BY <1>1, IqmFacts DEF Continues
<1>4. I!ResultWhole'
  BY <1>1 DEF I!ResultWhole
<1>5. part' \in [I!Artifact -> I!Part]
  BY <1>2, IqmFacts
<1>6. call.ripe => /\ job[call.id] = "Completed"
                   /\ \A b \in I!Artifact : /\ part'[b] = "value" => b \in yields[call.id]
                                            /\ part'[b] = "null" => b \notin yields[call.id]
  BY <1>1, <1>2, IqmFacts DEF IqmSane, IqmKnows
<1>7. QED
  BY <1>1, <1>3, <1>4, <1>5, <1>6, IqmFacts DEF IqmStep, IqmKnows

LEMMA IqmJoin == ASSUME IqmSane, I!Join PROVE IqmStep
<1>1. /\ pc = "artifacts" /\ UNCHANGED <<job, yields, part>> /\ call.op = "result"
      /\ call.made = 0 /\ call \in Call /\ \A a \in I!Artifact : part[a] # "unread"
  BY IqmFacts DEF I!Join, I!iqmVars, IqmSane, IqmKnows
<1>2. CASE \E a \in I!Artifact : part[a] = "error"
  <2>1. PICK res \in I!FailureKinds : ReturnFrom(Met("failed"), res)
    BY <1>2, IqmCalls DEF I!Join
  <2>2. Met("failed") \in Call /\ Met("failed").op = "result" /\ Met("failed").id = call.id
        /\ Met("failed").made = 0
    BY <1>1 DEF Met, Call, AnyTrouble
  <2>3. Lawful(Met("failed"), res) /\ res # "Ok"
    BY <1>1, <2>1, <2>2, IqmKinds, IqmFacts DEF Lawful, Names
  <2>4. Returns /\ out'.res # "Ok"
    BY <2>1, <2>3 DEF Returns, ReturnFrom
  <2>5. QED
    BY <1>1, <2>4, IqmFacts, IqmRests
<1>3. CASE \A a \in I!Artifact : part[a] # "error"
  <2>1. Return("Ok")
    BY <1>3, IqmCalls DEF I!Join
  <2>2. Lawful(call, "Ok")
    BY <1>1, IqmFacts DEF Lawful, Names, Result, Refusal, Terminal, IqmSane
  <2>3. \A a \in I!Artifact : part[a] \in {"value", "null"}
    BY <1>1, <1>3, IqmFacts DEF I!Part
  <2>4. Returns /\ out' = [call |-> call, res |-> "Ok"]
    BY <2>1, <2>2, PlainReturns DEF IqmSane
  <2>5. I!ResultWhole'
    BY <1>1, <2>3, <2>4 DEF I!ResultWhole, IqmSane, IqmKnows
  <2>6. QED
    BY <1>1, <2>4, <2>5, IqmFacts, IqmRests
<1>4. QED
  BY <1>2, <1>3

LEMMA IqmNext == ASSUME IqmSane, I!Next PROVE IqmStep
  BY IqmProgress, IqmBeginning, IqmSubmit, IqmGetJob, IqmCancelJob, IqmGetArtifacts, IqmJoin
  DEF I!Next

(***************************************************************************)
(* Pasqal Local                                                            *)
(***************************************************************************)

LEMMA LocalWords ==
  /\ L!Active = Active /\ L!Terminal = Terminal /\ L!JobState = JobState
  /\ L!NoCall = NoCall /\ L!NoOut = NoOut /\ L!Starting = Starting
  /\ L!CallTypeOK = CallTypeOK /\ L!Moves = Moves
  BY DEF L!Active, Active, L!Terminal, Terminal, L!JobState, JobState, L!Call, Call,
         L!Op, Op, L!AnyTrouble, AnyTrouble, L!NoCall, NoCall, L!NoOut, NoOut,
         L!Refusal, Refusal, L!Result, Result, L!CallTypeOK, CallTypeOK,
         L!Starting, Starting, L!Moves, Moves

LEMMA LocalCalls ==
  /\ \A final, res : L!ReturnFrom(final, res) = ReturnFrom(final, res)
  /\ \A res : L!Return(res) = Return(res)
  /\ \A step : L!Goto(step) = Goto(step)
  /\ \A t : L!Met(t) = Met(t)
  /\ \A t, res : L!ReturnTroubled(t, res) = ReturnTroubled(t, res)
  /\ \A kinds : L!Fails(kinds) = Fails(kinds)
  /\ \A step, begun : L!Begin(step, begun) = Begin(step, begun)
  /\ \A op, j : L!About(op, j) = About(op, j)
  /\ \A op, step : L!BeginAbout(op, step) = BeginAbout(op, step)
  /\ \A begun, kinds : L!Refuse(begun, kinds) = Refuse(begun, kinds)
  /\ \A kinds : L!Reject(kinds) = Reject(kinds)
  /\ \A st, kinds : L!Cancels(st, kinds) = Cancels(st, kinds)
  /\ \A moves : L!Progress(moves) = Progress(moves)
  /\ \A made : L!ReturnsOk(made) = ReturnsOk(made) /\ L!LosesReply(made) = LosesReply(made)
  BY LocalWords
  DEF L!ReturnFrom, ReturnFrom, L!Return, Return, L!Goto, Goto, L!Met, Met,
      L!ReturnTroubled, ReturnTroubled, L!Fails, Fails, L!Begin, Begin,
      L!BeginAbout, BeginAbout, L!About, About, L!Refuse, Refuse, L!Reject, Reject,
      L!Cancels, Cancels, L!Progress, Progress,
      L!ReturnsOk, ReturnsOk, L!LosesReply, LosesReply

LocalKnows ==
  /\ pc \in {"idle", "create_session", "revoke_session", "create_job",
             "cancel_job", "get_job", "get_task_logs"}
  /\ session \in [Sessions -> {"absent", "open", "revoked"}]
  /\ warden \in Sessions \cup {NoSession}
  /\ \A j \in Jobs : job[j] \notin {"created", "cancelling"}
  /\ pc # "idle" => call.made = 0
  /\ pc = "create_session" => call.op = "acquire"
  /\ pc = "revoke_session" => call.op = "release"
  /\ pc = "create_job" => call.op = "start"
  /\ pc = "cancel_job" => call.op = "stop"
  /\ pc = "get_job" => call.op \in {"status", "result"}
  /\ pc = "get_task_logs" => call.op = "logs"

LocalSane == vendor = "PasqalLocal" /\ Sane /\ LocalKnows
LocalStep == (Passes \/ Begins \/ Continues \/ Returns) /\ LocalKnows'

LEMMA LocalFacts ==
  ASSUME LocalSane
  PROVE  /\ job \in [Jobs -> JobState] /\ \A j \in Jobs : job[j] \notin {"created", "cancelling"}
         /\ call \in Call /\ Names(call) /\ (pc # "idle" => out = NoOut /\ call.made = 0)
         /\ session \in [Sessions -> {"absent", "open", "revoked"}]
         /\ warden \in Sessions \cup {NoSession} /\ vendor = "PasqalLocal"
  BY DEF LocalSane, LocalKnows, Sane, Common, CallTypeOK, Reported

LEMMA LocalRests ==
  ASSUME LocalSane, Returns, session' \in [Sessions -> {"absent", "open", "revoked"}],
         UNCHANGED warden, \A j \in Jobs : job'[j] \notin {"created", "cancelling"}
  PROVE  LocalStep
<1>1. pc' = "idle"
  BY DEF Returns, ReturnFrom
<1>2. QED
  BY <1>1, LocalFacts DEF LocalStep, LocalKnows

LEMMA LocalProgress == ASSUME LocalSane, L!Progress(L!Moves), UNCHANGED L!localVars PROVE LocalStep
<1>1. /\ Passes
      /\ \E j \in Jobs, st \in JobState : <<job[j], st>> \in Moves /\ job' = [job EXCEPT ![j] = st]
  <2>1. Progress(Moves)
    BY LocalCalls, LocalWords
  <2>2. \A m \in Moves : m[1] \in Active
    BY Words DEF Moves
  <2>3. QED
    BY <2>1, <2>2, ProgressPasses DEF LocalSane
<1>2. PICK j \in Jobs, st \in JobState : <<job[j], st>> \in Moves /\ job' = [job EXCEPT ![j] = st]
  BY <1>1
<1>3. st \notin {"created", "cancelling"}
  BY <1>2 DEF Moves
<1>4. \A i \in Jobs : job'[i] \notin {"created", "cancelling"}
  BY <1>2, <1>3, LocalFacts
<1>5. QED
  BY <1>1, <1>4 DEF LocalStep, LocalKnows, LocalSane, Passes, L!localVars

\* Only the environment changes.
LEMMA LocalExport == ASSUME LocalSane, L!Export PROVE LocalStep
<1>1. UNCHANGED <<job, pc, call, out, session>> /\ warden' \in Sessions \cup {NoSession}
  BY DEF L!Export, L!callVars
<1>2. Passes
  BY <1>1, LocalFacts DEF Passes, Ripens
<1>3. QED
  BY <1>1, <1>2 DEF LocalStep, LocalKnows, LocalSane

LEMMA LocalBegins ==
  ASSUME LocalSane, Begins, UNCHANGED <<session, warden>>,
         \/ pc' = "create_session" /\ call'.op = "acquire"
         \/ pc' = "revoke_session" /\ call'.op = "release"
         \/ pc' = "create_job" /\ call'.op = "start"
         \/ pc' = "cancel_job" /\ call'.op = "stop"
         \/ pc' = "get_job" /\ call'.op \in {"status", "result"}
         \/ pc' = "get_task_logs" /\ call'.op = "logs"
  PROVE  LocalStep
  BY LocalFacts DEF LocalStep, LocalKnows, Begins

LEMMA LocalBeginning ==
  ASSUME LocalSane,
         L!Acquire \/ L!Release \/ L!RejectStart \/ L!TaskStart
           \/ L!TaskStatus \/ L!TaskStop \/ L!TaskLogs \/ L!TaskResult
  PROVE  LocalStep
<1>1. UNCHANGED <<session, warden>>
  BY DEF L!Acquire, L!Release, L!RejectStart, L!TaskStart, L!TaskStatus, L!TaskStop,
         L!TaskLogs, L!TaskResult, L!localVars
<1>2. CASE L!RejectStart \/ (L!Release /\ warden = NoSession)
  <2>1. PICK begun \in {Starting, [NoCall EXCEPT !.op = "release"]},
             kinds \in SUBSET {"UnsupportedPayload", "EnvVarNotSet"} : Refuse(begun, kinds)
    BY <1>2, LocalCalls, LocalWords
    DEF L!RejectStart, Reject, L!Reject, L!Release, L!Releasing
  <2>2. kinds \in SUBSET (Result \ ({"Ok"} \cup Terminal))
    BY DEF Result, Refusal, Terminal
  <2>3. begun \in Call /\ begun.op \in {"start", "release"} /\ begun.made = 0
    BY StartingType DEF Op
  <2>4. Returns /\ job' = job
    BY <2>1, <2>2, <2>3, RefuseReturns DEF LocalSane
  <2>5. QED
    BY <1>1, <2>4, LocalFacts, LocalRests
<1>3. CASE L!Acquire \/ L!TaskStart \/ (L!Release /\ warden # NoSession)
  <2>1. PICK begun \in {Starting, [NoCall EXCEPT !.op = "acquire"], [NoCall EXCEPT !.op = "release"]},
             step \in {"create_session", "create_job", "revoke_session"} :
               /\ Begin(step, begun)
               /\ step = "create_session" => begun = [NoCall EXCEPT !.op = "acquire"]
               /\ step = "create_job" => begun = Starting
               /\ step = "revoke_session" => begun = [NoCall EXCEPT !.op = "release"]
    BY <1>3, LocalCalls, LocalWords DEF L!Acquire, L!TaskStart, L!Release, L!Releasing
  <2>2. /\ begun \in Call /\ begun.made = 0
        /\ step = "create_session" => begun.op = "acquire"
        /\ step = "create_job" => begun.op = "start"
        /\ step = "revoke_session" => begun.op = "release"
    BY <2>1, StartingType DEF Op
  <2>3. Names(begun)
    BY <2>2 DEF Names
  <2>4. Begins /\ pc' = step /\ call' = begun
    BY <2>1, <2>2, <2>3, BeginBegins DEF LocalSane
  <2>5. QED
    BY <1>1, <2>2, <2>4, LocalBegins
<1>4. CASE L!TaskStatus \/ L!TaskStop \/ L!TaskLogs \/ L!TaskResult
  <2>1. PICK op \in {"status", "stop", "logs", "result"},
             step \in {"get_job", "cancel_job", "get_task_logs"} :
               /\ BeginAbout(op, step)
               /\ step = "get_job" => op \in {"status", "result"}
               /\ step = "cancel_job" => op = "stop"
               /\ step = "get_task_logs" => op = "logs"
    BY <1>4, LocalCalls DEF L!TaskStatus, L!TaskStop, L!TaskLogs, L!TaskResult
  <2>2. Begins /\ pc' = step /\ call'.op = op
    BY <2>1, BeginAboutBegins DEF LocalSane, Op
  <2>3. QED
    BY <1>1, <2>1, <2>2, LocalBegins
<1>5. QED
  BY <1>2, <1>3, <1>4

LEMMA LocalKinds == {"Other"} \in SUBSET (Result \ ({"Ok"} \cup Terminal)) /\ {"Other"} \cap Refusal = {}
  BY DEF Result, Refusal, Terminal

LEMMA LocalFails ==
  ASSUME LocalSane, pc # "idle", UNCHANGED <<session, warden>>, L!Fails({"Other"})
  PROVE  LocalStep
<1>1. Returns /\ job' = job
  BY LocalCalls, LocalKinds, LocalFacts, FailsReturns DEF LocalSane
<1>2. QED
  BY <1>1, LocalFacts, LocalRests

\* Requests about sessions, and those that change no task.
LEMMA LocalReturns ==
  ASSUME LocalSane, pc # "idle", UNCHANGED <<job, warden>>,
         session' \in [Sessions -> {"absent", "open", "revoked"}],
         NEW res \in Result \ Refusal,
         L!Return(res) \/ L!ReturnTroubled("lost", res),
         call.op \in {"stop", "status"} => res # "Ok",
         call.op = "status" => res \notin Terminal /\ (res = "Other" => job[call.id] = "absent"),
         call.op = "result" /\ res = "Ok" => job[call.id] = "Completed"
  PROVE  LocalStep
<1>1. PICK final \in Call : /\ ReturnFrom(final, res) /\ final.op = call.op /\ final.id = call.id
                            /\ final.made = call.made /\ (final = call \/ final.met # {})
  BY LocalCalls, LocalFacts, MetType, TroubleKnown DEF Return, ReturnTroubled, LocalSane
<1>2. Lawful(final, res)
  BY <1>1, LocalFacts DEF Lawful, Names, Refusal
<1>3. QED
  BY <1>1, <1>2, LocalFacts, LocalRests DEF Returns

LEMMA LocalSessions == ASSUME LocalSane, L!CreateSession \/ L!RevokeSession PROVE LocalStep
<1>1. UNCHANGED <<job, warden>> /\ pc # "idle" /\ call.op \in {"acquire", "release"}
  BY DEF L!CreateSession, L!RevokeSession, LocalSane, LocalKnows
<1>2. session' \in [Sessions -> {"absent", "open", "revoked"}]
  BY LocalFacts DEF L!CreateSession, L!RevokeSession
<1>3. CASE L!Fails({"Other"}) /\ UNCHANGED session
  BY <1>1, <1>3, LocalFails
<1>4. CASE \E res \in {"Ok", "Other"} : L!Return(res) \/ L!ReturnTroubled("lost", res)
  BY <1>1, <1>2, <1>4, LocalReturns DEF Result, Refusal, Terminal
<1>5. QED
  BY <1>3, <1>4 DEF L!CreateSession, L!RevokeSession

LEMMA LocalCreateJob == ASSUME LocalSane, L!CreateJob PROVE LocalStep
<1>1. pc = "create_job" /\ call.op = "start" /\ call.made = 0 /\ UNCHANGED <<session, warden>>
  BY LocalFacts DEF L!CreateJob, L!localVars, LocalSane, LocalKnows
<1>2. CASE L!Fails({"Other"})
  BY <1>1, <1>2, LocalFails
<1>3. CASE L!Return("Other") /\ UNCHANGED job
  BY <1>1, <1>3, LocalFacts, LocalReturns DEF Result, Refusal
<1>4. CASE L!Creates("queued", L!ReturnsOk) \/ L!Creates("queued", L!LosesReply)
  <2>1. PICK j, made :
          /\ j \in Jobs
          /\ job' = [job EXCEPT ![j] = "queued"]
          /\ MadeFor(j, made)
          /\ ReturnsOk(made) \/ LosesReply(made)
    BY <1>4, LocalCalls DEF L!Creates, MadeFor
  <2>2. job' \in [Jobs -> JobState] /\ \A i \in Jobs : job'[i] \notin {"created", "cancelling"}
    BY <2>1, LocalFacts DEF JobState, Active
  <2>3. Returns
    BY <1>1, <2>1, <2>2, SubmitReturns DEF LocalSane
  <2>4. QED
    BY <1>1, <2>2, <2>3, LocalFacts, LocalRests
<1>5. QED
  BY <1>2, <1>3, <1>4 DEF L!CreateJob

LEMMA LocalCancelJob == ASSUME LocalSane, L!CancelJob PROVE LocalStep
<1>1. pc = "cancel_job" /\ call.op = "stop" /\ call.made = 0 /\ UNCHANGED <<session, warden>>
  BY LocalFacts DEF L!CancelJob, L!localVars, LocalSane, LocalKnows
<1>2. CASE L!Cancels("Cancelled", {"Other"})
  <2>1. Returns /\ (job' = job \/ job' = [job EXCEPT ![call.id] = "Cancelled"])
    BY <1>1, <1>2, LocalCalls, LocalKinds, CancelsReturns DEF LocalSane
  <2>2. \A i \in Jobs : job'[i] \notin {"created", "cancelling"}
    BY <2>1, LocalFacts
  <2>3. QED
    BY <1>1, <2>1, <2>2, LocalFacts, LocalRests
<1>3. CASE L!Fails({"Other"})
  BY <1>1, <1>3, LocalFails
<1>4. QED
  BY <1>2, <1>3 DEF L!CancelJob

LEMMA LocalGetJob == ASSUME LocalSane, L!GetJob PROVE LocalStep
<1>1. /\ pc = "get_job" /\ call.op \in {"status", "result"} /\ UNCHANGED <<session, warden>>
      /\ call.id \in Jobs
  BY LocalFacts DEF L!GetJob, L!localVars, LocalSane, LocalKnows, Names
<1>2. CASE L!Fails({"Other"})
  BY <1>1, <1>2, LocalFails
<1>3. CASE UNCHANGED job /\ job[call.id] = "absent" /\ L!Return("Other")
  BY <1>1, <1>3, LocalFacts, LocalReturns DEF Result, Refusal, Terminal
<1>4. CASE /\ UNCHANGED job /\ job[call.id] # "absent" /\ call.op = "status"
           /\ Return(L!StatusOf(job[call.id]))
  <2>1. /\ L!StatusOf(job[call.id]) \in {"Queued", "Running"} \cup Terminal
        /\ L!StatusOf(job[call.id]) \in Terminal => L!StatusOf(job[call.id]) = job[call.id]
    <3>1. job[call.id] \in {"queued", "running"} \cup Terminal
      BY <1>1, <1>4, LocalFacts DEF JobState, Active
    <3>2. QED
      BY <3>1, LocalWords DEF L!StatusOf, Terminal
  <2>2. Lawful(call, L!StatusOf(job[call.id]))
    BY <1>1, <1>4, <2>1, LocalFacts DEF Lawful, Names, Result, Terminal
  <2>3. QED
    BY <1>1, <1>4, <2>2, LocalFacts, PlainReturns, LocalRests DEF LocalSane
<1>5. CASE /\ UNCHANGED job /\ call.op = "result" /\ L!Return(L!ResultOf(job[call.id]))
  <2>1. L!ResultOf(job[call.id]) \in {"Ok", "TaskNotReady"}
        /\ (L!ResultOf(job[call.id]) = "Ok" => job[call.id] = "Completed")
    BY DEF L!ResultOf
  <2>2. QED
    BY <1>1, <1>5, <2>1, LocalFacts, LocalReturns DEF Result, Refusal, Terminal
<1>6. QED
  BY <1>1, <1>2, <1>3, <1>4, <1>5, LocalCalls DEF L!GetJob, L!Gets

LEMMA LocalGetTaskLogs == ASSUME LocalSane, L!GetTaskLogs PROVE LocalStep
<1>1. pc = "get_task_logs" /\ call.op = "logs" /\ UNCHANGED <<session, warden>>
  BY LocalFacts DEF L!GetTaskLogs, L!localVars, LocalSane, LocalKnows
<1>2. CASE L!Fails({"Other"})
  BY <1>1, <1>2, LocalFails
<1>3. CASE UNCHANGED job /\ \E res \in {"Ok", "Other"} : L!Return(res)
  BY <1>1, <1>3, LocalFacts, LocalReturns DEF Result, Refusal, Terminal
<1>4. QED
  BY <1>2, <1>3 DEF L!GetTaskLogs, L!Gets

LEMMA LocalNext == ASSUME LocalSane, L!Next PROVE LocalStep
  BY LocalProgress, LocalExport, LocalBeginning, LocalSessions, LocalCreateJob, LocalCancelJob,
     LocalGetJob, LocalGetTaskLogs DEF L!Next

(***************************************************************************)
(* OQTOPUS                                                                 *)
(***************************************************************************)

LEMMA OqtopusWords ==
  /\ O!Active = Active /\ O!Terminal = Terminal /\ O!JobState = JobState
  /\ O!NoCall = NoCall /\ O!NoOut = NoOut /\ O!Starting = Starting
  /\ O!CallTypeOK = CallTypeOK /\ O!Moves = Moves
  BY DEF O!Active, Active, O!Terminal, Terminal, O!JobState, JobState, O!Call, Call,
         O!Op, Op, O!AnyTrouble, AnyTrouble, O!NoCall, NoCall, O!NoOut, NoOut,
         O!Refusal, Refusal, O!Result, Result, O!CallTypeOK, CallTypeOK,
         O!Starting, Starting, O!Moves, Moves

LEMMA OqtopusCalls ==
  /\ \A final, res : O!ReturnFrom(final, res) = ReturnFrom(final, res)
  /\ \A res : O!Return(res) = Return(res)
  /\ \A step : O!Goto(step) = Goto(step)
  /\ \A t : O!Met(t) = Met(t)
  /\ \A t, res : O!ReturnTroubled(t, res) = ReturnTroubled(t, res)
  /\ \A kinds : O!Fails(kinds) = Fails(kinds)
  /\ \A step, begun : O!Begin(step, begun) = Begin(step, begun)
  /\ \A op, j : O!About(op, j) = About(op, j)
  /\ \A op, step : O!BeginAbout(op, step) = BeginAbout(op, step)
  /\ \A begun, kinds : O!Refuse(begun, kinds) = Refuse(begun, kinds)
  /\ \A kinds : O!Reject(kinds) = Reject(kinds)
  /\ \A st, kinds : O!Cancels(st, kinds) = Cancels(st, kinds)
  /\ \A moves : O!Progress(moves) = Progress(moves)
  /\ \A made : O!ReturnsOk(made) = ReturnsOk(made) /\ O!LosesReply(made) = LosesReply(made)
  BY OqtopusWords
  DEF O!ReturnFrom, ReturnFrom, O!Return, Return, O!Goto, Goto, O!Met, Met,
      O!ReturnTroubled, ReturnTroubled, O!Fails, Fails, O!Begin, Begin,
      O!BeginAbout, BeginAbout, O!About, About, O!Refuse, Refuse, O!Reject, Reject,
      O!Cancels, Cancels, O!Progress, Progress,
      O!ReturnsOk, ReturnsOk, O!LosesReply, LosesReply

\* A submission that is repeated has made one task before.
OqtopusKnows ==
  /\ pc \in {"idle", "submit_job", "cancel_job", "get_job_status", "get_job_result_json"}
  /\ retries \in SUBSET {"GET", "POST"}
  /\ \A j \in Jobs : job[j] \notin {"created", "cancelling"}
  /\ pc \notin {"idle", "submit_job"} => call.made = 0
  /\ pc = "submit_job" => /\ call.op = "start" /\ call.made <= 1
                          /\ "POST" \notin retries => call.made = 0
  /\ pc = "cancel_job" => call.op = "stop"
  /\ pc = "get_job_status" => call.op = "status"
  /\ pc = "get_job_result_json" => call.op = "result"

OqtopusSane == vendor = "OQTOPUS" /\ Sane /\ OqtopusKnows
OqtopusStep == (Passes \/ Begins \/ Continues \/ Returns) /\ OqtopusKnows'

LEMMA OqtopusFacts ==
  ASSUME OqtopusSane
  PROVE  /\ job \in [Jobs -> JobState] /\ \A j \in Jobs : job[j] \notin {"created", "cancelling"}
         /\ call \in Call /\ Names(call) /\ (pc # "idle" => out = NoOut)
         /\ call.made \in 0..2 /\ (pc # "idle" => call.made <= 1)
         /\ "POST" \notin retries => call.made <= 1
         /\ retries \in SUBSET {"GET", "POST"} /\ vendor = "OQTOPUS"
<1>1. call \in Call /\ (pc = "idle" => call.made = 0)
  BY NoCallType DEF OqtopusSane, Sane, Common, CallTypeOK, Reported
<1>2. call.made \in 0..2
  BY <1>1 DEF Call
<1>3. QED
  BY <1>1, <1>2 DEF OqtopusSane, OqtopusKnows, Sane, Common, CallTypeOK, Reported

LEMMA OqtopusRests ==
  ASSUME OqtopusSane, Returns, UNCHANGED retries, \A j \in Jobs : job'[j] \notin {"created", "cancelling"}
  PROVE  OqtopusStep
<1>1. pc' = "idle"
  BY DEF Returns, ReturnFrom
<1>2. QED
  BY <1>1, OqtopusFacts DEF OqtopusStep, OqtopusKnows

LEMMA OqtopusProgress == ASSUME OqtopusSane, O!Progress(O!Moves), UNCHANGED retries PROVE OqtopusStep
<1>1. /\ Passes
      /\ \E j \in Jobs, st \in JobState : <<job[j], st>> \in Moves /\ job' = [job EXCEPT ![j] = st]
  <2>1. Progress(Moves)
    BY OqtopusCalls, OqtopusWords
  <2>2. \A m \in Moves : m[1] \in Active
    BY Words DEF Moves
  <2>3. QED
    BY <2>1, <2>2, ProgressPasses DEF OqtopusSane
<1>2. PICK j \in Jobs, st \in JobState : <<job[j], st>> \in Moves /\ job' = [job EXCEPT ![j] = st]
  BY <1>1
<1>3. st \notin {"created", "cancelling"}
  BY <1>2 DEF Moves
<1>4. \A i \in Jobs : job'[i] \notin {"created", "cancelling"}
  BY <1>2, <1>3, OqtopusFacts
<1>5. QED
  BY <1>1, <1>4 DEF OqtopusStep, OqtopusKnows, OqtopusSane, Passes

LEMMA OqtopusBegins ==
  ASSUME OqtopusSane, Begins, UNCHANGED retries,
         \/ pc' = "submit_job" /\ call'.op = "start"
         \/ pc' = "cancel_job" /\ call'.op = "stop"
         \/ pc' = "get_job_status" /\ call'.op = "status"
         \/ pc' = "get_job_result_json" /\ call'.op = "result"
  PROVE  OqtopusStep
  BY OqtopusFacts DEF OqtopusStep, OqtopusKnows, Begins

LEMMA OqtopusKinds == {"Other"} \in SUBSET (Result \ ({"Ok"} \cup Terminal)) /\ {"Other"} \cap Refusal = {}
  BY DEF Result, Refusal, Terminal

LEMMA OqtopusBeginning ==
  ASSUME OqtopusSane, O!RejectStart \/ O!TaskStart \/ O!TaskStatus \/ O!TaskStop \/ O!TaskResult
  PROVE  OqtopusStep
<1>1. UNCHANGED retries
  BY DEF O!RejectStart, O!TaskStart, O!TaskStatus, O!TaskStop, O!TaskResult
<1>2. CASE O!RejectStart
  <2>1. Refuse(Starting, {"Other"})
    BY <1>2, OqtopusCalls DEF O!RejectStart, Reject
  <2>2. Returns /\ job' = job
    BY <2>1, OqtopusKinds, StartingType, RefuseReturns DEF OqtopusSane
  <2>3. QED
    BY <1>1, <2>2, OqtopusFacts, OqtopusRests
<1>3. CASE O!TaskStart
  <2>1. Begin("submit_job", Starting)
    BY <1>3, OqtopusCalls, OqtopusWords DEF O!TaskStart
  <2>2. Begins /\ pc' = "submit_job" /\ call' = Starting
    BY <2>1, StartingType, BeginBegins DEF OqtopusSane, Names
  <2>3. QED
    BY <1>1, <2>2, StartingType, OqtopusBegins
<1>4. CASE O!TaskStatus \/ O!TaskStop \/ O!TaskResult
  <2>1. PICK op \in {"status", "stop", "result"},
             step \in {"cancel_job", "get_job_status", "get_job_result_json"} :
               /\ BeginAbout(op, step)
               /\ op = "status" <=> step = "get_job_status"
               /\ op = "stop" <=> step = "cancel_job"
    BY <1>4, OqtopusCalls DEF O!TaskStatus, O!TaskStop, O!TaskResult
  <2>2. Begins /\ pc' = step /\ call'.op = op
    BY <2>1, BeginAboutBegins DEF OqtopusSane, Op
  <2>3. QED
    BY <1>1, <2>1, <2>2, OqtopusBegins
<1>5. QED
  BY <1>2, <1>3, <1>4

LEMMA OqtopusFails == ASSUME OqtopusSane, pc # "idle", UNCHANGED retries, O!Fail PROVE OqtopusStep
<1>1. Fails({"Other"})
  BY OqtopusCalls DEF O!Fail
<1>2. Returns /\ job' = job
  BY <1>1, OqtopusKinds, OqtopusFacts, FailsReturns DEF OqtopusSane
<1>3. QED
  BY <1>2, OqtopusFacts, OqtopusRests

LEMMA OqtopusSubmitJob == ASSUME OqtopusSane, O!SubmitJob PROVE OqtopusStep
<1>1. /\ pc = "submit_job" /\ call.op = "start" /\ call.made <= 1 /\ UNCHANGED retries
      /\ "POST" \notin retries => call.made = 0
  BY DEF O!SubmitJob, OqtopusSane, OqtopusKnows
<1>2. CASE O!Fail
  BY <1>1, <1>2, OqtopusFails
<1>3. CASE O!Creates("queued", O!ReturnsOk) \/ O!Creates("queued", O!LosesReply)
             \/ O!Creates("queued", O!Resubmits)
  <2>1. PICK j, made :
          /\ j \in Jobs
          /\ job' = [job EXCEPT ![j] = "queued"]
          /\ MadeFor(j, made)
          /\ ReturnsOk(made) \/ LosesReply(made) \/ O!Resubmits(made)
    BY <1>3, OqtopusCalls DEF O!Creates, MadeFor
  <2>2. job' \in [Jobs -> JobState] /\ \A i \in Jobs : job'[i] \notin {"created", "cancelling"}
    BY <2>1, OqtopusFacts DEF JobState, Active
  <2>3. CASE ReturnsOk(made) \/ LosesReply(made)
    <3>1. Returns
      BY <1>1, <2>1, <2>2, <2>3, SubmitReturns DEF OqtopusSane
    <3>2. QED
      BY <1>1, <2>2, <3>1, OqtopusRests
  <2>4. CASE O!Resubmits(made)
    <3>1. /\ "POST" \in retries /\ made.made < 2 /\ UNCHANGED <<pc, out>>
          /\ call' = [made EXCEPT !.met = @ \cup {"lost"}]
      BY <2>4 DEF O!Resubmits, O!Repeats
    <3>2. /\ call' \in Call /\ call'.op = "start" /\ call'.made = call.made + 1
          /\ made.made = call.made + 1
      BY <1>1, <2>1, <3>1, MadeType DEF OqtopusSane, AnyTrouble
    <3>3. call'.made <= 1
      BY <3>1, <3>2, OqtopusFacts
    <3>4. Continues
      BY <1>1, <2>2, <3>1, <3>2 DEF Continues, Names
    <3>5. QED
      BY <1>1, <2>2, <3>1, <3>2, <3>3, <3>4, OqtopusFacts DEF OqtopusStep, OqtopusKnows
  <2>5. QED
    BY <2>1, <2>3, <2>4
<1>4. QED
  BY <1>2, <1>3 DEF O!SubmitJob

LEMMA OqtopusCancelJob == ASSUME OqtopusSane, O!CancelJob PROVE OqtopusStep
<1>1. pc = "cancel_job" /\ call.op = "stop" /\ call.made = 0 /\ UNCHANGED retries
  BY DEF O!CancelJob, OqtopusSane, OqtopusKnows
<1>2. CASE O!Cancels("Cancelled", {"Other"})
  <2>1. Returns /\ (job' = job \/ job' = [job EXCEPT ![call.id] = "Cancelled"])
    BY <1>1, <1>2, OqtopusCalls, OqtopusKinds, CancelsReturns DEF OqtopusSane
  <2>2. \A i \in Jobs : job'[i] \notin {"created", "cancelling"}
    BY <2>1, OqtopusFacts
  <2>3. QED
    BY <1>1, <2>1, <2>2, OqtopusRests
<1>3. CASE O!Fail
  BY <1>1, <1>3, OqtopusFails
<1>4. CASE /\ "lost" \in Trouble /\ job' = [job EXCEPT ![call.id] = "Cancelled"]
           /\ call' = O!Met("lost") /\ UNCHANGED <<pc, out>>
  <2>1. call' \in Call /\ call'.op = "stop" /\ Names(call') /\ call'.made = 0
    BY <1>1, <1>4, OqtopusCalls, OqtopusFacts, MetType, TroubleKnown DEF OqtopusSane
  <2>2. job' \in [Jobs -> JobState] /\ \A i \in Jobs : job'[i] \notin {"created", "cancelling"}
    BY <1>4, OqtopusFacts DEF JobState, Terminal
  <2>3. Continues
    BY <1>1, <1>4, <2>1, <2>2 DEF Continues
  <2>4. QED
    BY <1>1, <1>4, <2>1, <2>2, <2>3, OqtopusFacts DEF OqtopusStep, OqtopusKnows
<1>5. QED
  BY <1>2, <1>3, <1>4 DEF O!CancelJob

LEMMA OqtopusGetJobStatus == ASSUME OqtopusSane, O!GetJobStatus PROVE OqtopusStep
<1>1. /\ pc = "get_job_status" /\ call.op = "status" /\ UNCHANGED retries
      /\ call.id \in Jobs /\ call.made = 0
  BY OqtopusFacts DEF O!GetJobStatus, OqtopusSane, OqtopusKnows, Names
<1>2. CASE O!Fail
  BY <1>1, <1>2, OqtopusFails
<1>3. CASE UNCHANGED job /\ job[call.id] = "absent" /\ Return("Other")
  <2>1. Lawful(call, "Other")
    BY <1>1, <1>3, OqtopusFacts DEF Lawful, Result, Terminal
  <2>2. QED
    BY <1>1, <1>3, <2>1, OqtopusFacts, PlainReturns, OqtopusRests DEF OqtopusSane
<1>4. CASE UNCHANGED job /\ job[call.id] # "absent" /\ Return(O!StatusOf(job[call.id]))
  <2>1. /\ O!StatusOf(job[call.id]) \in {"Queued", "Running"} \cup Terminal
        /\ O!StatusOf(job[call.id]) \in Terminal => O!StatusOf(job[call.id]) = job[call.id]
    <3>1. job[call.id] \in {"queued", "running"} \cup Terminal
      BY <1>1, <1>4, OqtopusFacts DEF JobState, Active
    <3>2. QED
      BY <3>1, OqtopusWords DEF O!StatusOf, Terminal
  <2>2. Lawful(call, O!StatusOf(job[call.id]))
    BY <1>1, <1>4, <2>1, OqtopusFacts DEF Lawful, Result, Terminal
  <2>3. QED
    BY <1>1, <1>4, <2>2, OqtopusFacts, PlainReturns, OqtopusRests DEF OqtopusSane
<1>5. QED
  BY <1>2, <1>3, <1>4, OqtopusCalls DEF O!GetJobStatus, O!Gets

LEMMA OqtopusGetJobResult == ASSUME OqtopusSane, O!GetJobResult PROVE OqtopusStep
<1>1. /\ pc = "get_job_result_json" /\ call.op = "result" /\ UNCHANGED retries /\ call.made = 0
  BY OqtopusFacts DEF O!GetJobResult, OqtopusSane, OqtopusKnows
<1>2. CASE O!Fail
  BY <1>1, <1>2, OqtopusFails
<1>3. CASE /\ UNCHANGED job
           /\ \E res \in {"Ok", "Other"} : Return(res) /\ (res = "Ok" => job[call.id] = "Completed")
  <2>1. PICK res \in {"Ok", "Other"} : Return(res) /\ (res = "Ok" => job[call.id] = "Completed")
    BY <1>3
  <2>2. Lawful(call, res)
    BY <1>1, <1>3, <2>1, OqtopusFacts DEF Lawful, Result, Terminal
  <2>3. QED
    BY <1>1, <1>3, <2>1, <2>2, OqtopusFacts, PlainReturns, OqtopusRests DEF OqtopusSane
<1>4. QED
  BY <1>2, <1>3, OqtopusCalls DEF O!GetJobResult, O!Gets

LEMMA OqtopusNext == ASSUME OqtopusSane, O!Next PROVE OqtopusStep
  BY OqtopusProgress, OqtopusBeginning, OqtopusSubmitJob, OqtopusCancelJob, OqtopusGetJobStatus,
     OqtopusGetJobResult DEF O!Next

\* What is repeated is configured, and stays so.
LEMMA OqtopusRetries == ASSUME O!Next PROVE UNCHANGED retries
  BY DEF O!Next, O!RejectStart, O!TaskStart, O!TaskStatus, O!TaskStop, O!TaskResult, O!SubmitJob,
     O!CancelJob, O!GetJobStatus, O!GetJobResult

(***************************************************************************)
(* Pasqal Cloud                                                            *)
(***************************************************************************)

LEMMA CloudWords ==
  /\ C!Active = Active /\ C!Terminal = Terminal /\ C!JobState = JobState
  /\ C!NoCall = NoCall /\ C!NoOut = NoOut /\ C!Starting = Starting
  /\ C!CallTypeOK = CallTypeOK /\ C!Moves = Moves
  BY DEF C!Active, Active, C!Terminal, Terminal, C!JobState, JobState, C!Call, Call,
         C!Op, Op, C!AnyTrouble, AnyTrouble, C!NoCall, NoCall, C!NoOut, NoOut,
         C!Refusal, Refusal, C!Result, Result, C!CallTypeOK, CallTypeOK,
         C!Starting, Starting, C!Moves, Moves

LEMMA CloudCalls ==
  /\ \A final, res : C!ReturnFrom(final, res) = ReturnFrom(final, res)
  /\ \A res : C!Return(res) = Return(res)
  /\ \A step : C!Goto(step) = Goto(step)
  /\ \A t : C!Met(t) = Met(t)
  /\ \A t, res : C!ReturnTroubled(t, res) = ReturnTroubled(t, res)
  /\ \A kinds : C!Fails(kinds) = Fails(kinds)
  /\ \A step, begun : C!Begin(step, begun) = Begin(step, begun)
  /\ \A op, j : C!About(op, j) = About(op, j)
  /\ \A op, step : C!BeginAbout(op, step) = BeginAbout(op, step)
  /\ \A begun, kinds : C!Refuse(begun, kinds) = Refuse(begun, kinds)
  /\ \A kinds : C!Reject(kinds) = Reject(kinds)
  /\ \A st, kinds : C!Cancels(st, kinds) = Cancels(st, kinds)
  /\ \A moves : C!Progress(moves) = Progress(moves)
  /\ \A made : C!ReturnsOk(made) = ReturnsOk(made) /\ C!LosesReply(made) = LosesReply(made)
  BY CloudWords
  DEF C!ReturnFrom, ReturnFrom, C!Return, Return, C!Goto, Goto, C!Met, Met,
      C!ReturnTroubled, ReturnTroubled, C!Fails, Fails, C!Begin, Begin,
      C!BeginAbout, BeginAbout, C!About, About, C!Refuse, Refuse, C!Reject, Reject,
      C!Cancels, Cancels, C!Progress, Progress,
      C!ReturnsOk, ReturnsOk, C!LosesReply, LosesReply

\* A task that was completed when its result was asked for has counts.
CloudWhole ==
  out.call.op = "result" /\ out.call.ripe /\ out.res = "Ok" => got = "counts"

CloudKnows ==
  /\ pc \in {"idle", "create_batch", "create_cudaq_job", "cancel_batch",
             "get_batch", "get_job", "get_batch_results", "get_cudaq_job"}
  /\ sort \in [Jobs -> C!Sort] /\ kind \in [Jobs -> C!Sort \cup {"unknown"}]
  /\ auth \in C!Token /\ creds \in BOOLEAN /\ got \in {"nothing", "null", "counts"}
  /\ pc # "idle" => call.made = 0
  /\ pc \in {"create_batch", "create_cudaq_job"} => call.op = "start"
  /\ pc = "cancel_batch" => call.op = "stop"
  /\ pc \in {"get_batch", "get_job"} => call.op = "status"
  /\ pc \in {"get_batch_results", "get_cudaq_job"} =>
       call.op = "result" /\ (call.ripe => job[call.id] = "Completed")
  /\ CloudWhole

CloudSane == vendor = "PasqalCloud" /\ Sane /\ CloudKnows
CloudStep == (Passes \/ Begins \/ Continues \/ Returns) /\ CloudKnows' /\ (Excused => Excused')

LEMMA CloudFacts ==
  ASSUME CloudSane
  PROVE  /\ job \in [Jobs -> JobState] /\ call \in Call /\ Names(call)
         /\ (pc # "idle" => out = NoOut /\ call.made = 0) /\ vendor = "PasqalCloud"
         /\ sort \in [Jobs -> C!Sort] /\ kind \in [Jobs -> C!Sort \cup {"unknown"}]
         /\ auth \in C!Token /\ creds \in BOOLEAN /\ got \in {"nothing", "null", "counts"}
  BY DEF CloudSane, CloudKnows, Sane, Common, CallTypeOK, Reported

\* What a request does to the token: it is renewed, unless its expiry is unreadable.
CloudAuth ==
  /\ auth' \in C!Token /\ UNCHANGED <<vendor, creds>>
  /\ auth = "malformed" => auth' = auth

LEMMA CloudExcuse == ASSUME CloudSane, CloudAuth PROVE Excused => Excused'
  BY DEF Excused, CloudAuth

LEMMA CloudRests ==
  ASSUME CloudSane, Returns, CloudAuth,
         sort' \in [Jobs -> C!Sort], kind' \in [Jobs -> C!Sort \cup {"unknown"}],
         got' \in {"nothing", "null", "counts"}, CloudWhole'
  PROVE  CloudStep
<1>1. pc' = "idle"
  BY DEF Returns, ReturnFrom
<1>2. Excused => Excused'
  BY CloudExcuse
<1>3. QED
  BY <1>1, <1>2, CloudFacts DEF CloudStep, CloudKnows, CloudAuth

LEMMA CloudSends ==
  ASSUME CloudSane, C!Sends, UNCHANGED <<vendor, creds>>
  PROVE  CloudAuth /\ auth' # "stale"
  BY CloudFacts DEF C!Sends, C!Usable, C!MayRenew, C!Token, CloudAuth

LEMMA CloudMisses ==
  ASSUME CloudSane, pc # "idle", C!Misses, UNCHANGED <<vendor, creds>>,
         sort' \in [Jobs -> C!Sort], kind' \in [Jobs -> C!Sort \cup {"unknown"}], UNCHANGED got
  PROVE  CloudStep
<1>1. job' = job /\ CloudAuth
  BY CloudSends, CloudFacts DEF C!Misses, CloudAuth
<1>2. PICK final \in Call :
        /\ ReturnFrom(final, "Other") /\ final.op = call.op /\ final.id = call.id
        /\ final.made = call.made
        /\ final.met # {} \/ Excused
  <2>1. CASE ~C!Usable(auth) /\ C!MayRenew /\ C!ReturnTroubled("renewal", "Other")
    BY <2>1, CloudCalls, MetType, TroubleKnown DEF ReturnTroubled, CloudSane
  <2>2. CASE ~C!Usable(auth) /\ ~C!MayRenew /\ C!Return("Other")
    <3>1. Excused
      BY <2>2, CloudFacts DEF C!MayRenew, Excused
    <3>2. QED
      BY <2>2, <3>1, CloudCalls, CloudFacts DEF Return
  <2>3. CASE C!Sends /\ C!ReturnTroubled("failed", "Other")
    BY <2>3, CloudCalls, MetType, TroubleKnown DEF ReturnTroubled, CloudSane
  <2>4. QED
    BY <2>1, <2>2, <2>3, CloudSends DEF C!Misses
<1>3. Lawful(final, "Other")
  BY <1>1, <1>2, CloudFacts DEF Lawful, Names, Result, Refusal, Terminal
<1>4. Returns
  BY <1>2, <1>3 DEF Returns
<1>5. CloudWhole'
  BY <1>2 DEF CloudWhole, ReturnFrom
<1>6. QED
  BY <1>1, <1>4, <1>5, CloudFacts, CloudRests

LEMMA CloudProgress == ASSUME CloudSane, C!Progress(C!CloudMoves), UNCHANGED <<vendor, C!cloudVars>>
                       PROVE  CloudStep
<1>1. UNCHANGED <<vendor, sort, kind, auth, creds, got>>
  BY DEF C!cloudVars
<1>2. Passes
  <2>1. Progress(C!CloudMoves)
    BY CloudCalls
  <2>2. \A m \in C!CloudMoves : m[1] \in Active \/ (m[1] = "cancelling" /\ m[2] = "Cancelled")
    BY CloudWords, Words DEF C!CloudMoves, Moves
  <2>3. QED
    BY <2>1, <2>2, ProgressPasses DEF CloudSane
<1>3. \A i \in Jobs : job[i] = "Completed" => job'[i] = "Completed"
  BY <1>2, Words DEF Passes, Ripens
<1>4. Excused => Excused'
  BY <1>1 DEF Excused
<1>5. CloudKnows'
  BY <1>1, <1>2, <1>3, CloudFacts DEF CloudKnows, CloudSane, Passes, CloudWhole, Names
<1>6. QED
  BY <1>2, <1>4, <1>5 DEF CloudStep

\* The token grows old, and another instance forgets the kinds of the tasks.
LEMMA CloudTime == ASSUME CloudSane, C!Age \/ C!Restart, UNCHANGED vendor PROVE CloudStep
<1>1. /\ UNCHANGED <<job, pc, call, out, sort, creds, got, vendor>>
      /\ auth' = auth \/ (auth = "fresh" /\ auth' = "stale")
      /\ kind' = kind \/ kind' = [j \in Jobs |-> "unknown"]
  BY DEF C!Age, C!Restart, C!callVars
<1>2. Passes
  BY <1>1, CloudFacts DEF Passes, Ripens
<1>3. auth' \in C!Token /\ kind' \in [Jobs -> C!Sort \cup {"unknown"}]
  BY <1>1, CloudFacts DEF C!Token
<1>4. Excused => Excused'
  BY <1>1 DEF Excused
<1>5. CloudKnows'
  BY <1>1, <1>3 DEF CloudKnows, CloudSane, CloudWhole
<1>6. QED
  BY <1>2, <1>4, <1>5 DEF CloudStep

LEMMA CloudBegins ==
  ASSUME CloudSane, Begins, UNCHANGED <<vendor, sort, kind, auth, creds>>,
         got' \in {"nothing", "null", "counts"},
         \/ pc' \in {"create_batch", "create_cudaq_job"} /\ call'.op = "start"
         \/ pc' = "cancel_batch" /\ call'.op = "stop"
         \/ pc' = "get_batch" /\ call'.op = "status"
         \/ /\ pc' \in {"get_batch_results", "get_cudaq_job"} /\ call'.op = "result"
            /\ call'.ripe => job[call'.id] = "Completed"
  PROVE  CloudStep
<1>1. CloudWhole' /\ (Excused => Excused')
  BY NoCallType DEF CloudWhole, Begins, Excused
<1>2. CloudKnows'
  BY <1>1, CloudFacts DEF CloudKnows, Begins
<1>3. QED
  BY <1>1, <1>2 DEF CloudStep

LEMMA CloudBeginning ==
  ASSUME CloudSane, UNCHANGED vendor,
         C!RejectStart \/ C!TaskStart \/ C!TaskStatus \/ C!TaskStop \/ C!TaskResult
  PROVE  CloudStep
<1>1. /\ UNCHANGED <<sort, kind, auth, creds>> /\ got' \in {"nothing", "null", "counts"}
      /\ C!RejectStart => UNCHANGED got
  BY CloudFacts DEF C!RejectStart, C!TaskStart, C!TaskStatus, C!TaskStop, C!TaskResult, C!cloudVars
<1>2. CASE C!RejectStart
  <2>1. Refuse(Starting, {"UnsupportedPayload", "InvalidInput"})
    BY <1>2, CloudCalls DEF C!RejectStart, Reject
  <2>2. {"UnsupportedPayload", "InvalidInput"} \in SUBSET (Result \ ({"Ok"} \cup Terminal))
    BY DEF Result, Refusal, Terminal
  <2>3. Returns /\ job' = job /\ out'.call.op # "result"
    BY <2>1, <2>2, StartingType, RefuseReturns DEF CloudSane
  <2>4. CloudWhole' /\ CloudAuth
    BY <1>1, <2>3, CloudFacts DEF CloudWhole, CloudAuth
  <2>5. QED
    BY <1>1, <2>3, <2>4, CloudFacts, CloudRests
<1>3. CASE C!TaskStart
  <2>1. PICK step \in {"create_batch", "create_cudaq_job"} : Begin(step, Starting)
    BY <1>3, CloudCalls, CloudWords DEF C!TaskStart
  <2>2. Begins /\ pc' = step /\ call' = Starting
    BY <2>1, StartingType, BeginBegins DEF CloudSane, Names
  <2>3. QED
    BY <1>1, <2>2, StartingType, CloudBegins
<1>4. CASE C!TaskStatus \/ C!TaskStop
  <2>1. PICK op \in {"status", "stop"}, step \in {"cancel_batch", "get_batch"} :
          BeginAbout(op, step) /\ (op = "status" <=> step = "get_batch")
    BY <1>4, CloudCalls DEF C!TaskStatus, C!TaskStop
  <2>2. Begins /\ pc' = step /\ call'.op = op
    BY <2>1, BeginAboutBegins DEF CloudSane, Op
  <2>3. QED
    BY <1>1, <2>1, <2>2, CloudBegins
<1>5. CASE C!TaskResult
  <2>1. PICK j \in Jobs : Begin(C!EndpointOf(kind[j]), About("result", j))
    BY <1>5, CloudCalls DEF C!TaskResult
  <2>2. C!EndpointOf(kind[j]) \in {"get_cudaq_job", "get_batch_results"}
    BY DEF C!EndpointOf
  <2>3. /\ About("result", j) \in Call /\ About("result", j).op = "result"
        /\ About("result", j).made = 0 /\ About("result", j).id = j
        /\ About("result", j).ripe <=> job[j] = "Completed"
    BY AboutType DEF Op
  <2>4. Begins /\ pc' = C!EndpointOf(kind[j]) /\ call' = About("result", j)
    BY <2>1, <2>2, <2>3, BeginBegins DEF CloudSane, Names
  <2>5. QED
    BY <1>1, <2>2, <2>3, <2>4, CloudBegins
<1>6. QED
  BY <1>2, <1>3, <1>4, <1>5

LEMMA CloudStarted ==
  ASSUME CloudSane, UNCHANGED vendor, C!CreateBatch \/ C!CreateCudaqJob
  PROVE  CloudStep
<1>1. /\ pc \in {"create_batch", "create_cudaq_job"} /\ call.op = "start" /\ call.made = 0
      /\ UNCHANGED <<creds, got>>
  BY CloudFacts DEF C!CreateBatch, C!CreateCudaqJob, C!Started, CloudSane, CloudKnows
<1>2. PICK s \in C!Sort : C!Started(s)
  BY DEF C!CreateBatch, C!CreateCudaqJob, C!Sort
<1>3. CASE C!Misses /\ UNCHANGED <<sort, kind>>
  BY <1>1, <1>3, CloudFacts, CloudMisses
<1>4. CASE /\ C!Sent
           /\ \E j \in Jobs :
                /\ job[j] = "absent"
                /\ \E st \in {"created", "queued"} : job' = [job EXCEPT ![j] = st]
                /\ sort' = [sort EXCEPT ![j] = s]
                /\ LET made == [call EXCEPT !.id = j, !.made = @ + 1] IN
                   \/ C!ReturnsOk(made) /\ kind' = [kind EXCEPT ![j] = s]
                   \/ C!LosesReply(made) /\ UNCHANGED kind
  <2>1. PICK j, made :
          /\ j \in Jobs
          /\ \E st \in {"created", "queued"} : job' = [job EXCEPT ![j] = st]
          /\ MadeFor(j, made)
          /\ ReturnsOk(made) \/ LosesReply(made)
          /\ sort' = [sort EXCEPT ![j] = s]
          /\ kind' = kind \/ kind' = [kind EXCEPT ![j] = s]
    BY <1>4, CloudCalls DEF MadeFor
  <2>2. job' \in [Jobs -> JobState]
    BY <2>1, CloudFacts DEF JobState, Active
  <2>3. sort' \in [Jobs -> C!Sort] /\ kind' \in [Jobs -> C!Sort \cup {"unknown"}]
    BY <2>1, CloudFacts
  <2>4. Returns /\ out'.call.op = "start"
    BY <1>1, <2>1, <2>2, SubmitReturns DEF CloudSane
  <2>5. CloudAuth
    BY <1>1, <1>4, CloudSends DEF C!Sent
  <2>6. QED
    BY <1>1, <2>3, <2>4, <2>5, CloudFacts, CloudRests DEF CloudWhole
<1>5. QED
  BY <1>2, <1>3, <1>4 DEF C!Started

LEMMA CloudCancelBatch == ASSUME CloudSane, UNCHANGED vendor, C!CancelBatch PROVE CloudStep
<1>1. /\ pc = "cancel_batch" /\ call.op = "stop" /\ call.made = 0
      /\ UNCHANGED <<sort, kind, creds, got>>
  BY CloudFacts DEF C!CancelBatch, CloudSane, CloudKnows
<1>2. CASE C!Misses
  BY <1>1, <1>2, CloudFacts, CloudMisses
<1>3. CASE C!Sent /\ \E st \in {"cancelling", "Cancelled"} : C!Cancels(st, {"Other"})
  <2>1. PICK st \in {"cancelling", "Cancelled"} : Cancels(st, {"Other"})
    BY <1>3, CloudCalls
  <2>2. {"Other"} \in SUBSET (Result \ ({"Ok"} \cup Terminal))
    BY DEF Result, Terminal
  <2>3. Returns /\ out'.call.op = "stop"
    BY <1>1, <2>1, <2>2, CancelsReturns DEF CloudSane
  <2>4. CloudAuth
    BY <1>1, <1>3, CloudSends DEF C!Sent
  <2>5. QED
    BY <1>1, <2>3, <2>4, CloudFacts, CloudRests DEF CloudWhole
<1>4. QED
  BY <1>2, <1>3 DEF C!CancelBatch

\* A request that reads, and whose answer ends the call.
LEMMA CloudReads ==
  ASSUME CloudSane, pc # "idle", UNCHANGED <<vendor, job, sort, kind, creds>>, C!Sends,
         got' \in {"nothing", "null", "counts"}, NEW res \in Result, Return(res), Lawful(call, res),
         call.op = "result" /\ call.ripe /\ res = "Ok" => got' = "counts"
  PROVE  CloudStep
<1>1. Returns /\ out' = [call |-> call, res |-> res]
  BY PlainReturns DEF CloudSane
<1>2. CloudAuth /\ CloudWhole'
  BY <1>1, CloudSends DEF CloudWhole
<1>3. QED
  BY <1>1, <1>2, CloudFacts, CloudRests

LEMMA CloudStatus == ASSUME CloudSane, UNCHANGED vendor, C!GetBatch \/ C!GetJob PROVE CloudStep
<1>1. /\ pc \in {"get_batch", "get_job"} /\ call.op = "status" /\ call.made = 0 /\ call.id \in Jobs
      /\ UNCHANGED <<sort, kind, creds, got>>
  BY CloudFacts DEF C!GetBatch, C!GetJob, CloudSane, CloudKnows, Names
<1>2. CASE C!Misses
  BY <1>1, <1>2, CloudFacts, CloudMisses
<1>3. ASSUME C!Sends, UNCHANGED job, NEW res \in Result, Return(res),
             res \in {"Other", "TaskNotReady", "Queued", "Running"} \cup Terminal,
             res = "Other" => job[call.id] = "absent",
             res \in Terminal => job[call.id] = res \/ (res = "Cancelled" /\ job[call.id] = "cancelling")
      PROVE  CloudStep
  <2>1. Lawful(call, res)
    BY <1>1, <1>3, CloudFacts DEF Lawful, Terminal
  <2>2. QED
    BY <1>1, <1>3, <2>1, CloudFacts, CloudReads
<1>4. CASE C!Sends /\ UNCHANGED job /\ job[call.id] = "absent" /\ Return("Other")
  BY <1>3, <1>4 DEF Result, Terminal
<1>5. CASE /\ C!Sends /\ UNCHANGED job /\ job[call.id] = "created" /\ Return("TaskNotReady")
  BY <1>3, <1>5 DEF Result, Terminal
<1>6. CASE C!Sends /\ UNCHANGED job /\ Goto("get_job")
  <2>1. UNCHANGED <<call, out>> /\ pc' = "get_job"
    BY <1>6 DEF Goto
  <2>2. Continues
    BY <1>1, <1>6, <2>1, CloudFacts DEF Continues
  <2>3. CloudAuth /\ (Excused => Excused') /\ CloudWhole'
    BY <1>1, <1>6, <2>1, CloudSends, CloudExcuse DEF CloudWhole, CloudSane, CloudKnows
  <2>4. CloudKnows'
    BY <1>1, <1>6, <2>1, <2>3, CloudFacts DEF CloudKnows, CloudAuth
  <2>5. QED
    BY <2>2, <2>3, <2>4 DEF CloudStep
<1>7. CASE /\ C!Sends /\ UNCHANGED job /\ job[call.id] # "absent"
           /\ Return(C!StatusOf(job[call.id]))
  <2>1. /\ C!StatusOf(job[call.id]) \in {"Queued", "Running"} \cup Terminal
        /\ C!StatusOf(job[call.id]) \in Terminal =>
             \/ job[call.id] = C!StatusOf(job[call.id])
             \/ C!StatusOf(job[call.id]) = "Cancelled" /\ job[call.id] = "cancelling"
    <3>1. job[call.id] \in Active \cup {"cancelling"} \cup Terminal
      BY <1>1, <1>7, CloudFacts DEF JobState
    <3>2. QED
      BY <3>1, CloudWords DEF C!StatusOf, Active, Terminal
  <2>2. C!StatusOf(job[call.id]) \in Result /\ C!StatusOf(job[call.id]) # "Other"
    BY <2>1 DEF Result, Terminal
  <2>3. QED
    BY <1>3, <1>7, <2>1, <2>2
<1>8. QED
  BY <1>1, <1>2, <1>4, <1>5, <1>6, <1>7, CloudCalls DEF C!GetBatch, C!GetJob, C!Gets, C!Sent

LEMMA CloudResult ==
  ASSUME CloudSane, UNCHANGED vendor, C!GetBatchResults \/ C!GetCudaqJob
  PROVE  CloudStep
<1>1. /\ pc \in {"get_batch_results", "get_cudaq_job"} /\ call.op = "result" /\ call.made = 0
      /\ call.id \in Jobs /\ UNCHANGED <<sort, kind, creds>>
      /\ call.ripe => job[call.id] = "Completed"
  BY CloudFacts DEF C!GetBatchResults, C!GetCudaqJob, CloudSane, CloudKnows, Names
<1>2. CASE C!Misses /\ UNCHANGED got
  BY <1>1, <1>2, CloudFacts, CloudMisses
<1>3. CASE /\ C!Sends /\ UNCHANGED job /\ got' \in {"nothing", "null", "counts"}
           /\ \E res \in {"Ok", "Other"} : Return(res) /\ (res = "Ok" /\ call.ripe => got' = "counts")
  <2>1. PICK res \in {"Ok", "Other"} : Return(res) /\ (res = "Ok" /\ call.ripe => got' = "counts")
    BY <1>3
  <2>2. Lawful(call, res)
    BY <1>1, <1>3, <2>1, CloudFacts DEF Lawful, Result, Terminal
  <2>3. QED
    BY <1>1, <1>3, <2>1, <2>2, CloudFacts, CloudReads DEF Result
<1>4. CASE C!GetBatchResults
  BY <1>1, <1>2, <1>3, <1>4, CloudCalls DEF C!GetBatchResults, C!Sent
<1>5. CASE C!GetCudaqJob
  BY <1>1, <1>2, <1>3, <1>5, CloudCalls DEF C!GetCudaqJob, C!Sent
<1>6. QED
  BY <1>4, <1>5

LEMMA CloudNext == ASSUME CloudSane, UNCHANGED vendor, C!Next PROVE CloudStep
  BY CloudProgress, CloudTime, CloudBeginning, CloudStarted, CloudCancelBatch, CloudStatus,
     CloudResult DEF C!Next

(***************************************************************************)
(* The IBM Quantum Compute Service and the Qiskit Runtime Service: what    *)
(* holds whatever may go wrong holds of both.                              *)
(***************************************************************************)

A == INSTANCE QuantumCompute WITH Trouble <- AnyTrouble

LEMMA ComputeWords ==
  /\ A!Active = Active /\ A!Terminal = Terminal /\ A!JobState = JobState
  /\ A!NoCall = NoCall /\ A!NoOut = NoOut /\ A!Starting = Starting
  /\ A!CallTypeOK = CallTypeOK /\ A!Moves = Moves
  BY DEF A!Active, Active, A!Terminal, Terminal, A!JobState, JobState, A!Call, Call,
         A!Op, Op, A!AnyTrouble, AnyTrouble, A!NoCall, NoCall, A!NoOut, NoOut,
         A!Refusal, Refusal, A!Result, Result, A!CallTypeOK, CallTypeOK,
         A!Starting, Starting, A!Moves, Moves

LEMMA ComputeCalls ==
  /\ \A final, res : A!ReturnFrom(final, res) = ReturnFrom(final, res)
  /\ \A res : A!Return(res) = Return(res)
  /\ \A step : A!Goto(step) = Goto(step)
  /\ \A t : A!Met(t) = Met(t)
  /\ \A step, begun : A!Begin(step, begun) = Begin(step, begun)
  /\ \A op, j : A!About(op, j) = About(op, j)
  /\ \A op, step : A!BeginAbout(op, step) = BeginAbout(op, step)
  /\ \A moves : A!Progress(moves) = Progress(moves)
  BY ComputeWords
  DEF A!ReturnFrom, ReturnFrom, A!Return, Return, A!Goto, Goto, A!Met, Met,
      A!Begin, Begin, A!BeginAbout, BeginAbout, A!About, About, A!Progress, Progress

LEMMA ComputeTroubled ==
  ASSUME NEW t, NEW res, A!ReturnTroubled(t, res)
  PROVE  Troubled(res)
  BY ComputeCalls DEF A!ReturnTroubled, Troubled

\* One session at most is open, unless a reply was lost or the caller released
\* another one: the session that is held.
Sole == ~stray => \A s \in Sessions : sess[s] = "open" => s = held

Left == \A s \in Sessions : sess[s] \in {"draining", "closed"} => A!Pending(s) = {}

\* The step of the call, its operation and the session it works on.
ComputeAt ==
  /\ pc = "idle" => target = NoSession /\ timely = FALSE
  /\ pc = "check_token" =>
       call.op \in (IF target = NoSession
                    THEN {"acquire", "start", "stop", "status", "result", "query"}
                    ELSE {"acquire", "release"})
  /\ pc = "get_session" => call.op = "acquire" /\ held # NoSession /\ target = NoSession
  /\ pc \in {"list_jobs", "close_session", "update_session"} =>
       call.op \in {"acquire", "release"} /\ target # NoSession
  /\ pc = "create_session" => call.op = "acquire" /\ held = NoSession /\ target = NoSession
  /\ pc = "create_job" => call.op = "start"
  /\ pc = "get_job" => call.op \in {"stop", "status", "result"}
  /\ pc = "cancel_job" => call.op = "stop"
  /\ pc = "get_results" => call.op = "result"
  /\ pc = "get_logs" => call.op = "logs"
  /\ pc = "get_backend" => call.op = "query"

ComputeType ==
  /\ pc \in {"idle", "check_token", "get_session", "list_jobs", "close_session",
             "update_session", "create_session", "create_job", "get_job",
             "cancel_job", "get_results", "get_logs", "get_backend"}
  /\ sess \in [Sessions -> A!SessionState] /\ low \in SUBSET Sessions
  /\ runsIn \in [Jobs -> Sessions \cup {NoSession}]
  /\ held \in Sessions \cup {NoSession} /\ target \in Sessions \cup {NoSession}
  /\ token \in A!Token /\ timely \in BOOLEAN /\ stray \in BOOLEAN
  /\ \A j \in Jobs : job[j] \notin {"created", "cancelling"}

ComputeKnows ==
  /\ ComputeType /\ ComputeAt
  /\ pc # "idle" => call.made = 0
  /\ timely => token \in {"valid", "ageing"}
  /\ pc = "get_job" /\ call.met = {} => timely
  /\ pc = "get_results" => job[call.id] = "Completed"
  /\ pc = "update_session" => A!Pending(target) = {}
  /\ target = NoSession \/ stray \/ target = held
  /\ Sole /\ Left

Compute == {"IBMQuantumComputeService", "QiskitRuntimeService"}
ComputeSane == vendor \in Compute /\ Sane /\ ComputeKnows
ComputeStep == (Passes \/ Begins \/ Continues \/ Returns) /\ ComputeKnows'

LEMMA ComputeFacts ==
  ASSUME ComputeSane
  PROVE  /\ job \in [Jobs -> JobState] /\ call \in Call /\ Names(call)
         /\ \A j \in Jobs : job[j] \notin {"created", "cancelling"}
         /\ (pc # "idle" => out = NoOut /\ call.made = 0)
         /\ vendor \in Compute /\ vendor \notin {"IQMServer", "PasqalCloud"}
         /\ ComputeType /\ ComputeAt /\ Sole /\ Left
  BY DEF ComputeSane, ComputeKnows, ComputeType, Sane, Common, CallTypeOK, Reported, Compute

\* No task begins: nothing new is pending.
Quiet ==
  /\ job' \in [Jobs -> JobState]
  /\ \A j \in Jobs : /\ job'[j] \notin {"created", "cancelling"}
                     /\ job'[j] \in Active => job[j] \in Active
                     /\ job[j] = "Completed" => job'[j] = "Completed"

LEMMA UnchangedQuiet == ASSUME ComputeSane, UNCHANGED job PROVE Quiet
  BY ComputeFacts DEF Quiet

LEMMA PendingShrinks ==
  ASSUME ComputeSane, Quiet, UNCHANGED runsIn, NEW s, A!Pending(s) = {}
  PROVE  A!Pending(s)' = {}
  BY ComputeWords DEF A!Pending, Quiet, A!Active, Active

\* The sessions stay, or one of them closes.
LEMMA SessionsKept ==
  ASSUME ComputeSane, Quiet, UNCHANGED <<held, stray, runsIn>>,
         sess' = sess \/ \E s \in Sessions : A!Pending(s) = {} /\ sess' = [sess EXCEPT ![s] = "closed"]
  PROVE  Sole' /\ Left' /\ sess' \in [Sessions -> A!SessionState]
<1>1. sess' \in [Sessions -> A!SessionState]
  BY ComputeFacts DEF ComputeType, A!SessionState
<1>2. \A s \in Sessions : A!Pending(s) = {} => A!Pending(s)' = {}
  BY PendingShrinks
<1>3. Sole'
  BY ComputeFacts DEF Sole, ComputeType
<1>4. Left'
  BY <1>2, ComputeFacts DEF Left, ComputeType
<1>5. QED
  BY <1>1, <1>3, <1>4

LEMMA ComputeRests ==
  ASSUME ComputeSane, Returns, A!Ends, UNCHANGED token,
         sess' \in [Sessions -> A!SessionState], low' \in SUBSET Sessions,
         runsIn' \in [Jobs -> Sessions \cup {NoSession}], held' \in Sessions \cup {NoSession},
         stray' \in BOOLEAN, \A j \in Jobs : job'[j] \notin {"created", "cancelling"},
         Sole', Left'
  PROVE  ComputeStep
<1>1. pc' = "idle"
  BY DEF Returns, ReturnFrom
<1>2. ComputeType'
  BY <1>1, ComputeFacts DEF ComputeType, A!Ends
<1>3. ComputeAt'
  BY <1>1 DEF ComputeAt, A!Ends
<1>4. QED
  BY <1>1, <1>2, <1>3 DEF ComputeStep, ComputeKnows, A!Ends

\* A call that changes nothing but tasks returns.
LEMMA ComputeReturns ==
  ASSUME ComputeSane, Returns, A!Ends, A!ServiceStays, Quiet
  PROVE  ComputeStep
<1>1. UNCHANGED <<sess, low, runsIn, held, token, stray>>
  BY DEF A!ServiceStays
<1>2. Sole' /\ Left'
  BY <1>1, SessionsKept
<1>3. QED
  BY <1>1, <1>2, ComputeFacts, ComputeRests DEF Quiet, ComputeType

Harmless == Result \ ({"Ok"} \cup Terminal)

LEMMA ComputeKinds ==
  /\ A!FailureKinds \cup {"ResourceNotFound"} \in SUBSET Harmless
  /\ {"Other", "InvalidInput", "UnsupportedPayload", "AuthenticationFailed", "TaskNotFound",
      "TaskNotReady"} \in SUBSET Harmless
  BY DEF A!FailureKinds, Harmless, Result, Refusal, Terminal

\* A call returns an error, or reads what it asked for.
LEMMA ComputeReads ==
  ASSUME ComputeSane, pc # "idle", UNCHANGED job, A!Ends, A!ServiceStays,
         NEW res \in Result, Return(res), Lawful(call, res)
  PROVE  ComputeStep
<1>1. Returns
  BY PlainReturns DEF ComputeSane
<1>2. QED
  BY <1>1, UnchangedQuiet, ComputeReturns

LEMMA ComputeMisses ==
  ASSUME ComputeSane, pc \notin {"idle", "check_token"}, NEW kinds \in SUBSET Harmless,
         A!Misses(kinds)
  PROVE  ComputeStep
<1>1. UNCHANGED job /\ A!Ends /\ A!ServiceStays
  BY DEF A!Misses
<1>2. CASE A!Authorized
  <2>1. PICK res \in kinds : Troubled(res)
    BY <1>2, ComputeTroubled DEF A!Misses
  <2>2. Returns
    BY <1>1, <2>1, ComputeFacts, TroubledReturns DEF Harmless, ComputeSane
  <2>3. QED
    BY <1>1, <2>2, UnchangedQuiet, ComputeReturns
<1>3. CASE ~A!Authorized
  <2>1. Return("AuthenticationFailed")
    BY <1>3, ComputeCalls DEF A!Misses
  <2>2. call.op = "status" => call.met # {}
    BY <1>3 DEF ComputeSane, ComputeKnows, ComputeAt, ComputeType, A!Authorized
  <2>3. Lawful(call, "AuthenticationFailed")
    BY <1>1, <2>2, ComputeFacts DEF Lawful, Result, Refusal, Terminal
  <2>4. QED
    BY <1>1, <2>1, <2>3, ComputeReads DEF Result, Refusal
<1>4. QED
  BY <1>2, <1>3

\* The service on its own: calls know what they knew.
LEMMA ComputePasses ==
  ASSUME ComputeSane, Passes, Quiet, UNCHANGED <<runsIn, held, timely, target, stray>>,
         token' \in A!Token, timely => token' \in {"valid", "ageing"}, low' \in SUBSET Sessions,
         sess' = sess \/ \E s \in Sessions : A!Pending(s) = {} /\ sess' = [sess EXCEPT ![s] = "closed"]
  PROVE  ComputeStep
<1>1. UNCHANGED <<pc, call, out>>
  BY DEF Passes
<1>2. Sole' /\ Left' /\ sess' \in [Sessions -> A!SessionState]
  BY SessionsKept
<1>3. ComputeType'
  BY <1>1, <1>2, ComputeFacts DEF ComputeType, Quiet
<1>4. ComputeAt'
  BY <1>1, ComputeFacts DEF ComputeAt
<1>5. pc' = "get_results" => job'[call'.id] = "Completed"
  BY <1>1, ComputeFacts DEF ComputeSane, ComputeKnows, ComputeAt, Names, Quiet
<1>6. pc' = "update_session" => A!Pending(target)' = {}
  BY <1>1, PendingShrinks DEF ComputeSane, ComputeKnows, A!Pending
<1>7. QED
  BY <1>1, <1>2, <1>3, <1>4, <1>5, <1>6 DEF ComputeStep, ComputeKnows, ComputeSane

LEMMA ComputeProgress ==
  ASSUME ComputeSane, A!Progress(A!Moves), UNCHANGED computeVars
  PROVE  ComputeStep
<1>1. /\ Passes
      /\ \E j \in Jobs, st \in JobState : <<job[j], st>> \in Moves /\ job' = [job EXCEPT ![j] = st]
  <2>1. Progress(Moves)
    BY ComputeCalls, ComputeWords
  <2>2. \A m \in Moves : m[1] \in Active
    BY Words DEF Moves
  <2>3. QED
    BY <2>1, <2>2, ProgressPasses DEF ComputeSane
<1>2. PICK j \in Jobs, st \in JobState : <<job[j], st>> \in Moves /\ job' = [job EXCEPT ![j] = st]
  BY <1>1
<1>3. st \notin {"created", "cancelling"} /\ job[j] \in Active
  BY <1>2 DEF Moves, Active
<1>4. Quiet
  BY <1>2, <1>3, ComputeFacts DEF Quiet, Active
<1>5. QED
  BY <1>1, <1>4, ComputeFacts, ComputePasses DEF computeVars, ComputeSane, ComputeKnows, ComputeType

LEMMA ComputeTime ==
  ASSUME ComputeSane, A!TokenAges \/ A!SessionAges \/ A!SessionEnds
  PROVE  ComputeStep
<1>1. UNCHANGED <<job, pc, call, out>> /\ UNCHANGED <<runsIn, held, timely, target, stray>>
  BY DEF A!TokenAges, A!SessionAges, A!SessionEnds, A!callVars
<1>2. Quiet /\ Passes
  BY <1>1, UnchangedQuiet, ComputeFacts DEF Passes, Ripens
<1>3. /\ token' \in A!Token /\ low' \in SUBSET Sessions
      /\ timely => token' \in {"valid", "ageing"}
  BY ComputeFacts DEF A!TokenAges, A!SessionAges, A!SessionEnds, A!Token, ComputeType,
     ComputeSane, ComputeKnows
<1>4. sess' = sess \/ \E s \in Sessions : A!Pending(s) = {} /\ sess' = [sess EXCEPT ![s] = "closed"]
  BY DEF A!TokenAges, A!SessionAges, A!SessionEnds
<1>5. QED
  BY <1>1, <1>2, <1>3, <1>4, ComputePasses

\* A call goes on, and the sessions and tasks stay.
LEMMA ComputeContinues ==
  ASSUME ComputeSane, pc # "idle", UNCHANGED <<job, out, sess, low, runsIn, held, stray>>,
         call' \in Call, Names(call'), call'.made = 0, ComputeAt', pc' # "idle",
         pc' \in {"check_token", "get_session", "list_jobs", "close_session",
             "update_session", "create_session", "create_job", "get_job",
             "cancel_job", "get_results", "get_logs", "get_backend"},
         target' \in {target, NoSession, held}, token' \in A!Token, timely' \in BOOLEAN,
         timely' => token' \in {"valid", "ageing"},
         pc' = "get_job" /\ call'.met = {} => timely',
         pc' = "get_results" => job[call'.id] = "Completed",
         pc' = "update_session" => A!Pending(target') = {}
  PROVE  ComputeStep
<1>1. Continues
  BY ComputeFacts DEF Continues
<1>2. Quiet /\ Sole' /\ Left'
  BY UnchangedQuiet, SessionsKept
<1>3. ComputeType'
  BY ComputeFacts DEF ComputeType
<1>4. target' = NoSession \/ stray' \/ target' = held'
  BY DEF ComputeSane, ComputeKnows
<1>5. pc' = "update_session" => A!Pending(target)' = {}
  BY DEF A!Pending
<1>6. QED
  BY <1>1, <1>2, <1>3, <1>4, <1>5 DEF ComputeStep, ComputeKnows

LEMMA ComputeCheckToken == ASSUME ComputeSane, A!CheckToken PROVE ComputeStep
<1>1. /\ pc = "check_token" /\ pc' = A!FirstRequest /\ UNCHANGED target
      /\ UNCHANGED <<job, out, sess, low, runsIn, held, stray>>
      /\ timely' = (token' = "valid")
  BY DEF A!CheckToken
<1>2. /\ "renewal" \in AnyTrouble /\ token' \in A!Token
      /\ call' = Met("renewal") \/ (call' = call /\ token' = "valid")
  BY ComputeFacts, ComputeCalls DEF A!CheckToken, A!NeedsRenewal, A!Token, ComputeType, AnyTrouble
<1>3. /\ call' \in Call /\ Names(call') /\ call'.made = 0 /\ call'.op = call.op
      /\ call'.met = {} => timely'
  BY <1>1, <1>2, MetType, ComputeFacts DEF ComputeSane
<1>4. call.op \in (IF target = NoSession
                   THEN {"acquire", "start", "stop", "status", "result", "query"}
                   ELSE {"acquire", "release"})
  BY <1>1, ComputeFacts DEF ComputeAt
<1>5. /\ target # NoSession => pc' = "list_jobs"
      /\ target = NoSession /\ call.op = "acquire" =>
           pc' = IF held = NoSession THEN "create_session" ELSE "get_session"
      /\ call.op = "start" => pc' = "create_job"
      /\ call.op \in {"stop", "status", "result"} => pc' = "get_job"
      /\ call.op = "query" => pc' = "get_backend"
  BY <1>1, <1>4 DEF A!FirstRequest
<1>6. pc' \in {"list_jobs", "create_session", "get_session", "create_job", "get_job", "get_backend"}
  BY <1>4, <1>5
<1>7. ComputeAt'
  BY <1>1, <1>3, <1>4, <1>5, <1>6 DEF ComputeAt
<1>8. QED
  BY <1>1, <1>2, <1>3, <1>6, <1>7, ComputeContinues

LEMMA ComputeBegins ==
  ASSUME ComputeSane, Begins, UNCHANGED <<sess, low, runsIn, held, token, timely>>,
         stray' \in BOOLEAN, stray => stray', target' \in Sessions \cup {NoSession},
         target' = NoSession \/ stray' \/ target' = held,
         \/ pc' = "check_token" /\ target' = NoSession
            /\ call'.op \in {"acquire", "start", "stop", "status", "result", "query"}
         \/ pc' = "check_token" /\ call'.op = "release"  /\ target' # NoSession
         \/ pc' = "get_logs" /\ call'.op = "logs"
  PROVE  ComputeStep
<1>1. UNCHANGED job /\ call'.made = 0
  BY DEF Begins
<1>2. ComputeAt'
  BY DEF ComputeAt
<1>3. ComputeType'
  BY <1>1, ComputeFacts DEF ComputeType
<1>4. Sole' /\ Left'
  BY <1>1, ComputeFacts DEF Sole, Left, A!Pending
<1>5. timely = FALSE
  BY ComputeFacts DEF ComputeAt, Begins
<1>6. QED
  BY <1>1, <1>2, <1>3, <1>4, <1>5 DEF ComputeStep, ComputeKnows

\* A call that names no task begins with a look at the token.
LEMMA ComputeChecks ==
  ASSUME ComputeSane, NEW op \in {"acquire", "start", "query", "release"},
         Begin("check_token", [NoCall EXCEPT !.op = op])
  PROVE  Begins /\ pc' = "check_token" /\ call'.op = op
<1> DEFINE begun == [NoCall EXCEPT !.op = op]
<1>1. begun \in Call /\ begun.op = op /\ begun.made = 0
  BY StartingType DEF Op
<1>2. Names(begun)
  BY <1>1 DEF Names
<1>3. Sane /\ Begin("check_token", begun) /\ "check_token" # "idle"
  BY DEF ComputeSane
<1> HIDE DEF begun
<1>4. QED
  BY <1>1, <1>2, <1>3, BeginBegins

LEMMA ComputeBeginning ==
  ASSUME ComputeSane,
         \/ A!Acquire \/ A!TaskStart \/ A!TaskStop \/ A!TaskStatus \/ A!TaskResult \/ A!TaskLogs
         \/ A!Query \/ A!Release
  PROVE  ComputeStep
<1>1. CASE A!Acquire \/ A!TaskStart \/ A!Query
  <2>1. PICK op \in {"acquire", "start", "query"} :
          Begin("check_token", [NoCall EXCEPT !.op = op]) /\ UNCHANGED computeVars
    BY <1>1, ComputeCalls, ComputeWords DEF A!Acquire, A!TaskStart, A!Query, A!BeginCall,
       A!computeVars, computeVars, Starting
  <2>2. Begins /\ pc' = "check_token" /\ call'.op = op
    BY <2>1, ComputeChecks
  <2>3. pc = "idle" /\ target = NoSession
    BY <2>2, ComputeFacts DEF Begins, ComputeAt
  <2>4. QED
    BY <2>1, <2>2, <2>3, ComputeFacts, ComputeBegins DEF computeVars, ComputeType
<1>2. CASE A!TaskStop \/ A!TaskStatus \/ A!TaskResult \/ A!TaskLogs
  <2>1. PICK op \in {"stop", "status", "result", "logs"}, step \in {"check_token", "get_logs"} :
          /\ BeginAbout(op, step) /\ UNCHANGED computeVars
          /\ op = "logs" <=> step = "get_logs"
    BY <1>2, ComputeCalls DEF A!TaskStop, A!TaskStatus, A!TaskResult, A!TaskLogs, A!BeginTask,
       A!BeginCall, A!computeVars, computeVars, BeginAbout
  <2>2. Begins /\ pc' = step /\ call'.op = op
    BY <2>1, BeginAboutBegins DEF ComputeSane, Op
  <2>3. pc = "idle" /\ target = NoSession
    BY <2>2, ComputeFacts DEF Begins, ComputeAt
  <2>4. QED
    BY <2>1, <2>2, <2>3, ComputeFacts, ComputeBegins DEF computeVars, ComputeType
<1>3. CASE A!Release
  <2>1. /\ Begin("check_token", [NoCall EXCEPT !.op = "release"])
        /\ UNCHANGED <<sess, low, runsIn, held, token, timely>>
        /\ target' \in Sessions /\ stray' = (stray \/ target' # held)
    BY <1>3, ComputeCalls, ComputeWords DEF A!Release
  <2>2. Begins /\ pc' = "check_token" /\ call'.op = "release"
    BY <2>1, ComputeChecks
  <2>3. target' # NoSession
    BY <2>1, SessionAssumption
  <2>4. QED
    BY <2>1, <2>2, <2>3, ComputeFacts, ComputeBegins DEF ComputeType
<1>4. QED
  BY <1>1, <1>2, <1>3

\* An error returns, and nothing changes.
LEMMA ComputeRefuses ==
  ASSUME ComputeSane, pc # "idle", UNCHANGED job, A!Ends, A!ServiceStays,
         NEW res \in {"Other", "InvalidInput", "UnsupportedPayload"}, A!Return(res),
         call.op # "status"
  PROVE  ComputeStep
<1>1. Lawful(call, res) /\ Return(res)
  BY ComputeFacts, ComputeCalls DEF Lawful, Result, Refusal, Terminal
<1>2. QED
  BY <1>1, ComputeReads DEF Result, Refusal

LEMMA ComputeGetSession == ASSUME ComputeSane, A!GetSession PROVE ComputeStep
<1>1. pc = "get_session" /\ call.op = "acquire" /\ held # NoSession /\ call.made = 0
  BY ComputeFacts DEF A!GetSession, ComputeAt
<1>2. CASE A!Return("Ok") /\ A!Ends /\ UNCHANGED job /\ A!ServiceStays
  <2>1. Lawful(call, "Ok") /\ Return("Ok")
    BY <1>1, <1>2, ComputeFacts, ComputeCalls DEF Lawful, Result, Refusal, Terminal
  <2>2. QED
    BY <1>1, <1>2, <2>1, ComputeReads DEF Result
<1>3. CASE /\ A!Goto("check_token") /\ target' = held
           /\ UNCHANGED <<job, timely>> /\ A!ServiceStays
  <2>1. /\ pc' = "check_token" /\ UNCHANGED <<call, out, job, timely>>
        /\ UNCHANGED <<sess, low, runsIn, held, token, stray>>
    BY <1>3 DEF A!Goto, A!ServiceStays
  <2>2. ComputeAt'
    BY <1>1, <1>3, <2>1 DEF ComputeAt
  <2>3. QED
    BY <1>1, <1>3, <2>1, <2>2, ComputeFacts, ComputeContinues DEF ComputeType, ComputeSane, ComputeKnows
<1>4. CASE A!Misses(A!FailureKinds)
  BY <1>1, <1>4, ComputeKinds, ComputeMisses
<1>5. QED
  BY <1>2, <1>3, <1>4 DEF A!GetSession, A!Replaces

LEMMA ComputeListJobs == ASSUME ComputeSane, A!ListJobs PROVE ComputeStep
<1>1. pc = "list_jobs" /\ call.op \in {"acquire", "release"} /\ target # NoSession /\ call.made = 0
  BY ComputeFacts DEF A!ListJobs, ComputeAt
<1>2. CASE A!Goto(A!CloseOrUpdate(A!Pending(target))) /\ A!Stays /\ UNCHANGED job /\ A!ServiceStays
  <2>1. /\ pc' \in {"close_session", "update_session"}
        /\ pc' = "update_session" => A!Pending(target) = {}
        /\ UNCHANGED <<call, out, job, timely, target>>
        /\ UNCHANGED <<sess, low, runsIn, held, token, stray>>
    BY <1>2 DEF A!Goto, A!ServiceStays, A!Stays, A!CloseOrUpdate
  <2>2. ComputeAt'
    BY <1>1, <2>1 DEF ComputeAt
  <2>3. A!Pending(target') = A!Pending(target)
    BY <2>1 DEF A!Pending
  <2>4. QED
    BY <1>1, <2>1, <2>2, <2>3, ComputeFacts, ComputeContinues DEF ComputeType, ComputeSane, ComputeKnows
<1>3. CASE A!Misses(A!FailureKinds)
  BY <1>1, <1>3, ComputeKinds, ComputeMisses
<1>4. QED
  BY <1>2, <1>3 DEF A!ListJobs

\* The session that the call works on is closed, or drains.
LEMMA ComputeReleases ==
  ASSUME ComputeSane, pc \in {"close_session", "update_session"}, Quiet, UNCHANGED <<runsIn, token>>,
         NEW old \in Sessions, target = old,
         NEW st \in {"draining", "closed"}, sess' = [sess EXCEPT ![old] = st],
         low' \in SUBSET Sessions, A!Pending(old)' = {}, A!Released \/ A!ReleaseLost
  PROVE  ComputeStep
<1>1. /\ call.op \in {"acquire", "release"} /\ target # NoSession /\ call.made = 0
      /\ (old = held \/ stray)
  BY ComputeFacts DEF ComputeAt, ComputeType, ComputeSane, ComputeKnows
<1>2. sess' \in [Sessions -> A!SessionState]
  BY ComputeFacts DEF ComputeType, A!SessionState
<1>3. Left'
  <2>1. ASSUME NEW s \in Sessions, sess'[s] \in {"draining", "closed"}
        PROVE  A!Pending(s)' = {}
    <3>1. CASE s = old
      BY <3>1
    <3>2. CASE s # old
      BY <2>1, <3>2, ComputeFacts, PendingShrinks DEF Left, ComputeType
    <3>3. QED
      BY <3>1, <3>2
  <2>2. QED
    BY <2>1 DEF Left
<1>4. job' \in [Jobs -> JobState] /\ \A j \in Jobs : job'[j] \notin {"created", "cancelling"}
  BY DEF Quiet
<1>5. CASE A!Released
  <2>1. held' = NoSession /\ target' = NoSession /\ UNCHANGED stray
    BY <1>5 DEF A!Released
  <2>2. Sole'
    BY <1>1, <2>1, ComputeFacts DEF Sole, ComputeType
  <2>3. CASE call.op = "acquire"
    <3>1. pc' = "create_session" /\ UNCHANGED <<call, out, timely>>
      BY <1>5, <2>3 DEF A!Released, A!Goto
    <3>2. Continues
      BY <1>4, <3>1, ComputeFacts DEF Continues
    <3>3. ComputeType' /\ ComputeAt'
      BY <1>2, <1>4, <2>1, <2>3, <3>1, ComputeFacts DEF ComputeType, ComputeAt
    <3>4. QED
      BY <1>3, <2>1, <2>2, <3>1, <3>2, <3>3, ComputeFacts
      DEF ComputeStep, ComputeKnows, ComputeSane
  <2>4. CASE call.op = "release"
    <3>1. Return("Ok") /\ timely' = FALSE
      BY <1>5, <2>4, ComputeCalls DEF A!Released
    <3>2. Lawful(call, "Ok")
      BY <1>4, <2>4, ComputeFacts DEF Lawful, Result, Refusal, Terminal
    <3>3. Returns
      BY <3>1, <3>2, PlainReturns DEF ComputeSane, Result
    <3>4. QED
      BY <1>2, <1>3, <1>4, <2>1, <2>2, <3>1, <3>3, ComputeFacts, ComputeRests
      DEF A!Ends, ComputeType
  <2>5. QED
    BY <1>1, <2>3, <2>4
<1>6. CASE A!ReleaseLost
  <2>1. A!Ends /\ stray' = TRUE /\ UNCHANGED held
    BY <1>6 DEF A!ReleaseLost
  <2>2. PICK t \in AnyTrouble : ReturnFrom(Met(t), "Other")
    BY <1>6, ComputeTroubled DEF A!ReleaseLost, Troubled
  <2>3. Lawful(Met(t), "Other")
    BY <1>1, <1>4, MetType, ComputeFacts DEF Lawful, Result, Refusal, Terminal, ComputeSane
  <2>4. Returns
    BY <2>2, <2>3, MetType DEF Returns, ComputeSane, Result, Refusal
  <2>5. Sole'
    BY <2>1 DEF Sole
  <2>6. QED
    BY <1>2, <1>3, <1>4, <2>1, <2>4, <2>5, ComputeFacts, ComputeRests DEF ComputeType
<1>7. QED
  BY <1>5, <1>6

LEMMA ComputeCloseSession == ASSUME ComputeSane, A!CloseSession PROVE ComputeStep
<1>1. pc = "close_session" /\ call.op \in {"acquire", "release"} /\ target \in Sessions
  BY ComputeFacts DEF A!CloseSession, ComputeAt, ComputeType
<1>a. PICK old \in Sessions : target = old
  BY <1>1
<1>2. CASE /\ sess' = [sess EXCEPT ![target] = "closed"]
           /\ low' = low \ {target}
           /\ job' = [j \in Jobs |-> IF j \in A!Pending(target) THEN "Cancelled" ELSE job[j]]
           /\ UNCHANGED <<runsIn, token>>
           /\ A!Released \/ A!ReleaseLost
  <2>1. \A j \in A!Pending(old) : j \in Jobs /\ job[j] \in Active
    BY ComputeWords DEF A!Pending
  <2>2. Quiet
    BY <1>a, <1>2, <2>1, ComputeFacts DEF Quiet, JobState, Terminal, Active
  <2>3. A!Pending(old)' = {}
    BY <1>a, <1>2, <2>2, ComputeWords DEF A!Pending, Quiet, Active
  <2>4. low' \in SUBSET Sessions
    BY <1>2, ComputeFacts DEF ComputeType
  <2>5. QED
    BY <1>a, <1>1, <1>2, <2>2, <2>3, <2>4, ComputeReleases
<1>3. CASE A!Return("Other") /\ A!Ends /\ UNCHANGED job /\ A!ServiceStays
  BY <1>1, <1>3, ComputeRefuses
<1>4. CASE A!Misses(A!FailureKinds)
  BY <1>1, <1>4, ComputeKinds, ComputeMisses
<1>5. QED
  BY <1>2, <1>3, <1>4 DEF A!CloseSession

LEMMA ComputeUpdateSession == ASSUME ComputeSane, A!UpdateSession PROVE ComputeStep
<1>1. pc = "update_session" /\ call.op \in {"acquire", "release"} /\ target \in Sessions
  BY ComputeFacts DEF A!UpdateSession, ComputeAt, ComputeType
<1>a. PICK old \in Sessions : target = old
  BY <1>1
<1>2. CASE /\ sess' = [sess EXCEPT ![target] = "draining"]
           /\ UNCHANGED <<job, low, runsIn, token>>
           /\ A!Released \/ A!ReleaseLost
  <2>1. A!Pending(old) = {}
    BY <1>a, <1>1 DEF ComputeSane, ComputeKnows
  <2>b. A!Pending(old)' = {}
    BY <1>2, <2>1, PendingShrinks, UnchangedQuiet
  <2>2. low' \in SUBSET Sessions
    BY <1>2, ComputeFacts DEF ComputeType
  <2>3. QED
    BY <1>a, <1>1, <1>2, <2>b, <2>2, UnchangedQuiet, ComputeReleases
<1>3. CASE A!Return("Other") /\ A!Ends /\ UNCHANGED job /\ A!ServiceStays
  BY <1>1, <1>3, ComputeRefuses
<1>4. CASE A!Misses(A!FailureKinds)
  BY <1>1, <1>4, ComputeKinds, ComputeMisses
<1>5. QED
  BY <1>2, <1>3, <1>4 DEF A!UpdateSession

LEMMA ComputeCreateSession == ASSUME ComputeSane, A!CreateSession PROVE ComputeStep
<1>1. /\ pc = "create_session" /\ call.op = "acquire" /\ held = NoSession /\ target = NoSession
      /\ call.made = 0
  BY ComputeFacts DEF A!CreateSession, ComputeAt
<1>2. CASE /\ UNCHANGED <<job, low, runsIn, token>> /\ A!Ends
           /\ \E s \in Sessions :
                /\ sess[s] = "absent"
                /\ sess' = [sess EXCEPT ![s] = "open"]
                /\ \/ A!Return("Ok") /\ held' = s /\ UNCHANGED stray
                   \/ A!ReturnTroubled("lost", "Other") /\ stray' = TRUE /\ UNCHANGED held
  <2>1. PICK s \in Sessions :
          /\ sess[s] = "absent"
          /\ sess' = [sess EXCEPT ![s] = "open"]
          /\ \/ A!Return("Ok") /\ held' = s /\ UNCHANGED stray
             \/ A!ReturnTroubled("lost", "Other") /\ stray' = TRUE /\ UNCHANGED held
    BY <1>2
  <2>2. sess' \in [Sessions -> A!SessionState] /\ sess \in [Sessions -> A!SessionState]
    BY <2>1, ComputeFacts DEF ComputeType, A!SessionState
  <2>3. /\ held' \in Sessions \cup {NoSession} /\ stray' \in BOOLEAN
        /\ low' \in SUBSET Sessions /\ runsIn' \in [Jobs -> Sessions \cup {NoSession}]
    BY <1>2, <2>1, ComputeFacts DEF ComputeType
  <2>4. Left'
    BY <1>2, <2>1, <2>2, ComputeFacts DEF Left, A!Pending
  <2>5. Sole'
    BY <1>1, <2>1, <2>2, ComputeFacts, SessionAssumption DEF Sole
  <2>6. Returns
    <3>1. CASE A!Return("Ok")
      <4>1. Lawful(call, "Ok") /\ Return("Ok")
        BY <1>1, <1>2, <3>1, ComputeFacts, ComputeCalls DEF Lawful, Result, Refusal, Terminal
      <4>2. QED
        BY <4>1, PlainReturns DEF ComputeSane, Result
    <3>2. CASE A!ReturnTroubled("lost", "Other")
      BY <1>1, <1>2, <3>2, ComputeTroubled, ComputeFacts, ComputeKinds, TroubledReturns
      DEF ComputeSane, Harmless
    <3>3. QED
      BY <2>1, <3>1, <3>2
  <2>7. QED
    BY <1>2, <2>2, <2>3, <2>4, <2>5, <2>6, ComputeFacts, ComputeRests
<1>3. CASE A!Misses(A!FailureKinds)
  BY <1>1, <1>3, ComputeKinds, ComputeMisses
<1>4. QED
  BY <1>2, <1>3 DEF A!CreateSession

LEMMA ComputeRejectStart == ASSUME ComputeSane, A!RejectStart PROVE ComputeStep
  BY ComputeFacts, ComputeRefuses DEF A!RejectStart, ComputeAt

LEMMA ComputeCreateJob == ASSUME ComputeSane, A!CreateJob PROVE ComputeStep
<1>1. pc = "create_job" /\ call.op = "start" /\ call.made = 0
  BY ComputeFacts DEF A!CreateJob, ComputeAt
<1>2. CASE /\ held # NoSession => sess[held] = "open"
           /\ \E j \in Jobs :
                /\ job[j] = "absent"
                /\ job' = [job EXCEPT ![j] = "queued"]
                /\ runsIn' = [runsIn EXCEPT ![j] = held]
                /\ LET made == [call EXCEPT !.id = j, !.made = @ + 1]
                   IN A!ReturnsOk(made) \/ A!LosesReply(made)
           /\ A!Ends
           /\ UNCHANGED <<sess, low, held, token, stray>>
  <2>1. PICK j, made :
          /\ j \in Jobs
          /\ job' = [job EXCEPT ![j] = "queued"]
          /\ runsIn' = [runsIn EXCEPT ![j] = held]
          /\ MadeFor(j, made)
          /\ \/ ReturnFrom(made, "Ok")
             \/ ReturnFrom([made EXCEPT !.met = @ \cup {"lost"}], "Other")
    BY <1>2, ComputeCalls DEF A!ReturnsOk, A!LosesReply, MadeFor
  <2>2. job' \in [Jobs -> JobState] /\ \A i \in Jobs : job'[i] \notin {"created", "cancelling"}
    BY <2>1, ComputeFacts DEF JobState, Active
  <2>3. Returns
    BY <1>1, <2>1, <2>2, MadeReturns DEF ComputeSane
  <2>4. runsIn \in [Jobs -> Sessions \cup {NoSession}]
        /\ runsIn' \in [Jobs -> Sessions \cup {NoSession}]
    BY <2>1, ComputeFacts DEF ComputeType
  <2>5. Left'
    <3>1. ASSUME NEW s \in Sessions, sess[s] \in {"draining", "closed"}
          PROVE  A!Pending(s)' = {}
      <4>1. s # held /\ A!Pending(s) = {}
        BY <1>2, <3>1, SessionAssumption, ComputeFacts DEF Left
      <4>2. \A i \in Jobs : i # j => job'[i] = job[i] /\ runsIn'[i] = runsIn[i]
        BY <2>1, <2>4, ComputeFacts
      <4>3. runsIn'[j] # s
        BY <2>1, <2>4, <4>1
      <4>4. QED
        BY <4>1, <4>2, <4>3 DEF A!Pending
    <3>2. QED
      BY <1>2, <3>1 DEF Left
  <2>6. Sole'
    BY <1>2, ComputeFacts DEF Sole
  <2>7. QED
    BY <1>2, <2>2, <2>3, <2>4, <2>5, <2>6, ComputeFacts, ComputeRests DEF ComputeType
<1>3. CASE /\ \E res \in {"InvalidInput", "Other"} : A!Return(res)
           /\ UNCHANGED job /\ A!Ends /\ A!ServiceStays
  BY <1>1, <1>3, ComputeRefuses
<1>4. CASE A!Misses(A!FailureKinds \cup {"ResourceNotFound"})
  BY <1>1, <1>4, ComputeKinds, ComputeMisses
<1>5. QED
  BY <1>2, <1>3, <1>4 DEF A!CreateJob

\* The call goes on to its next request.
LEMMA ComputeGoes ==
  ASSUME ComputeSane, pc # "idle", UNCHANGED job, A!ServiceStays, A!Stays,
         \/ A!Goto("cancel_job") /\ call.op = "stop"
         \/ A!Goto("get_results") /\ call.op = "result" /\ job[call.id] = "Completed"
  PROVE  ComputeStep
<1>1. /\ UNCHANGED <<call, out, timely, target, sess, low, runsIn, held, token, stray>>
      /\ \/ pc' = "cancel_job" /\ call'.op = "stop"
         \/ pc' = "get_results" /\ call'.op = "result" /\ job[call'.id] = "Completed"
  BY DEF A!ServiceStays, A!Stays, A!Goto
<1>2. ComputeAt'
  BY <1>1 DEF ComputeAt
<1>3. QED
  BY <1>1, <1>2, ComputeFacts, ComputeContinues DEF ComputeType, ComputeSane, ComputeKnows

LEMMA ComputeGetJob == ASSUME ComputeSane, A!GetJob PROVE ComputeStep
<1>1. /\ pc = "get_job" /\ call.op \in {"stop", "status", "result"} /\ call.made = 0
      /\ call.id \in Jobs /\ job[call.id] \in JobState \ {"created", "cancelling"}
  BY ComputeFacts DEF A!GetJob, ComputeAt, Names
<1>2. CASE A!Misses(A!FailureKinds)
  BY <1>1, <1>2, ComputeKinds, ComputeMisses
<1>3. ASSUME UNCHANGED job, A!Ends, A!ServiceStays, NEW res \in Result, A!Return(res),
             call.op = "status" => res # "Other" /\ res # "AuthenticationFailed",
             res = "TaskNotFound" => job[call.id] = "absent",
             call.op = "stop" /\ res = "Ok" => job[call.id] \notin Active,
             call.op = "status" /\ res \in Terminal => job[call.id] = res,
             call.op = "result" => res # "Ok"
      PROVE  ComputeStep
  <2>1. Lawful(call, res) /\ Return(res)
    BY <1>1, <1>3, ComputeFacts, ComputeCalls DEF Lawful
  <2>2. QED
    BY <1>1, <1>3, <2>1, ComputeReads
<1>4. CASE /\ UNCHANGED job /\ A!Ends /\ A!ServiceStays
           /\ job[call.id] = "absent" /\ A!Return("TaskNotFound")
  BY <1>3, <1>4 DEF Result, Refusal, Terminal
<1>5. CASE /\ UNCHANGED job /\ A!ServiceStays /\ job[call.id] # "absent"
           /\ \/ call.op = "stop" /\ A!MustCancel(job[call.id])
              \/ call.op = "result" /\ A!MayRead(job[call.id])
           /\ A!Goto(IF call.op = "stop" THEN "cancel_job" ELSE "get_results") /\ A!Stays
  BY <1>1, <1>5, ComputeGoes DEF A!MayRead
<1>6. CASE /\ UNCHANGED job /\ A!ServiceStays /\ A!Ends
           /\ call.op = "stop" /\ ~A!MustCancel(job[call.id]) /\ A!Return("Ok")
  <2>1. job[call.id] \notin Active
    BY <1>1, <1>6 DEF A!MustCancel, Active
  <2>2. QED
    BY <1>3, <1>6, <2>1 DEF Result
<1>7. CASE /\ UNCHANGED job /\ A!ServiceStays /\ A!Ends
           /\ call.op = "result" /\ A!Return("TaskNotReady")
  BY <1>3, <1>7 DEF Result, Terminal
<1>8. CASE /\ UNCHANGED job /\ A!ServiceStays /\ A!Ends /\ job[call.id] # "absent"
           /\ call.op = "status" /\ A!Return(A!StatusOf(job[call.id]))
  <2>1. /\ A!StatusOf(job[call.id]) \in {"Queued", "Running"} \cup Terminal
        /\ A!StatusOf(job[call.id]) \in Terminal => A!StatusOf(job[call.id]) = job[call.id]
    <3>1. job[call.id] \in {"queued", "running"} \cup Terminal
      BY <1>1, <1>8 DEF JobState, Active
    <3>2. QED
      BY <3>1, ComputeWords DEF A!StatusOf, Terminal
  <2>2. A!StatusOf(job[call.id]) \in Result \ ({"Other", "AuthenticationFailed", "TaskNotFound"})
    BY <2>1 DEF Result, Terminal
  <2>3. QED
    BY <1>3, <1>8, <2>1, <2>2
<1>9. QED
  <2>1. CASE call.op = "stop"
    BY <1>1, <1>2, <1>4, <1>5, <1>6, <2>1 DEF A!GetJob
  <2>2. CASE call.op = "status"
    BY <1>1, <1>2, <1>4, <1>8, <2>2 DEF A!GetJob
  <2>3. CASE call.op = "result"
    BY <1>1, <1>2, <1>4, <1>5, <1>7, <2>3 DEF A!GetJob
  <2>4. QED
    BY <1>1, <2>1, <2>2, <2>3

LEMMA ComputeCancelJob == ASSUME ComputeSane, A!CancelJob PROVE ComputeStep
<1>1. pc = "cancel_job" /\ call.op = "stop" /\ call.made = 0 /\ call.id \in Jobs
  BY ComputeFacts DEF A!CancelJob, ComputeAt, Names
<1>2. CASE A!Cancels("Cancelled", A!FailureKinds) /\ A!Ends /\ A!ServiceStays
  <2>1. \/ /\ job[call.id] \in Active
           /\ job' = [job EXCEPT ![call.id] = "Cancelled"]
           /\ Return("Ok") \/ Troubled("Other")
        \/ job' = job /\ \E res \in A!FailureKinds : Return(res)
    BY <1>2, ComputeCalls, ComputeWords, ComputeTroubled DEF A!Cancels
  <2>2. A!FailureKinds \in SUBSET (Result \ ({"Ok"} \cup Terminal))
    BY ComputeKinds DEF Harmless
  <2>3. Returns
    BY <1>1, <2>1, <2>2, CancelReturns DEF ComputeSane
  <2>4. Quiet
    BY <1>1, <2>1, ComputeFacts DEF Quiet, JobState, Terminal, Active
  <2>5. QED
    BY <1>2, <2>3, <2>4, ComputeReturns
<1>3. CASE A!Misses(A!FailureKinds)
  BY <1>1, <1>3, ComputeKinds, ComputeMisses
<1>4. QED
  BY <1>2, <1>3 DEF A!CancelJob

LEMMA ComputeAnswers ==
  ASSUME ComputeSane, A!GetResults \/ A!GetLogs \/ A!GetBackend
  PROVE  ComputeStep
<1>1. /\ pc \in {"get_results", "get_logs", "get_backend"} /\ call.op \in {"result", "logs", "query"}
      /\ call.op = "result" => job[call.id] = "Completed"
      /\ call.made = 0
  BY ComputeFacts DEF A!GetResults, A!GetLogs, A!GetBackend, ComputeAt, ComputeSane, ComputeKnows
<1>2. CASE /\ UNCHANGED job /\ A!Ends /\ A!ServiceStays
           /\ \E res \in {"Ok", "TaskNotFound"} : A!Return(res)
  <2>1. PICK res \in {"Ok", "TaskNotFound"} : Return(res)
    BY <1>2, ComputeCalls
  <2>2. Lawful(call, res)
    BY <1>1, <1>2, ComputeFacts DEF Lawful, Result, Refusal, Terminal
  <2>3. QED
    BY <1>1, <1>2, <2>1, <2>2, ComputeReads DEF Result, Refusal
<1>3. CASE A!Misses(A!FailureKinds) \/ A!Misses(A!FailureKinds \cup {"ResourceNotFound"})
  BY <1>1, <1>3, ComputeKinds, ComputeMisses
<1>4. QED
  BY <1>2, <1>3 DEF A!GetResults, A!GetLogs, A!GetBackend

LEMMA ComputeNext == ASSUME ComputeSane, A!Next PROVE ComputeStep
<1>1. UNCHANGED A!computeVars => UNCHANGED computeVars
  BY DEF A!computeVars, computeVars
<1>2. QED
  BY <1>1, ComputeProgress, ComputeTime, ComputeCheckToken, ComputeBeginning, ComputeGetSession,
     ComputeCreateSession, ComputeListJobs, ComputeCloseSession, ComputeUpdateSession,
     ComputeRejectStart, ComputeCreateJob, ComputeGetJob, ComputeCancelJob, ComputeAnswers
  DEF A!Next

-----------------------------------------------------------------------------
(* What may go wrong of less is among what may go wrong of all. *)

LEMMA QuantumComputeWithin == ASSUME Assumption, Q!Next PROVE A!Next
<1>1. /\ Q!Active = A!Active /\ Q!Moves = A!Moves /\ Q!NoCall = A!NoCall
      /\ Q!Starting = A!Starting /\ Q!FailureKinds = A!FailureKinds /\ Q!JobState = A!JobState
      /\ Q!Authorized = A!Authorized /\ Q!Ends = A!Ends /\ Q!Stays = A!Stays
      /\ Q!ServiceStays = A!ServiceStays /\ Q!FirstRequest = A!FirstRequest
      /\ UNCHANGED Q!computeVars <=> UNCHANGED A!computeVars
  BY DEF Q!Active, A!Active, Q!Terminal, A!Terminal, Q!JobState, A!JobState, Q!Moves, A!Moves,
     Q!NoCall, A!NoCall, Q!NoOut, A!NoOut, Q!Starting, A!Starting, Q!FailureKinds, A!FailureKinds,
     Q!Authorized, A!Authorized, Q!Ends, A!Ends, Q!Stays, A!Stays, Q!ServiceStays, A!ServiceStays,
     Q!FirstRequest, A!FirstRequest, Q!computeVars, A!computeVars
<1>2. /\ \A final, res : Q!ReturnFrom(final, res) = A!ReturnFrom(final, res)
      /\ \A res : Q!Return(res) = A!Return(res)
      /\ \A step : Q!Goto(step) = A!Goto(step)
      /\ \A t : Q!Met(t) = A!Met(t)
      /\ \A step, begun : Q!Begin(step, begun) = A!Begin(step, begun)
      /\ \A op, j : Q!About(op, j) = A!About(op, j)
      /\ \A op, step : Q!BeginAbout(op, step) = A!BeginAbout(op, step)
      /\ \A moves : Q!Progress(moves) = A!Progress(moves)
      /\ \A made : Q!ReturnsOk(made) = A!ReturnsOk(made)
      /\ \A s : Q!Pending(s) = A!Pending(s)
      /\ \A pending : Q!CloseOrUpdate(pending) = A!CloseOrUpdate(pending)
      /\ Q!Replaces = A!Replaces /\ \A t : Q!NeedsRenewal(t) = A!NeedsRenewal(t)
  BY <1>1 DEF Q!ReturnFrom, A!ReturnFrom, Q!Return, A!Return, Q!Goto, A!Goto, Q!Met, A!Met,
     Q!Begin, A!Begin, Q!NoOut, A!NoOut, Q!About, A!About, Q!BeginAbout, A!BeginAbout, Q!Progress,
     A!Progress, Q!ReturnsOk, A!ReturnsOk, Q!Pending, A!Pending, Q!CloseOrUpdate, A!CloseOrUpdate,
     Q!Replaces, A!Replaces, Q!NeedsRenewal, A!NeedsRenewal
<1>3. \A t, res : Q!ReturnTroubled(t, res) => A!ReturnTroubled(t, res)
  BY <1>2 DEF Q!ReturnTroubled, A!ReturnTroubled, Assumption, AnyTrouble
<1>4. \A made : Q!LosesReply(made) => A!LosesReply(made)
  BY <1>2 DEF Q!LosesReply, A!LosesReply, Assumption, AnyTrouble
<1>5. \A kinds : Q!Misses(kinds) => A!Misses(kinds)
  BY <1>1, <1>2, <1>3 DEF Q!Misses, A!Misses
<1>6. \A st, kinds : Q!Cancels(st, kinds) => A!Cancels(st, kinds)
  BY <1>1, <1>2, <1>3 DEF Q!Cancels, A!Cancels
<1>7. (Q!Released => A!Released) /\ (Q!ReleaseLost => A!ReleaseLost)
  BY <1>1, <1>2, <1>3 DEF Q!Released, A!Released, Q!ReleaseLost, A!ReleaseLost
<1>8. /\ Q!TokenAges => A!TokenAges
      /\ Q!SessionAges => A!SessionAges
      /\ Q!SessionEnds => A!SessionEnds
  BY <1>2 DEF Q!TokenAges, A!TokenAges, Q!SessionAges, A!SessionAges, Q!SessionEnds, A!SessionEnds,
     Q!callVars, A!callVars
<1>9. Q!CheckToken => A!CheckToken
  BY <1>1, <1>2 DEF Q!CheckToken, A!CheckToken, Assumption, AnyTrouble
<1>10. /\ (Q!Acquire => A!Acquire) /\ (Q!TaskStart => A!TaskStart)
       /\ (Q!Release => A!Release) /\ (Q!Query => A!Query)
  BY <1>1, <1>2 DEF Q!Acquire, A!Acquire, Q!TaskStart, A!TaskStart, Q!Release, A!Release, Q!Query,
     A!Query, Q!BeginCall, A!BeginCall
<1>11. /\ (Q!TaskStop => A!TaskStop) /\ (Q!TaskStatus => A!TaskStatus)
       /\ (Q!TaskResult => A!TaskResult) /\ (Q!TaskLogs => A!TaskLogs)
  BY <1>1, <1>2 DEF Q!TaskStop, A!TaskStop, Q!TaskStatus, A!TaskStatus, Q!TaskResult, A!TaskResult,
     Q!TaskLogs, A!TaskLogs, Q!BeginTask, A!BeginTask, Q!BeginCall, A!BeginCall
<1>12. Q!GetSession => A!GetSession
  BY <1>1, <1>2, <1>5 DEF Q!GetSession, A!GetSession
<1>13. Q!CreateSession => A!CreateSession
  BY <1>1, <1>2, <1>3, <1>5 DEF Q!CreateSession, A!CreateSession
<1>14. Q!ListJobs => A!ListJobs
  BY <1>1, <1>2, <1>5 DEF Q!ListJobs, A!ListJobs
<1>15. Q!CloseSession => A!CloseSession
  BY <1>1, <1>2, <1>5, <1>7 DEF Q!CloseSession, A!CloseSession
<1>16. Q!UpdateSession => A!UpdateSession
  BY <1>1, <1>2, <1>5, <1>7 DEF Q!UpdateSession, A!UpdateSession
<1>17. Q!RejectStart => A!RejectStart
  BY <1>1, <1>2 DEF Q!RejectStart, A!RejectStart
<1>18. Q!CreateJob => A!CreateJob
  BY <1>1, <1>2, <1>4, <1>5 DEF Q!CreateJob, A!CreateJob
<1>19. Q!GetJob => A!GetJob
  BY <1>1, <1>2, <1>5 DEF Q!GetJob, A!GetJob, Q!MustCancel, A!MustCancel, Q!MayRead, A!MayRead,
     Q!StatusOf, A!StatusOf, Q!Terminal, A!Terminal
<1>20. Q!CancelJob => A!CancelJob
  BY <1>1, <1>5, <1>6 DEF Q!CancelJob, A!CancelJob
<1>21. /\ (Q!GetResults => A!GetResults) /\ (Q!GetLogs => A!GetLogs)
       /\ (Q!GetBackend => A!GetBackend)
  BY <1>1, <1>2, <1>5 DEF Q!GetResults, A!GetResults, Q!GetLogs, A!GetLogs, Q!GetBackend, A!GetBackend
<1>22. Q!Progress(Q!Moves) /\ UNCHANGED Q!computeVars =>
         A!Progress(A!Moves) /\ UNCHANGED A!computeVars
  BY <1>1, <1>2
<1>23. QED
  BY <1>22, <1>8, <1>9, <1>10, <1>11, <1>12, <1>13, <1>14, <1>15, <1>16, <1>17, <1>18, <1>19,
     <1>20, <1>21
  DEF A!Next, Q!Next

LEMMA QiskitRuntimeWithin == ASSUME R!RuntimeNext PROVE A!Next
<1>1. /\ R!Active = A!Active /\ R!Moves = A!Moves /\ R!NoCall = A!NoCall
      /\ R!Starting = A!Starting /\ R!FailureKinds = A!FailureKinds /\ R!JobState = A!JobState
      /\ R!Authorized = A!Authorized /\ R!Ends = A!Ends /\ R!Stays = A!Stays
      /\ R!ServiceStays = A!ServiceStays /\ R!FirstRequest = A!FirstRequest
      /\ UNCHANGED R!computeVars <=> UNCHANGED A!computeVars
  BY DEF R!Active, A!Active, R!Terminal, A!Terminal, R!JobState, A!JobState, R!Moves, A!Moves,
     R!NoCall, A!NoCall, R!NoOut, A!NoOut, R!Starting, A!Starting, R!FailureKinds, A!FailureKinds,
     R!Authorized, A!Authorized, R!Ends, A!Ends, R!Stays, A!Stays, R!ServiceStays, A!ServiceStays,
     R!FirstRequest, A!FirstRequest, R!computeVars, A!computeVars
<1>2. /\ \A final, res : R!ReturnFrom(final, res) = A!ReturnFrom(final, res)
      /\ \A res : R!Return(res) = A!Return(res)
      /\ \A step : R!Goto(step) = A!Goto(step)
      /\ \A t : R!Met(t) = A!Met(t)
      /\ \A step, begun : R!Begin(step, begun) = A!Begin(step, begun)
      /\ \A op, j : R!About(op, j) = A!About(op, j)
      /\ \A op, step : R!BeginAbout(op, step) = A!BeginAbout(op, step)
      /\ \A moves : R!Progress(moves) = A!Progress(moves)
      /\ \A made : R!ReturnsOk(made) = A!ReturnsOk(made)
      /\ \A s : R!Pending(s) = A!Pending(s)
      /\ \A pending : R!CloseOrUpdate(pending) = A!CloseOrUpdate(pending)
      /\ R!Replaces = A!Replaces /\ \A t : R!NeedsRenewal(t) = A!NeedsRenewal(t)
  BY <1>1 DEF R!ReturnFrom, A!ReturnFrom, R!Return, A!Return, R!Goto, A!Goto, R!Met, A!Met,
     R!Begin, A!Begin, R!NoOut, A!NoOut, R!About, A!About, R!BeginAbout, A!BeginAbout, R!Progress,
     A!Progress, R!ReturnsOk, A!ReturnsOk, R!Pending, A!Pending, R!CloseOrUpdate, A!CloseOrUpdate,
     R!Replaces, A!Replaces, R!NeedsRenewal, A!NeedsRenewal
<1>3. \A t, res : R!ReturnTroubled(t, res) => A!ReturnTroubled(t, res)
  BY <1>2 DEF R!ReturnTroubled, A!ReturnTroubled, AnyTrouble
<1>4. \A made : R!LosesReply(made) => A!LosesReply(made)
  BY <1>2 DEF R!LosesReply, A!LosesReply, AnyTrouble
<1>5. \A kinds : R!Misses(kinds) => A!Misses(kinds)
  BY <1>1, <1>2, <1>3 DEF R!Misses, A!Misses
<1>6. \A st, kinds : R!Cancels(st, kinds) => A!Cancels(st, kinds)
  BY <1>1, <1>2, <1>3 DEF R!Cancels, A!Cancels
<1>7. (R!Released => A!Released) /\ (R!ReleaseLost => A!ReleaseLost)
  BY <1>1, <1>2, <1>3 DEF R!Released, A!Released, R!ReleaseLost, A!ReleaseLost
<1>8. /\ R!TokenAges => A!TokenAges
      /\ R!SessionAges => A!SessionAges
      /\ R!SessionEnds => A!SessionEnds
  BY <1>2 DEF R!TokenAges, A!TokenAges, R!SessionAges, A!SessionAges, R!SessionEnds, A!SessionEnds,
     R!callVars, A!callVars
<1>9. R!CheckToken => A!CheckToken
  BY <1>1, <1>2 DEF R!CheckToken, A!CheckToken, AnyTrouble
<1>10. /\ (R!Acquire => A!Acquire) /\ (R!TaskStart => A!TaskStart)
       /\ (R!Release => A!Release) /\ (R!Query => A!Query)
  BY <1>1, <1>2 DEF R!Acquire, A!Acquire, R!TaskStart, A!TaskStart, R!Release, A!Release, R!Query,
     A!Query, R!BeginCall, A!BeginCall
<1>11. /\ (R!TaskStop => A!TaskStop) /\ (R!TaskStatus => A!TaskStatus)
       /\ (R!TaskResult => A!TaskResult) /\ (R!TaskLogs => A!TaskLogs)
  BY <1>1, <1>2 DEF R!TaskStop, A!TaskStop, R!TaskStatus, A!TaskStatus, R!TaskResult, A!TaskResult,
     R!TaskLogs, A!TaskLogs, R!BeginTask, A!BeginTask, R!BeginCall, A!BeginCall
<1>12. R!GetSession => A!GetSession
  BY <1>1, <1>2, <1>5 DEF R!GetSession, A!GetSession
<1>13. R!CreateSession => A!CreateSession
  BY <1>1, <1>2, <1>3, <1>5 DEF R!CreateSession, A!CreateSession
<1>14. R!ListJobs => A!ListJobs
  BY <1>1, <1>2, <1>5 DEF R!ListJobs, A!ListJobs
<1>15. R!CloseSession => A!CloseSession
  BY <1>1, <1>2, <1>5, <1>7 DEF R!CloseSession, A!CloseSession
<1>16. R!UpdateSession => A!UpdateSession
  BY <1>1, <1>2, <1>5, <1>7 DEF R!UpdateSession, A!UpdateSession
<1>17. R!RejectStart => A!RejectStart
  BY <1>1, <1>2 DEF R!RejectStart, A!RejectStart
<1>18. R!CreateJob => A!CreateJob
  BY <1>1, <1>2, <1>4, <1>5 DEF R!CreateJob, A!CreateJob
<1>19. R!GetJob => A!GetJob
  BY <1>1, <1>2, <1>5 DEF R!GetJob, A!GetJob, R!MustCancel, A!MustCancel, R!MayRead, A!MayRead,
     R!StatusOf, A!StatusOf, R!Terminal, A!Terminal
<1>20. R!CancelJob => A!CancelJob
  BY <1>1, <1>5, <1>6 DEF R!CancelJob, A!CancelJob
<1>21. /\ (R!GetResults => A!GetResults) /\ (R!GetLogs => A!GetLogs)
       /\ (R!GetBackend => A!GetBackend)
  BY <1>1, <1>2, <1>5 DEF R!GetResults, A!GetResults, R!GetLogs, A!GetLogs, R!GetBackend, A!GetBackend
<1>22. R!Progress(R!Moves) /\ UNCHANGED R!computeVars =>
         A!Progress(A!Moves) /\ UNCHANGED A!computeVars
  BY <1>1, <1>2
<1>23. QED
  BY <1>22, <1>8, <1>9, <1>10, <1>11, <1>12, <1>13, <1>14, <1>15, <1>16, <1>17, <1>18, <1>19,
     <1>20, <1>21
  DEF A!Next, R!RuntimeNext, R!acquire, R!release, R!task_start, R!task_stop, R!task_status,
     R!task_result, R!task_logs, R!is_accessible, R!Others

(***************************************************************************)
(* All of them.                                                            *)
(***************************************************************************)

\* What holds in every state: what all share, and what the calls of the vendor
\* know.  No session is opened at a service that the instance is not of.
Knows ==
  /\ vendor = "AliceBobFelis" => FelisKnows
  /\ vendor = "IQMServer" => IqmKnows
  /\ vendor = "PasqalLocal" => LocalKnows
  /\ vendor = "PasqalCloud" => CloudKnows
  /\ vendor = "OQTOPUS" => OqtopusKnows
  /\ vendor \in Compute => ComputeKnows

NoSessions == vendor \notin Compute => \A s \in Sessions : sess[s] = "absent"

IInv == vendor \in Vendor /\ Common /\ Knows /\ NoSessions

LEMMA InitIInv == Init => IInv
<1> SUFFICES ASSUME Init PROVE IInv
  OBVIOUS
<1>1. /\ CallInit /\ vendor \in Vendor /\ I!IqmInit /\ L!LocalInit /\ C!CloudInit /\ O!OqtopusInit
      /\ Q!ComputeInit /\ (vendor \notin Compute => held = NoSession)
  BY DEF Init, Compute
<1>2. /\ pc = "idle" /\ call = NoCall /\ out = NoOut /\ job = [j \in Jobs |-> "absent"]
      /\ job \in [Jobs -> JobState] /\ \A j \in Jobs : job[j] = "absent"
  BY <1>1 DEF CallInit, JobState
<1>3. Common
  <2>1. CallTypeOK /\ Names(call) /\ Names(out.call)
    BY <1>2, NoCallType DEF CallTypeOK
  <2>2. Contract
    BY <1>2, NoCallType DEF Contract, StartContract, OneJobPerStart, StopSettles,
       FinalStatusIsFinal, StatusAnswers, ResultOfCompleted
  <2>3. QED
    BY <1>2, <2>1, <2>2 DEF Common, Reported
<1>4. FelisKnows
  BY <1>2 DEF FelisKnows
<1>5. IqmKnows
  <2>1. I!ResultWhole
    BY <1>2, NoCallType DEF I!ResultWhole
  <2>2. yields \in [Jobs -> SUBSET I!Artifact] /\ part \in [I!Artifact -> I!Part]
    BY <1>1 DEF I!IqmInit, I!Unread, I!Part
  <2>3. QED
    BY <1>2, <2>1, <2>2 DEF IqmKnows
<1>6. LocalKnows
  BY <1>1, <1>2 DEF LocalKnows, L!LocalInit
<1>7. CloudKnows
  <2>1. CloudWhole
    BY <1>2, NoCallType DEF CloudWhole
  <2>2. QED
    BY <1>1, <1>2, <2>1 DEF CloudKnows, C!CloudInit, C!Sort
<1>8. OqtopusKnows
  BY <1>1, <1>2 DEF OqtopusKnows, O!OqtopusInit
<1>9. ComputeKnows
  <2>1. ComputeType
    BY <1>1, <1>2 DEF ComputeType, Q!ComputeInit, A!SessionState, A!Token
  <2>2. ComputeAt
    BY <1>1, <1>2 DEF ComputeAt, Q!ComputeInit
  <2>3. Sole /\ Left
    BY <1>1 DEF Sole, Left, Q!ComputeInit
  <2>4. QED
    BY <1>1, <1>2, <2>1, <2>2, <2>3 DEF ComputeKnows, Q!ComputeInit
<1>10. NoSessions
  BY <1>1, SessionAssumption DEF NoSessions, Q!ComputeInit
<1>11. QED
  BY <1>1, <1>3, <1>4, <1>5, <1>6, <1>7, <1>8, <1>9, <1>10 DEF IInv, Knows

\* A step of one vendor leaves what is the others' alone.
LEMMA StepIInv ==
  ASSUME IInv, UNCHANGED vendor, Excused => Excused', Knows', NoSessions', UNCHANGED retries,
         Passes \/ Begins \/ Continues \/ Returns
  PROVE  IInv'
  BY CommonKept DEF IInv

LEMMA NextIInv == IInv /\ [Next]_vars => IInv'
<1> SUFFICES ASSUME IInv, [Next]_vars PROVE IInv'
  OBVIOUS
<1>1. Sane /\ vendor \in Vendor /\ Knows /\ NoSessions
  BY Assumption DEF IInv, Sane
<1>2. CASE /\ UNCHANGED vendor /\ vendor = "AliceBobFelis" /\ F!Next
           /\ UNCHANGED <<iqmVars, localVars, cloudVars, retries, computeVars>>
  <2>1. FelisStep
    BY <1>1, <1>2, FelisNext DEF FelisSane, Knows
  <2>2. Knows' /\ NoSessions' /\ UNCHANGED retries /\ (Excused => Excused')
    BY <1>1, <1>2, <2>1 DEF Knows, FelisStep, NoSessions, computeVars, Excused, Compute
  <2>3. QED
    BY <1>2, <2>1, <2>2, StepIInv DEF FelisStep
<1>3. CASE /\ UNCHANGED vendor /\ vendor = "IQMServer" /\ I!Next
           /\ UNCHANGED <<localVars, cloudVars, retries, computeVars>>
  <2>1. IqmStep
    BY <1>1, <1>3, IqmNext DEF IqmSane, Knows
  <2>2. Knows' /\ NoSessions' /\ UNCHANGED retries /\ (Excused => Excused')
    BY <1>1, <1>3, <2>1 DEF Knows, IqmStep, NoSessions, computeVars, Excused, Compute
  <2>3. QED
    BY <1>3, <2>1, <2>2, StepIInv DEF IqmStep
<1>4. CASE /\ UNCHANGED vendor /\ vendor = "PasqalLocal" /\ L!Next
           /\ UNCHANGED <<iqmVars, cloudVars, retries, computeVars>>
  <2>1. LocalStep
    BY <1>1, <1>4, LocalNext DEF LocalSane, Knows
  <2>2. Knows' /\ NoSessions' /\ UNCHANGED retries /\ (Excused => Excused')
    BY <1>1, <1>4, <2>1 DEF Knows, LocalStep, NoSessions, computeVars, Excused, Compute
  <2>3. QED
    BY <1>4, <2>1, <2>2, StepIInv DEF LocalStep
<1>5. CASE /\ UNCHANGED vendor /\ vendor = "PasqalCloud" /\ C!Next
           /\ UNCHANGED <<iqmVars, localVars, retries, computeVars>>
  <2>1. CloudStep
    BY <1>1, <1>5, CloudNext DEF CloudSane, Knows
  <2>2. Knows' /\ NoSessions' /\ UNCHANGED retries
    BY <1>1, <1>5, <2>1 DEF Knows, CloudStep, NoSessions, computeVars, Compute
  <2>3. QED
    BY <1>5, <2>1, <2>2, StepIInv DEF CloudStep
<1>6. CASE /\ UNCHANGED vendor /\ vendor = "OQTOPUS" /\ O!Next
           /\ UNCHANGED <<iqmVars, localVars, cloudVars, computeVars>>
  <2>1. OqtopusStep
    BY <1>1, <1>6, OqtopusNext DEF OqtopusSane, Knows
  <2>2. UNCHANGED retries
    BY <1>6, OqtopusRetries
  <2>3. Knows' /\ NoSessions' /\ (Excused => Excused')
    BY <1>1, <1>6, <2>1 DEF Knows, OqtopusStep, NoSessions, computeVars, Excused, Compute
  <2>4. QED
    BY <1>6, <2>1, <2>2, <2>3, StepIInv DEF OqtopusStep
<1>7. CASE /\ UNCHANGED vendor /\ vendor \in Compute /\ A!Next
           /\ UNCHANGED <<iqmVars, localVars, cloudVars, retries>>
  <2>1. ComputeStep
    BY <1>1, <1>7, ComputeNext DEF ComputeSane, Knows
  <2>2. Knows' /\ NoSessions' /\ UNCHANGED retries /\ (Excused => Excused')
    BY <1>1, <1>7, <2>1 DEF Knows, ComputeStep, NoSessions, Excused, Compute
  <2>3. QED
    BY <1>7, <2>1, <2>2, StepIInv DEF ComputeStep
<1>8. CASE UNCHANGED vars
  <2>1. UNCHANGED <<job, pc, call, out, vendor, retries>>
    BY <1>8 DEF vars, callVars
  <2>2. Passes
    BY <1>1, <2>1 DEF Passes, Ripens, Sane, Common, CallTypeOK
  <2>3. Knows' /\ NoSessions' /\ (Excused => Excused')
    BY <1>1, <1>8 DEF vars, callVars, iqmVars, localVars, cloudVars, computeVars, Knows, NoSessions,
       Excused, FelisKnows, IqmKnows, LocalKnows, CloudKnows, OqtopusKnows, ComputeKnows, I!ResultWhole,
       CloudWhole, ComputeType, ComputeAt, Sole, Left, A!Pending
  <2>4. QED
    BY <2>1, <2>2, <2>3, StepIInv
<1>9. QED
  <2>1. Assumption
    BY Assumption
  <2>2. QED
    BY <1>2, <1>3, <1>4, <1>5, <1>6, <1>7, <1>8, <2>1, QuantumComputeWithin, QiskitRuntimeWithin
    DEF Next, Compute

LEMMA Invariant == Spec => []IInv
  BY InitIInv, NextIInv, PTL DEF Spec

-----------------------------------------------------------------------------
(* What the trait promises. *)

\* Whatever the vendor is, its instance keeps to the states that its code has:
\* requests, sessions, tokens and tasks.
THEOREM TypeCorrect == Spec => []TypeOK
<1>1. IInv => TypeOK
  <2> SUFFICES ASSUME IInv PROVE TypeOK
    OBVIOUS
  <2>1. CallTypeOK /\ Knows
    BY DEF IInv, Common
  <2>2. CASE vendor = "AliceBobFelis"
    BY <2>1, <2>2, FelisWords DEF TypeOK, Knows, FelisKnows, F!TypeOK
  <2>3. CASE vendor = "IQMServer"
    BY <2>1, <2>3, IqmWords DEF TypeOK, Knows, IqmKnows, I!TypeOK
  <2>4. CASE vendor = "PasqalLocal"
    BY <2>1, <2>4, LocalWords DEF TypeOK, Knows, LocalKnows, L!TypeOK
  <2>5. CASE vendor = "PasqalCloud"
    BY <2>1, <2>5, CloudWords DEF TypeOK, Knows, CloudKnows, C!TypeOK
  <2>6. CASE vendor = "OQTOPUS"
    BY <2>1, <2>6, OqtopusWords DEF TypeOK, Knows, OqtopusKnows, O!TypeOK
  <2>7. CASE vendor \in Compute
    <3>1. Q!CallTypeOK
      BY <2>1, ComputeWords DEF Q!CallTypeOK, A!CallTypeOK, Q!JobState, A!JobState, Q!Active, A!Active,
         Q!Terminal, A!Terminal, Q!Call, A!Call, Q!Op, A!Op, Q!AnyTrouble, A!AnyTrouble,
         Q!Result, A!Result, Q!Refusal, A!Refusal
    <3>2. ComputeType
      BY <2>1, <2>7 DEF Knows, ComputeKnows
    <3>3. Q!TypeOK
      BY <3>1, <3>2 DEF ComputeType, Q!TypeOK, Q!SessionState, A!SessionState, Q!Token, A!Token
    <3>4. QED
      BY <2>7, <3>3 DEF TypeOK, Compute
  <2>8. QED
    BY <2>2, <2>3, <2>4, <2>5, <2>6, <2>7 DEF IInv, Vendor, Compute
<1>2. QED
  BY <1>1, Invariant, PTL

LEMMA ContractAlways == Spec => []Contract
<1>1. IInv => Contract
  BY DEF IInv, Common
<1>2. QED
  BY <1>1, Invariant, PTL

\* Of every vendor: an error of task_start other than Other means that the
\* server created no task.
THEOREM StartContractAlways == Spec => []StartContract
<1>1. Contract => StartContract
  BY DEF Contract
<1>2. QED
  BY <1>1, ContractAlways, PTL

\* Of every vendor: a task_start creates one task at most, unless the
\* configuration of OQTOPUS has submissions repeated.
THEOREM OneJobAlways == Spec => []OneJobPerStart
<1>1. Contract => OneJobPerStart
  BY DEF Contract
<1>2. QED
  BY <1>1, ContractAlways, PTL

\* Of every vendor: once task_stop has reported success, the task is never
\* active again, whoever moves it on.
THEOREM StopSettlesAlways == Spec => []StopSettles
<1>1. Contract => StopSettles
  BY DEF Contract
<1>2. QED
  BY <1>1, ContractAlways, PTL

\* Of every vendor: what task_status reported as final stays so, while the task
\* lives on at the server.
THEOREM FinalAlways == Spec => []FinalStatusIsFinal
<1>1. Contract => FinalStatusIsFinal
  BY DEF Contract
<1>2. QED
  BY <1>1, ContractAlways, PTL

\* Of every vendor: the status of a task is answered when no request fails and a
\* token can be renewed: no token expires between its check and its use.
THEOREM StatusAnswersAlways == Spec => []StatusAnswers
<1>1. Contract => StatusAnswers
  BY DEF Contract
<1>2. QED
  BY <1>1, ContractAlways, PTL

\* Of every vendor: a result is that of a completed task, and the whole of it.
THEOREM ResultAlways == Spec => []ResultWhole
<1>1. IInv => ResultWhole
  <2> SUFFICES ASSUME IInv, out.call.op = "result", out.res = "Ok" PROVE ResultWhole
    BY DEF ResultWhole
  <2>1. vendor \in Vendor /\ Knows /\ ResultOfCompleted
    BY DEF IInv, Common, Contract
  <2>2. CASE vendor = "IQMServer"
    BY <2>1, <2>2 DEF ResultWhole, Knows, IqmKnows
  <2>3. CASE vendor = "PasqalCloud"
    BY <2>1, <2>3 DEF ResultWhole, Knows, CloudKnows, CloudWhole, C!ResultWhole
  <2>4. CASE vendor \notin {"IQMServer", "PasqalCloud"}
    BY <2>1, <2>4 DEF ResultWhole, ResultOfCompleted
  <2>5. QED
    BY <2>2, <2>3, <2>4
<1>2. QED
  BY <1>1, Invariant, PTL

\* acquire and release of the IBM services leave no session open that the
\* instance does not hold, unless a reply was lost or the caller released
\* another one.
THEOREM SessionsRemembered == Spec => []NoSessionForgotten
<1>1. IInv => NoSessionForgotten
  <2> SUFFICES ASSUME IInv PROVE NoSessionForgotten
    OBVIOUS
  <2>1. CASE vendor \in Compute
    BY <2>1 DEF IInv, Knows, ComputeKnows, Sole, NoSessionForgotten, Q!NoSessionForgotten
  <2>2. CASE vendor \notin Compute
    BY <2>2 DEF IInv, NoSessions, NoSessionForgotten, Q!NoSessionForgotten
  <2>3. QED
    BY <2>1, <2>2
<1>2. QED
  BY <1>1, Invariant, PTL

\* A session of the IBM services that is being closed has no pending job, and
\* gets none.
THEOREM SessionsEmptied == Spec => []NoJobLeftInSession
<1>1. IInv => NoJobLeftInSession
  <2> SUFFICES ASSUME IInv PROVE NoJobLeftInSession
    OBVIOUS
  <2>1. \A s : Q!Pending(s) = A!Pending(s)
    BY DEF Q!Pending, A!Pending, Q!Active, A!Active
  <2>2. CASE vendor \in Compute
    BY <2>1, <2>2 DEF IInv, Knows, ComputeKnows, Left, NoJobLeftInSession, Q!NoJobLeftInSession
  <2>3. CASE vendor \notin Compute
    BY <2>3 DEF IInv, NoSessions, NoJobLeftInSession, Q!NoJobLeftInSession
  <2>4. QED
    BY <2>2, <2>3
<1>2. QED
  BY <1>1, Invariant, PTL
=============================================================================

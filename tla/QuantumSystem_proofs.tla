------------------------ MODULE QuantumSystem_proofs ------------------------
(***************************************************************************)
(* Proofs about the IBM Quantum System resource: for every set of jobs,    *)
(* every number of retries and every set of troubles.                      *)
(*                                                                         *)
(* The properties speak of calls that have returned.  They follow from     *)
(* what a request that is under way knows: which call it belongs to        *)
(* (Belongs), what a submission has made (Submitting), that a task_stop    *)
(* without trouble deletes only what does not run (Stopping), and why a    *)
(* new token may have been rejected (Renewing).                            *)
(***************************************************************************)
EXTENDS QuantumSystem, TLAPS

\* A request under way belongs to a call that sends such requests.
Belongs ==
  /\ call.op = "stop" => call.id \in Jobs
  /\ pc = "idle" => req = "none" /\ ~renewed
  /\ pc = "upload" => /\ call.op = "start" /\ call.id \in Jobs
                      /\ req = "none" /\ call.made = {}
  /\ pc = "fetch" => call.op = "result" /\ req = "get"
  /\ pc \in {"token", "send", "renew"} =>
       /\ call.id \in Jobs
       /\ \/ req = "post" /\ call.op = "start"
          \/ req = "get" /\ call.op \in {"status", "stop", "result"}
          \/ req \in {"cancel", "delete"} /\ call.op = "stop"

\* Until the next call begins, the last one is reported as it was.
Reported == IF pc = "idle" THEN out.call = call ELSE out = NoReturn

\* A submission makes no job but its own, and none before the service obeyed it:
\* that this is not known yet means that it was repeated.
Submitting ==
  /\ call.op = "start" => call.made \subseteq {call.id}
  /\ req = "post" /\ "again" \notin call.met => call.made = {}

\* task_stop looks and cancels before it deletes.
Stopping == req = "delete" /\ call.met = {} => job[call.id] # "Running"

\* A new token is good until the service revokes it.
Renewing == renewed /\ token = "bad" => "revoked" \in call.met

Promises ==
  ContractWithoutRepeats /\ OneJobPerStart /\ StopSettles /\ RenewalHelps

IInv ==
  /\ TypeOK
  /\ Belongs /\ Reported
  /\ Submitting /\ Stopping /\ Renewing
  /\ Promises

Sane == Assumption /\ IInv

\* What an answer says of the call and its job in the next state.
Honest(answer) ==
  /\ answer \in Result
  /\ job' \in [Jobs -> JobState]
  /\ call' \in Call /\ call'.op = call.op /\ call'.id = call.id /\ call.met \subseteq call'.met
  /\ req = "post" => /\ call'.made \subseteq {call.id}
                     /\ answer \in Refusal /\ "again" \notin call'.met => call'.made = {}
                     /\ answer = "Ok" => call'.made = {call.id}
  /\ answer = "AuthenticationFailed" => call'.met \cap {"iam", "revoked"} # {}
  /\ answer = "Ok" => req # "get" /\ (req = "delete" => job'[call.id] # "Running")
  /\ call'.met = {} /\ call.op = "stop" =>
       /\ req = "get" => answer \in {"Running", "TaskNotFound"} \cup Terminal
       /\ req = "get" /\ answer # "Running" => job'[call.id] # "Running"
       /\ req \in {"cancel", "delete"} => job'[call.id] # "Running"
       /\ req = "delete" => answer \in {"Ok", "TaskNotFound"}

-----------------------------------------------------------------------------
(* One lemma for each way in which a call moves on. *)

\* The promises speak of calls that have returned.
LEMMA Unreported == ASSUME NoReturn = out' PROVE Promises'
  BY DEF Promises, ContractWithoutRepeats, StartContract, OneJobPerStart, StopSettles,
         RenewalHelps, NoReturn, NoCall, Refusal

LEMMA NoReturnType == NoCall \in Call /\ NoReturn \in [call : Call, res : Result]
  BY DEF NoReturn, NoCall, Call, Result

LEMMA Start == Assumption /\ Init => IInv
<1> SUFFICES ASSUME Assumption, Init PROVE IInv
  OBVIOUS
<1>1. TypeOK
  <2>1. attempt \in 0..Retries
    BY DEF Init, Assumption
  <2>2. QED
    BY <2>1, NoReturnType DEF Init, TypeOK, Verb, JobState
<1>2. Belongs /\ Reported /\ Submitting /\ Stopping /\ Renewing
  BY DEF Init, Belongs, Reported, Submitting, Stopping, Renewing, NoReturn, NoCall
<1>3. Promises
  BY DEF Init, Promises, ContractWithoutRepeats, StartContract, OneJobPerStart, StopSettles,
         RenewalHelps, NoReturn, NoCall, Refusal
<1>4. QED
  BY <1>1, <1>2, <1>3 DEF IInv

LEMMA ReturnKeeps ==
  ASSUME Sane, NEW res \in Result, Return(res),
         job' \in [Jobs -> JobState], full' \in BOOLEAN, token' \in {"none", "good", "bad"},
         drawn' \subseteq Jobs, call' \in Call,
         call'.op = "stop" => call'.id \in Jobs,
         call'.op = "start" => /\ call'.made \subseteq {call'.id}
                               /\ res = "Ok" => call'.made = {call'.id}
                               /\ res \in Refusal /\ "again" \notin call'.met => call'.made = {},
         call'.op = "stop" /\ (res = "Ok" \/ call'.met = {}) => job'[call'.id] # "Running",
         call'.op = "stop" /\ call'.met = {} => res \in {"Ok", "TaskNotFound"},
         res = "AuthenticationFailed" => call'.met \cap {"iam", "revoked"} # {}
  PROVE  IInv'
<1>1. /\ pc' = "idle" /\ req' = "none" /\ attempt' = 0 /\ renewed' = FALSE
      /\ out' = [call |-> call', res |-> res]
  BY DEF Return
<1>2. TypeOK'
  <2>1. attempt' \in 0..Retries
    BY <1>1 DEF Sane, Assumption
  <2>2. out' \in [call : Call, res : Result]
    BY <1>1
  <2>3. QED
    BY <1>1, <2>1, <2>2 DEF TypeOK, Verb
<1>3. Belongs' /\ Reported' /\ Submitting' /\ Stopping' /\ Renewing'
  BY <1>1 DEF Belongs, Reported, Submitting, Stopping, Renewing
<1>4. Promises'
  BY <1>1 DEF Promises, ContractWithoutRepeats, StartContract, OneJobPerStart, StopSettles,
              RenewalHelps
<1>5. QED
  BY <1>2, <1>3, <1>4 DEF IInv

LEMMA RequestKeeps ==
  ASSUME Sane, NEW verb \in Verb, Request(verb),
         job' \in [Jobs -> JobState], full' \in BOOLEAN, token' \in {"none", "good", "bad"},
         drawn' \subseteq Jobs, call' \in Call, call'.id \in Jobs,
         \/ verb = "post" /\ call'.op = "start" /\ call'.made = {}
         \/ verb = "get" /\ call'.op \in {"status", "stop", "result"}
         \/ verb = "cancel" /\ call'.op = "stop"
         \/ /\ verb = "delete" /\ call'.op = "stop"
            /\ call'.met = {} => job'[call'.id] # "Running"
  PROVE  IInv'
<1>1. /\ pc' = "token" /\ req' = verb /\ attempt' = 0 /\ renewed' = FALSE /\ out' = NoReturn
  BY DEF Request
<1>2. TypeOK'
  <2>1. attempt' \in 0..Retries
    BY <1>1 DEF Sane, Assumption
  <2>2. QED
    BY <1>1, <2>1, NoReturnType DEF TypeOK
<1>3. Belongs' /\ Reported' /\ Submitting' /\ Stopping' /\ Renewing'
  BY <1>1 DEF Belongs, Reported, Submitting, Stopping, Renewing
<1>4. QED
  BY <1>1, <1>2, <1>3, Unreported DEF IInv

LEMMA SettleKeeps ==
  ASSUME Sane, pc \in {"token", "send", "renew"}, NEW answer, Honest(answer), Settle(answer),
         UNCHANGED <<full, token, drawn>>
  PROVE  IInv'
<1>1. /\ Belongs /\ TypeOK /\ full' \in BOOLEAN /\ token' \in {"none", "good", "bad"} /\ drawn' \subseteq Jobs /\ answer \in Result
      /\ job' \in [Jobs -> JobState] /\ call' \in Call /\ call'.id = call.id /\ call'.op = call.op
  BY DEF Sane, IInv, Honest, TypeOK
<1>2. call.id \in Jobs
  BY <1>1 DEF Belongs
<1>3. CASE req \in {"post", "delete"} /\ Return(answer)
  <2>1. call.op = (IF req = "post" THEN "start" ELSE "stop")
    BY <1>1, <1>3 DEF Belongs
  <2>2. QED
    BY <1>1, <1>2, <1>3, <2>1, ReturnKeeps DEF Honest
<1>4. CASE req = "cancel" /\ AfterCancel(answer)
  <2>1. call.op = "stop"
    BY <1>1, <1>4 DEF Belongs
  <2>2. QED
    BY <1>1, <1>2, <1>4, <2>1, RequestKeeps DEF Honest, AfterCancel, Verb
<1>5. CASE req = "get" /\ answer \notin JobState /\ Return(answer)
  <2>1. call.op \in {"status", "stop", "result"}
    BY <1>1, <1>5 DEF Belongs
  <2>2. answer # "Running" /\ answer \notin Terminal
    BY <1>5 DEF JobState
  <2>3. QED
    BY <1>1, <1>2, <1>5, <2>1, <2>2, ReturnKeeps DEF Honest
<1>6. CASE req = "get" /\ answer \in JobState /\ call.op = "status" /\ Return(answer)
  BY <1>1, <1>6, ReturnKeeps DEF Honest
<1>7. CASE req = "get" /\ answer \in JobState /\ call.op = "stop"
           /\ Request(IF answer = "Running" THEN "cancel" ELSE "delete")
  <2>1. CASE answer = "Running"
    BY <1>1, <1>2, <1>7, <2>1, RequestKeeps DEF Verb
  <2>2. CASE answer # "Running"
    BY <1>1, <1>2, <1>7, <2>2, RequestKeeps DEF Verb, Honest
  <2>3. QED
    BY <2>1, <2>2
<1>8. CASE req = "get" /\ answer \in JobState /\ call.op = "result"
  <2>1. CASE answer = "Completed" /\ Goto("fetch")
    <3>1. pc' = "fetch" /\ out' = NoReturn /\ req' = req /\ attempt' = attempt /\ renewed' = renewed
      BY <2>1 DEF Goto, http
    <3>2. TypeOK'
      BY <1>1, <3>1, NoReturnType DEF TypeOK
    <3>3. Renewing'
      <4>1. Renewing /\ token' = token /\ call.met \subseteq call'.met
        BY DEF Sane, IInv, Honest
      <4>2. QED
        BY <3>1, <4>1 DEF Renewing
    <3>4. QED
      BY <1>1, <1>8, <3>1, <3>2, <3>3, Unreported
      DEF IInv, Belongs, Reported, Submitting, Stopping, Renewing
  <2>2. CASE answer # "Completed" /\ Return("TaskNotReady")
    BY <1>1, <1>8, <2>2, ReturnKeeps DEF Result, Refusal, Honest
  <2>3. QED
    BY <1>8, <2>1, <2>2, <1>1 DEF Settle
<1>9. QED
  BY <1>3, <1>4, <1>5, <1>6, <1>7, <1>8 DEF Settle

-----------------------------------------------------------------------------
(* What an attempt does to the jobs, and to the history of the call. *)

\* The jobs that this step makes the service create.
Made == {j \in Jobs : job[j] = "absent" /\ job'[j] = "Running"}

LEMMA Serves ==
  ASSUME Sane, pc \in {"token", "send", "renew"}
  PROVE  /\ call \in Call /\ call.id \in Jobs /\ req \in Verb \ {"none"}
         /\ job \in [Jobs -> JobState]
         /\ req = "post" <=> call.op = "start"
         /\ req \in {"cancel", "delete"} => call.op = "stop"
         /\ call.op = "start" => call.made \subseteq {call.id}
         /\ req = "post" /\ "again" \notin call.met => call.made = {}
         /\ req = "delete" /\ call.met = {} => job[call.id] # "Running"
  BY DEF Sane, IInv, TypeOK, Belongs, Submitting, Stopping, Verb

LEMMA MeetKeeps ==
  ASSUME Sane, NEW t, Meet(t)
  PROVE  /\ call' \in Call /\ call'.op = call.op /\ call'.id = call.id
         /\ call'.made = call.made /\ call'.met = call.met \cup {t}
<1>1. call \in Call /\ t \in AnyTrouble
  BY DEF Sane, IInv, TypeOK, Assumption, Meet
<1>2. call' = [call EXCEPT !.met = call.met \cup {t}]
  BY DEF Meet
<1>3. QED
  BY <1>1, <1>2 DEF Call

LEMMA NoteKeeps ==
  ASSUME Sane, NEW met \in SUBSET (AnyTrouble \cup {"again"}), Note(met)
  PROVE  /\ call' \in Call /\ call'.op = call.op /\ call'.id = call.id
         /\ call'.made = call.made \cup Made /\ call'.met = call.met \cup met
<1>1. call \in Call /\ Made \subseteq Jobs
  BY DEF Sane, IInv, TypeOK, Made
<1>2. call' = [call EXCEPT !.made = call.made \cup Made, !.met = call.met \cup met]
  BY DEF Note, Made
<1>3. QED
  BY <1>1, <1>2 DEF Call

LEMMA ObeyedMakes ==
  ASSUME Sane, pc \in {"token", "send", "renew"}, NEW answer, Obeyed(answer)
  PROVE  /\ job' \in [Jobs -> JobState]
         /\ Made = (IF req = "post" THEN {call.id} ELSE {})
         /\ req = "get" => job' = job /\ answer = job[call.id] /\ job[call.id] # "absent"
         /\ req # "get" => answer = "Ok"
         /\ req \in {"cancel", "delete"} => job'[call.id] # "Running"
<1>1. /\ call.id \in Jobs /\ req \in Verb \ {"none"} /\ job \in [Jobs -> JobState]
  BY Serves
<1>2. "Running" \in JobState /\ "absent" \in JobState /\ "Cancelled" \in JobState
  BY DEF JobState, Terminal
<1>3. CASE req = "post"
  <2>1. job' = [job EXCEPT ![call.id] = "Running"] /\ job[call.id] = "absent" /\ answer = "Ok"
    BY <1>3 DEF Obeyed
  <2>2. QED
    BY <1>1, <1>2, <1>3, <2>1 DEF Made
<1>4. CASE req = "get"
  BY <1>1, <1>4 DEF Obeyed, Made
<1>5. CASE req = "cancel"
  <2>1. job' = [job EXCEPT ![call.id] = "Cancelled"] /\ answer = "Ok"
    BY <1>5 DEF Obeyed
  <2>2. QED
    BY <1>1, <1>2, <1>5, <2>1 DEF Made
<1>6. CASE req = "delete"
  <2>1. job' = [job EXCEPT ![call.id] = "absent"] /\ answer = "Ok"
    BY <1>6 DEF Obeyed
  <2>2. QED
    BY <1>1, <1>2, <1>6, <2>1 DEF Made
<1>7. QED
  BY <1>1, <1>3, <1>4, <1>5, <1>6 DEF Verb

LEMMA SameNote ==
  ASSUME Sane, Note({})
  PROVE  /\ call' \in Call /\ call'.op = call.op /\ call'.id = call.id
         /\ call'.made = call.made \cup Made /\ call'.met = call.met
<1>1. {} \in SUBSET (AnyTrouble \cup {"again"}) /\ call.met \cup {} = call.met
  OBVIOUS
<1>2. /\ call' \in Call /\ call'.op = call.op /\ call'.id = call.id
      /\ call'.made = call.made \cup Made /\ call'.met = call.met \cup {}
  BY <1>1, NoteKeeps
<1>3. QED
  BY <1>1, <1>2

LEMMA NothingMade == ASSUME UNCHANGED job PROVE Made = {}
  BY DEF Made

-----------------------------------------------------------------------------
(* The answers are honest. *)

LEMMA ObeyedHonest ==
  ASSUME Sane, pc = "send", NEW answer \in Result, Obeyed(answer), Note({})
  PROVE  Honest(answer)
<1>1. /\ job' \in [Jobs -> JobState]
      /\ Made = (IF req = "post" THEN {call.id} ELSE {})
      /\ req = "get" => job' = job /\ answer = job[call.id] /\ job[call.id] # "absent"
      /\ req # "get" => answer = "Ok"
      /\ req \in {"cancel", "delete"} => job'[call.id] # "Running"
  BY ObeyedMakes
<1>2. /\ call' \in Call /\ call'.op = call.op /\ call'.id = call.id
      /\ call'.made = call.made \cup Made /\ call'.met = call.met
  BY SameNote
<1>3. req = "get" => answer \in {"Running"} \cup Terminal
  BY <1>1, Serves DEF JobState
<1>4. QED
  BY <1>1, <1>2, <1>3, Serves DEF Honest, Refusal, Terminal

LEMMA RejectedHonest ==
  ASSUME Sane, pc = "send", NEW answer \in Result, Rejected(answer), Note({})
  PROVE  Honest(answer)
<1>1. /\ call' \in Call /\ call'.op = call.op /\ call'.id = call.id
      /\ call'.made = call.made /\ call'.met = call.met
  BY NoteKeeps, NothingMade DEF Rejected
<1>2. /\ job' = job /\ answer \in {"InvalidInput", "TaskNotFound", "Other"}
      /\ req = "get" => answer = "TaskNotFound" /\ job[call.id] = "absent"
      /\ req = "cancel" => job[call.id] # "Running"
      /\ req = "delete" /\ job[call.id] # "Running" => answer = "TaskNotFound"
  <2>1. job[call.id] \in JobState /\ req \in Verb \ {"none"}
    BY Serves
  <2>2. QED
    BY <2>1 DEF Rejected, Terminal, Verb, JobState
<1>3. QED
  BY <1>1, <1>2, Serves DEF Honest, Terminal

LEMMA TroubledHonest ==
  ASSUME Sane, pc \in {"token", "send", "renew"}, NEW answer \in Result,
         job' \in [Jobs -> JobState], call' \in Call, call'.op = call.op, call'.id = call.id,
         call'.made = call.made \cup Made, Made \subseteq {call.id}, Made # {} => answer = "Other",
         call.met \subseteq call'.met, call'.met # {},
         answer = "AuthenticationFailed" => call'.met \cap {"iam", "revoked"} # {},
         answer \in {"AuthenticationFailed", "InvalidInput", "Other"}
  PROVE  Honest(answer)
  BY Serves DEF Honest, Refusal

-----------------------------------------------------------------------------
(* The steps. *)

\* Steps during which the call stays where it is.
LEMMA StayKeeps ==
  ASSUME Sane, TypeOK', UNCHANGED <<pc, req, renewed, call, out>>,
         token' = token \/ token' = "good" \/ ~renewed,
         \A j \in Jobs : job'[j] = "Running" => job[j] = "Running"
  PROVE  IInv'
<1>1. Belongs' /\ Reported' /\ Submitting' /\ Renewing'
  BY DEF Sane, IInv, Belongs, Reported, Submitting, Renewing
<1>2. Stopping'
  BY DEF Sane, IInv, Stopping, Belongs, TypeOK, Verb
<1>3. StopSettles'
  <2>1. StopSettles /\ (out.call.op = "stop" => out.call.id \in Jobs)
    BY DEF Sane, IInv, Promises, Belongs, Reported, NoReturn, NoCall
  <2>2. QED
    BY <2>1 DEF StopSettles
<1>4. Promises'
  BY <1>3 DEF Sane, IInv, Promises, ContractWithoutRepeats, StartContract, OneJobPerStart,
              RenewalHelps
<1>5. QED
  BY <1>1, <1>2, <1>4 DEF IInv

LEMMA ProgressKeeps == ASSUME Sane, Progress PROVE IInv'
<1>1. job \in [Jobs -> JobState]
  BY DEF Sane, IInv, TypeOK
<1>2. PICK j \in Jobs, st \in Terminal \cup {"absent"} : job' = [job EXCEPT ![j] = st]
  BY DEF Progress, Terminal
<1>3. /\ job' \in [Jobs -> JobState]
      /\ \A i \in Jobs : job'[i] = "Running" => job[i] = "Running"
  BY <1>1, <1>2 DEF JobState, Terminal
<1>4. TypeOK' /\ UNCHANGED <<pc, req, renewed, call, out, token>>
  BY <1>3 DEF Progress, Sane, IInv, TypeOK, http
<1>5. QED
  BY <1>3, <1>4, StayKeeps

LEMMA LanesKeeps == ASSUME Sane, Lanes PROVE IInv'
<1>1. TypeOK' /\ UNCHANGED <<pc, req, renewed, call, out, token, job>>
  BY DEF Lanes, Sane, IInv, TypeOK, http
<1>2. QED
  BY <1>1, StayKeeps

LEMMA RevokeKeeps == ASSUME Sane, Revoke PROVE IInv'
<1>1. UNCHANGED <<job, full, drawn, pc, req, attempt, renewed, out>> /\ token' = "bad"
  BY DEF Revoke, http
<1>2. CASE ~renewed
  <2>1. UNCHANGED call
    BY <1>2 DEF Revoke
  <2>2. TypeOK'
    BY <1>1, <2>1 DEF Sane, IInv, TypeOK
  <2>3. QED
    BY <1>1, <1>2, <2>1, <2>2, StayKeeps
<1>3. CASE renewed
  <2>1. /\ call' \in Call /\ call'.op = call.op /\ call'.id = call.id
        /\ call'.made = call.made /\ call'.met = call.met \cup {"revoked"}
    BY <1>3, MeetKeeps DEF Revoke
  <2>2. pc # "idle" /\ out' = NoReturn
    BY <1>1, <1>3 DEF Sane, IInv, Belongs, Reported
  <2>3. TypeOK'
    BY <1>1, <2>1 DEF Sane, IInv, TypeOK
  <2>4. Belongs' /\ Reported' /\ Submitting' /\ Stopping' /\ Renewing'
    BY <1>1, <2>1, <2>2 DEF Sane, IInv, Belongs, Reported, Submitting, Stopping, Renewing
  <2>5. QED
    BY <2>2, <2>3, <2>4, Unreported DEF IInv
<1>4. QED
  BY <1>2, <1>3

LEMMA BeginKeeps ==
  ASSUME Sane, NEW op \in {"start", "status", "stop", "result"}, NEW j \in Jobs \cup {NoJob},
         Begin(op, j)
  PROVE  /\ pc = "idle" /\ UNCHANGED <<job, full, token>>
         /\ job \in [Jobs -> JobState] /\ full \in BOOLEAN /\ token \in {"none", "good", "bad"}
         /\ call' \in Call /\ call'.op = op /\ call'.id = j /\ call'.made = {} /\ call'.met = {}
  BY DEF Begin, NoCall, Call, Sane, IInv, TypeOK

LEMMA RejectStartKeeps == ASSUME Sane, RejectStart PROVE IInv'
<1>1. /\ pc = "idle" /\ UNCHANGED <<job, full, token>>
      /\ job \in [Jobs -> JobState] /\ full \in BOOLEAN /\ token \in {"none", "good", "bad"}
      /\ call' \in Call /\ call'.op = "start" /\ call'.made = {}
  BY BeginKeeps DEF RejectStart
<1>2. drawn' \subseteq Jobs
  BY DEF RejectStart, Sane, IInv, TypeOK
<1>3. PICK res \in {"InvalidConfig", "UnsupportedPayload", "InvalidInput", "Other"} : Return(res)
  BY DEF RejectStart
<1>4. QED
  BY <1>1, <1>2, <1>3, ReturnKeeps DEF Result, Refusal

LEMMA TaskStartKeeps == ASSUME Sane, TaskStart PROVE IInv'
<1>1. PICK j \in Jobs \ drawn : Begin("start", j) /\ drawn' = drawn \cup {j}
  BY DEF TaskStart
<1>2. /\ pc = "idle" /\ UNCHANGED <<job, full, token>>
      /\ job \in [Jobs -> JobState] /\ full \in BOOLEAN /\ token \in {"none", "good", "bad"}
      /\ call' \in Call /\ call'.op = "start" /\ call'.id = j /\ call'.made = {}
  BY <1>1, BeginKeeps
<1>3. pc' = "upload" /\ out' = NoReturn /\ UNCHANGED <<req, attempt, renewed>>
  BY DEF TaskStart, Goto, http
<1>4. req' = "none" /\ ~renewed'
  BY <1>2, <1>3 DEF Sane, IInv, Belongs
<1>5. TypeOK'
  BY <1>1, <1>2, <1>3, NoReturnType DEF Sane, IInv, TypeOK
<1>6. Belongs' /\ Reported' /\ Submitting' /\ Stopping' /\ Renewing'
  BY <1>2, <1>3, <1>4 DEF Belongs, Reported, Submitting, Stopping, Renewing
<1>7. QED
  BY <1>3, <1>5, <1>6, Unreported DEF IInv

LEMMA TaskCallKeeps == ASSUME Sane, TaskCall PROVE IInv'
<1>1. PICK op \in {"status", "stop", "result"}, j \in Jobs : Begin(op, j)
  BY DEF TaskCall
<1>2. /\ pc = "idle" /\ UNCHANGED <<job, full, token>>
      /\ job \in [Jobs -> JobState] /\ full \in BOOLEAN /\ token \in {"none", "good", "bad"}
      /\ call' \in Call /\ call'.op = op /\ call'.id = j
  BY <1>1, BeginKeeps
<1>3. drawn' \subseteq Jobs /\ Request("get")
  BY DEF TaskCall, Sane, IInv, TypeOK
<1>4. QED
  BY <1>2, <1>3, RequestKeeps DEF Verb

LEMMA UploadKeeps == ASSUME Sane, Upload PROVE IInv'
<1>1. /\ call.op = "start" /\ call.id \in Jobs /\ call.made = {} /\ call \in Call
      /\ job' \in [Jobs -> JobState] /\ full' \in BOOLEAN
      /\ token' \in {"none", "good", "bad"} /\ drawn' \subseteq Jobs
  BY DEF Upload, Sane, IInv, Belongs, TypeOK
<1>2. CASE UNCHANGED call /\ Request("post")
  BY <1>1, <1>2, RequestKeeps DEF Verb
<1>3. CASE Meet("storage") /\ Return("Other")
  <2>1. /\ call' \in Call /\ call'.op = call.op /\ call'.id = call.id /\ call'.made = call.made
    BY <1>3, MeetKeeps
  <2>2. QED
    BY <1>1, <1>3, <2>1, ReturnKeeps DEF Result, Refusal
<1>4. QED
  BY <1>2, <1>3 DEF Upload

LEMMA FetchKeeps == ASSUME Sane, Fetch PROVE IInv'
<1>1. /\ call.op = "result" /\ call \in Call
      /\ job' \in [Jobs -> JobState] /\ full' \in BOOLEAN
      /\ token' \in {"none", "good", "bad"} /\ drawn' \subseteq Jobs
  BY DEF Fetch, Sane, IInv, Belongs, TypeOK
<1>2. CASE UNCHANGED call /\ Return("Ok")
  BY <1>1, <1>2, ReturnKeeps DEF Result
<1>3. CASE Meet("storage") /\ Return("Other")
  <2>1. /\ call' \in Call /\ call'.op = call.op
    BY <1>3, MeetKeeps
  <2>2. QED
    BY <1>1, <1>3, <2>1, ReturnKeeps DEF Result
<1>4. QED
  BY <1>2, <1>3 DEF Fetch

LEMMA NoTokenKeeps ==
  ASSUME Sane, pc \in {"token", "send", "renew"}, NoToken, UNCHANGED <<job, full, drawn>>
  PROVE  IInv'
<1>1. PICK answer \in {"AuthenticationFailed", "Other"} : Settle(answer)
  BY DEF NoToken
<1>2. /\ call' \in Call /\ call'.op = call.op /\ call'.id = call.id
      /\ call'.made = call.made /\ call'.met = call.met \cup {"iam"}
  BY MeetKeeps DEF NoToken
<1>3. job' \in [Jobs -> JobState] /\ UNCHANGED token
  BY DEF Sane, IInv, TypeOK, NoToken
<1>4. Honest(answer)
  BY <1>2, <1>3, NothingMade, TroubledHonest DEF Result, Refusal
<1>5. QED
  BY <1>1, <1>3, <1>4, SettleKeeps

LEMMA SendKeeps ==
  ASSUME Sane, pc \in {"token", "renew"}, pc' = "send", token' \in {"none", "good", "bad"},
         attempt' \in 0..Retries, renewed' \in BOOLEAN,
         renewed' => token' = "good" \/ (token' = token /\ renewed),
         UNCHANGED <<job, full, drawn, req, call>>, out' = NoReturn
  PROVE  IInv'
<1>1. TypeOK'
  BY NoReturnType DEF Sane, IInv, TypeOK
<1>2. Belongs' /\ Reported' /\ Submitting' /\ Stopping' /\ Renewing'
  BY DEF Sane, IInv, Belongs, Reported, Submitting, Stopping, Renewing
<1>3. QED
  BY <1>1, <1>2, Unreported DEF IInv

LEMMA GetTokenKeeps == ASSUME Sane, GetToken PROVE IInv'
<1>1. CASE Goto("send") /\ UNCHANGED call /\ (UNCHANGED token \/ token' = "good")
  BY <1>1, SendKeeps DEF GetToken, Goto, http, Sane, IInv, TypeOK
<1>2. CASE NoToken
  BY <1>2, NoTokenKeeps DEF GetToken
<1>3. QED
  BY <1>1, <1>2 DEF GetToken

LEMMA RenewKeeps == ASSUME Sane, Renew PROVE IInv'
<1>1. CASE /\ token' = "good" /\ pc' = "send" /\ attempt' = 0 /\ renewed' = TRUE
           /\ UNCHANGED <<req, call, out>>
  <2>1. out' = NoReturn /\ attempt' \in 0..Retries
    BY <1>1 DEF Renew, Sane, Assumption, IInv, Reported
  <2>2. QED
    BY <1>1, <2>1, SendKeeps DEF Renew
<1>2. CASE NoToken
  BY <1>2, NoTokenKeeps DEF Renew
<1>3. QED
  BY <1>1, <1>2 DEF Renew

LEMMA UnauthorizedKeeps == ASSUME Sane, Unauthorized PROVE IInv'
<1>1. CASE renewed /\ Settle("AuthenticationFailed")
  <2>1. /\ UNCHANGED <<job, full, token, drawn, call>> /\ pc = "send"
        /\ job \in [Jobs -> JobState] /\ call \in Call /\ "revoked" \in call.met
    BY <1>1 DEF Unauthorized, Sane, IInv, TypeOK, Renewing
  <2>2. Honest("AuthenticationFailed")
    BY <2>1, NothingMade, TroubledHonest DEF Result, Refusal
  <2>3. QED
    BY <1>1, <2>1, <2>2, SettleKeeps
<1>2. CASE ~renewed /\ Goto("renew")
  <2>1. /\ UNCHANGED <<job, full, token, drawn, call, req, attempt, renewed>>
        /\ pc = "send" /\ pc' = "renew" /\ out' = NoReturn
    BY <1>2 DEF Unauthorized, Goto, http
  <2>2. TypeOK'
    BY <2>1, NoReturnType DEF Sane, IInv, TypeOK
  <2>3. Belongs' /\ Reported' /\ Submitting' /\ Stopping' /\ Renewing'
    BY <2>1 DEF Sane, IInv, Belongs, Reported, Submitting, Stopping, Renewing
  <2>4. QED
    BY <2>1, <2>2, <2>3, Unreported DEF IInv
<1>3. QED
  BY <1>1, <1>2 DEF Unauthorized

LEMMA AnsweredKeeps == ASSUME Sane, Answered PROVE IInv'
<1>1. PICK answer \in Result :
        /\ \/ (Obeyed(answer) \/ Rejected(answer)) /\ Note({})
           \/ Declined(answer) /\ Note({"declined"})
        /\ Settle(answer)
  BY DEF Answered
<1>2. pc = "send" /\ UNCHANGED <<full, token, drawn>>
  BY DEF Answered
<1>3. Honest(answer)
  <2>1. CASE Obeyed(answer) /\ Note({})
    BY <1>2, <2>1, ObeyedHonest
  <2>2. CASE Rejected(answer) /\ Note({})
    BY <1>2, <2>2, RejectedHonest
  <2>3. CASE Declined(answer) /\ Note({"declined"})
    <3>1. job' \in [Jobs -> JobState] /\ Made = {} /\ answer \in {"InvalidInput", "Other"}
      BY <2>3, NothingMade DEF Declined, Sane, IInv, TypeOK
    <3>2. /\ call' \in Call /\ call'.op = call.op /\ call'.id = call.id
          /\ call'.made = call.made \cup Made /\ call'.met = call.met \cup {"declined"}
      BY <2>3, NoteKeeps DEF AnyTrouble
    <3>3. QED
      BY <1>2, <3>1, <3>2, TroubledHonest
  <2>4. QED
    BY <1>1, <2>1, <2>2, <2>3
<1>4. QED
  BY <1>1, <1>2, <1>3, SettleKeeps

LEMMA UnansweredKeeps == ASSUME Sane, Unanswered PROVE IInv'
<1>1. PICK t \in Trouble \cap {"unsent", "lost"} :
        /\ \/ t = "unsent" /\ UNCHANGED job
           \/ t = "lost" /\ token = "good" /\ \E answer \in Result : Obeyed(answer)
        /\ \/ Again({t})
           \/ Note({t}) /\ Settle(UnansweredKind) /\ UNCHANGED drawn
  BY DEF Unanswered
<1>2. pc = "send" /\ UNCHANGED <<full, token>> /\ t \in AnyTrouble
  BY DEF Unanswered, AnyTrouble
<1>3. /\ job' \in [Jobs -> JobState] /\ Made \subseteq {call.id}
      /\ req # "post" => Made = {}
      /\ req = "delete" /\ job[call.id] # "Running" => job'[call.id] # "Running"
  <2>1. CASE UNCHANGED job
    BY <2>1, NothingMade DEF Sane, IInv, TypeOK
  <2>2. CASE \E answer \in Result : Obeyed(answer)
    BY <1>2, <2>2, ObeyedMakes
  <2>3. QED
    BY <1>1, <2>1, <2>2
<1>4. CASE Note({t}) /\ Settle(UnansweredKind) /\ UNCHANGED drawn
  <2>1. /\ call' \in Call /\ call'.op = call.op /\ call'.id = call.id
        /\ call'.made = call.made \cup Made /\ call'.met = call.met \cup {t}
    BY <1>2, <1>4, NoteKeeps
  <2>2. Honest("Other")
    BY <1>2, <1>3, <2>1, TroubledHonest DEF Result
  <2>3. QED
    BY <1>2, <1>4, <2>2, SettleKeeps DEF UnansweredKind
<1>5. CASE Again({t})
  <2>1. /\ call' \in Call /\ call'.op = call.op /\ call'.id = call.id
        /\ call'.made = call.made \cup Made /\ call'.met = call.met \cup ({t} \cup {"again"})
    BY <1>2, <1>5, NoteKeeps DEF Again
  <2>2. UNCHANGED <<drawn, pc, req, renewed, out>> /\ attempt' \in 0..Retries
    BY <1>5 DEF Again, Sane, Assumption, IInv, TypeOK
  <2>3. TypeOK'
    BY <1>2, <1>3, <2>1, <2>2 DEF Sane, IInv, TypeOK
  <2>4. Submitting'
    BY <1>2, <1>3, <2>1, <2>2, Serves DEF Submitting
  <2>5. Belongs' /\ Reported' /\ Stopping' /\ Renewing'
    BY <1>2, <1>3, <2>1, <2>2 DEF Sane, IInv, Belongs, Reported, Stopping, Renewing
  <2>6. out' = NoReturn
    BY <1>2, <2>2 DEF Sane, IInv, Reported
  <2>7. QED
    BY <2>3, <2>4, <2>5, <2>6, Unreported DEF IInv
<1>6. QED
  BY <1>1, <1>4, <1>5

LEMMA StepKeeps == ASSUME Assumption, IInv, [Next]_vars PROVE IInv'
<1>1. CASE Next
  BY <1>1, ProgressKeeps, LanesKeeps, RevokeKeeps, RejectStartKeeps, TaskStartKeeps,
     TaskCallKeeps, UploadKeeps, GetTokenKeeps, UnauthorizedKeeps, RenewKeeps, AnsweredKeeps,
     UnansweredKeeps, FetchKeeps DEF Next, Advance, Sane
<1>2. CASE UNCHANGED vars
  BY <1>2 DEF vars, http, IInv, TypeOK, Belongs, Reported, Submitting, Stopping, Renewing,
              Promises, ContractWithoutRepeats, StartContract, OneJobPerStart, StopSettles,
              RenewalHelps
<1>3. QED
  BY <1>1, <1>2

-----------------------------------------------------------------------------
(* The theorems. *)

LEMMA Inductive == Spec => []IInv
  BY Assumption, Start, StepKeeps, PTL DEF Spec

\* The variables of the client and of the service keep their types: no attempt
\* is made beyond the retries (the retry policies of the client).
THEOREM TypeCorrect == Spec => []TypeOK
<1>1. IInv => TypeOK
  BY DEF IInv
<1>2. QED
  BY <1>1, Inductive, PTL

\* task_start whose request was never repeated keeps the contract of the trait: an
\* error other than Other means that there is no job (run_job, from_response).
THEOREM ContractHolds == Spec => []ContractWithoutRepeats
<1>1. IInv => ContractWithoutRepeats
  BY DEF IInv, Promises
<1>2. QED
  BY <1>1, Inductive, PTL

\* However often run_primitive's submission is repeated, it creates one job.
THEOREM OneJobAlways == Spec => []OneJobPerStart
<1>1. IInv => OneJobPerStart
  BY DEF IInv, Promises
<1>2. QED
  BY <1>1, Inductive, PTL

\* A job that task_stop reports stopped does not run, and none does after a
\* task_stop that met no trouble: the races of task_stop with the end of the job
\* are no errors.
THEOREM StopSettlesAlways == Spec => []StopSettles
<1>1. IInv => StopSettles
  BY DEF IInv, Promises
<1>2. QED
  BY <1>1, Inductive, PTL

\* AuthMiddleware hides that a token was rejected while IAM gives good ones.
THEOREM RenewalAlwaysHelps == Spec => []RenewalHelps
<1>1. IInv => RenewalHelps
  BY DEF IInv, Promises
<1>2. QED
  BY <1>1, Inductive, PTL
=============================================================================

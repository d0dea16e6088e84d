--------------------------- MODULE Clients_proofs ---------------------------
(***************************************************************************)
(* The clients of a resource, for every value of the constants: a refusal  *)
(* of Maestro's request API is definite whatever its clones and the server *)
(* do; no task is left behind by a task runner, a batch of Pulser or a     *)
(* program of the Quantum System client, and what they tell of a task is   *)
(* so; a resource that is discovered is of one service; a backend of       *)
(* Qiskit is made of one answer.                                           *)
(***************************************************************************)
EXTENDS Clients, TLAPS

USE BoundsAssumption

(***************************************************************************)
(* A run is that of one client: the state of another is left alone.        *)
(***************************************************************************)

LEMMA OneClient ==
  ASSUME [Next]_vars
  PROVE  /\ \/ C!Next /\ UNCHANGED lost
            \/ P!PyRunnerNext /\ UNCHANGED <<job, faulty>>
            \/ (C!JobBegins \/ C!JobEnds \/ C!Answers) /\ UNCHANGED lost
            \/ UNCHANGED <<contractVars, lost>>
         /\ J!JobNext \/ UNCHANGED jobVars
         /\ B!PulserNext \/ UNCHANGED pulserVars
         /\ M!RequestNext \/ UNCHANGED requestVars
         /\ D!DiscoveryNext \/ UNCHANGED discoveryVars
         /\ H!BackendNext \/ UNCHANGED backendVars
         /\ R!AppNext \/ UNCHANGED appVars
<1>1. CASE Next
  BY <1>1 DEF Next
<1>2. CASE UNCHANGED vars
  BY <1>2 DEF vars
<1>3. QED
  BY <1>1, <1>2

(***************************************************************************)
(* MaestroRequest                                                          *)
(***************************************************************************)

\* What a clone knows of its submission at each of its steps.
Exchange(c) ==
  /\ at[c] # "idle" => code[c] = "none"
  /\ at[c] \in {"clear", "ask", "learn", "send"} => made[c] = 0
  /\ at[c] \in {"send", "hear"} => doing[c] = "submit"
  /\ at[c] \in {"learn", "hear"} => reply[c] # "none"
  /\ at[c] = "hear" /\ reply[c] = "accepted" => made[c] = 1
  /\ at[c] = "hear" /\ reply[c] \in {"refused", "retired"} => made[c] = 0

Definite(c) ==
  /\ code[c] \notin M!Doubt \cup {"none", "Ok"} => made[c] = 0
  /\ doing[c] = "submit" /\ code[c] = "Ok" => made[c] = 1

RequestInv ==
  /\ M!RequestTypeOK
  /\ \A c \in Clones : Exchange(c) /\ Definite(c)

\* What a code says of the reply that it was made of.
LEMMA Replies ==
  ASSUME NEW r \in M!Reply, r # "none"
  PROVE  /\ M!Parsed(r) \in M!Code \ {"none"}
         /\ M!Submitted(r) \in M!Code \ {"none"}
         /\ M!Submitted(r) = "Ok" => r = "accepted"
         /\ M!Submitted(r) \notin M!Doubt \cup {"Ok"} => r \in {"refused", "retired"}
BY DEF M!Reply, M!Parsed, M!Submitted, M!Code, M!Doubt

\* A step of one clone leaves the others where they are.
LEMMA OtherClones ==
  ASSUME RequestInv, NEW c \in Clones, NEW d \in Clones, d # c,
         at'[d] = at[d], code'[d] = code[d], made'[d] = made[d],
         doing'[d] = doing[d], reply'[d] = reply[d]
  PROVE  Exchange(d)' /\ Definite(d)'
BY DEF RequestInv, Exchange, Definite

LEMMA RequestStep ==
  ASSUME RequestInv, M!RequestNext \/ UNCHANGED requestVars
  PROVE  RequestInv'
<1> USE DEF M!RequestTypeOK, M!Goto, M!Returns
<1>1. CASE UNCHANGED requestVars \/ M!Replaced
  BY <1>1 DEF RequestInv, requestVars, M!Replaced, Exchange, Definite, M!Server
<1>2. ASSUME NEW c \in Clones, M!Submit(c) PROVE RequestInv'
  BY <1>2, OtherClones DEF RequestInv, M!Submit, Exchange, Definite, M!Code, M!Doubt
<1>3. ASSUME NEW c \in Clones, M!Capabilities(c) PROVE RequestInv'
  BY <1>3, OtherClones DEF RequestInv, M!Capabilities, Exchange, Definite, M!Code, M!Doubt
<1>4. ASSUME NEW c \in Clones, M!Clear(c) PROVE RequestInv'
  <2>1. /\ at[c] = "clear" /\ at' = [at EXCEPT ![c] = "ask"] /\ negotiated' = FALSE
        /\ UNCHANGED <<server, doing, reply, made, code>>
    BY <1>4 DEF M!Clear
  <2>2. M!RequestTypeOK'
    BY <2>1 DEF RequestInv
  <2>3. Exchange(c)' /\ Definite(c)'
    BY <2>1 DEF RequestInv, Exchange, Definite
  <2>4. \A d \in Clones \ {c} : Exchange(d)' /\ Definite(d)'
    BY <2>1, OtherClones DEF RequestInv
  <2>5. QED
    BY <2>2, <2>3, <2>4 DEF RequestInv
<1>5. ASSUME NEW c \in Clones, M!Ask(c) PROVE RequestInv'
  BY <1>5, OtherClones DEF RequestInv, M!Ask, Exchange, Definite, M!Capable
<1>6. ASSUME NEW c \in Clones, M!Learn(c) PROVE RequestInv'
  <2> USE <1>6
  <2> DEFINE res == IF reply[c] = "bare" THEN "unsupported_api" ELSE M!Parsed(reply[c])
  <2>1. /\ at[c] = "learn" /\ reply[c] \in M!Reply \ {"none"}
        /\ made[c] = 0 /\ code[c] = "none"
    BY DEF RequestInv, M!Learn, Exchange
  <2>2. res \in M!Code \ {"none"}
    BY <2>1, Replies DEF M!Code
  <2>3. /\ UNCHANGED <<server, doing, reply, made>>
        /\ negotiated' \in BOOLEAN
        /\ \/ /\ doing[c] = "submit"
              /\ at' = [at EXCEPT ![c] = "send"] /\ code' = code
           \/ /\ ~(res = "Ok" /\ doing[c] = "submit")
              /\ at' = [at EXCEPT ![c] = "idle"] /\ code' = [code EXCEPT ![c] = res]
    BY DEF RequestInv, M!Learn
  <2>4. M!RequestTypeOK'
    BY <2>2, <2>3 DEF RequestInv
  <2>5. Exchange(c)' /\ Definite(c)'
    BY <2>1, <2>2, <2>3 DEF RequestInv, Exchange, Definite
  <2>6. \A d \in Clones \ {c} : Exchange(d)' /\ Definite(d)'
    BY <2>3, OtherClones DEF RequestInv
  <2>7. QED
    BY <2>4, <2>5, <2>6 DEF RequestInv
<1>7. ASSUME NEW c \in Clones, M!Send(c) PROVE RequestInv'
  BY <1>7, OtherClones DEF RequestInv, M!Send, Exchange, Definite, M!Creating, M!Refusing
<1>8. ASSUME NEW c \in Clones, M!Hear(c) PROVE RequestInv'
  BY <1>8, OtherClones, Replies DEF RequestInv, M!Hear, Exchange, Definite, M!Code, M!Doubt
<1>9. QED
  BY <1>1, <1>2, <1>3, <1>4, <1>5, <1>6, <1>7, <1>8 DEF M!RequestNext

(***************************************************************************)
(* ClientApps                                                              *)
(***************************************************************************)

Early == {"put", "sign input", "sign results", "sign logs", "submit"}

\* A program that goes on past the wait has seen its job end.
Programs ==
  /\ app \in {"run_job", "run_primitive"}
  /\ state \in R!JobStatus \cup {"absent"}
  /\ next \in Early => state = "absent" /\ printed = {}
  /\ next \in {"ask result", "get result", "ask logs", "get logs", "delete"} =>
       state # "Running"
  /\ next \in {"results", "logs"} => app = "run_job"
  /\ next \in {"results", "logs", "ok"} => state = "absent"
  /\ next = "error" /\ state # "absent" => trouble \/ raced
  /\ state = "Completed" => completed
  /\ app = "run_primitive" /\ next = "get result" => completed

\* The job, and what the program has said of it, do not go back.
JobGoesOn ==
  /\ state' = state \/ (state = "Running" /\ state' \in R!Final)
                    \/ (state \in R!Final /\ state' = "absent")
  /\ completed => completed'
  /\ raced => raced'
  /\ state' = "Completed" => completed'

AppsInv == Programs /\ R!PrintedIsTrue

\* What the service, another program or utility does.
LEMMA OthersStep ==
  ASSUME AppsInv, JobGoesOn, UNCHANGED <<app, next, printed, trouble>>
  PROVE  AppsInv'
BY DEF AppsInv, Programs, R!PrintedIsTrue, JobGoesOn, R!Final, R!JobStatus, Early

LEMMA MainStep ==
  ASSUME AppsInv, R!Main
  PROVE  AppsInv'
<1> USE DEF AppsInv, Programs, R!PrintedIsTrue, R!Goto, R!Trouble, R!Show, R!Final, R!JobStatus,
        Early
<1>1. app' = app
  BY DEF R!Main
<1>2. CASE R!put_object \/ R!Sign
  BY <1>1, <1>2 DEF R!put_object, R!Sign, R!get_presigned_url_for_get, R!get_presigned_url_for_put
<1>3. CASE R!submit
  BY <1>1, <1>3 DEF R!submit
<1>4. CASE R!wait_for_job_final_state
  BY <1>1, <1>4 DEF R!wait_for_job_final_state, R!Then, R!run_job, R!run_primitive
<1>5. CASE R!cancel_job
  BY <1>1, <1>5 DEF R!cancel_job, R!Cancelled, R!Then, R!run_job, R!run_primitive
<1>6. CASE R!get_result \/ R!get_logs
  BY <1>1, <1>6 DEF R!get_result, R!get_logs
<1>7. CASE \/ R!Download("get result", R!ResultsKey, "result", "ask logs")
           \/ R!Download("get logs", R!LogsKey, "logs", "delete")
  BY <1>1, <1>7 DEF R!Download
<1>8. CASE R!delete_job
  BY <1>1, <1>8 DEF R!delete_job, R!Deleted, R!Then, R!run_job, R!run_primitive
<1>9. CASE \/ R!get_object("results", R!ResultsKey, "result", "logs")
           \/ R!get_object("logs", R!LogsKey, "logs", "ok")
  BY <1>1, <1>9 DEF R!get_object
<1>10. QED
  BY <1>2, <1>3, <1>4, <1>5, <1>6, <1>7, <1>8, <1>9 DEF R!Main

LEMMA AppsStep ==
  ASSUME AppsInv, R!AppNext \/ UNCHANGED appVars
  PROVE  AppsInv'
<1> USE DEF JobGoesOn, R!Final, R!JobStatus
<1>1. CASE R!ServiceWorks
  BY <1>1, OthersStep DEF R!ServiceWorks, R!Store, AppsInv, Programs
<1>2. CASE R!CancelJob
  BY <1>2, OthersStep DEF R!CancelJob, R!Cancelled, R!Deleted, AppsInv, Programs
<1>3. CASE R!Utility \/ UNCHANGED appVars
  <2>1. UNCHANGED <<app, next, state, printed, trouble, completed, raced>>
    BY <1>3 DEF R!Utility, appVars
  <2>2. JobGoesOn
    BY <2>1 DEF AppsInv, Programs
  <2>3. QED
    BY <2>1, <2>2, OthersStep
<1>4. QED
  BY <1>1, <1>2, <1>3, MainStep DEF R!AppNext

(***************************************************************************)
(* RunnerContract and PythonRunner                                         *)
(***************************************************************************)

\* The call that each stage waits for.
Asked ==
  /\ asked # "none" /\ stage # "killed" =>
       \/ stage = "starting" /\ asked = "start"
       \/ stage = "asking" /\ asked = "status"
       \/ stage = "fetching" /\ asked = "result"
       \/ stage = "reporting" /\ asked = "logs"
       \/ stage = "cleaning" /\ asked = "stop"
  /\ started => stage \notin {"setup", "starting"}

\* A task that the runner has stopped does not run, and a result that it has is that of
\* a task that completed.
Settled ==
  /\ stage = "cleaning" /\ asked = "none" /\ ~faulty => job # "active"
  /\ stage = "exited" /\ started /\ ~faulty /\ ~lost => job # "active"
  /\ stage = "fetching" /\ asked = "none" /\ answer = "Ok" => job = "Completed"
  /\ stage = "writing" => job = "Completed"
  /\ result = "Ok" => delivered /\ job = "Completed"

RunnersInv == Asked /\ Settled

\* The runner does not touch its task, whichever runner it is.
LEMMA RunnerStep ==
  ASSUME RunnersInv, UNCHANGED <<job, faulty>>,
         (C!RunnerNext /\ UNCHANGED lost) \/ P!PyRunnerNext
  PROVE  RunnersInv'
<1> USE DEF RunnersInv, Asked, Settled, C!Move, C!Call, C!Returned, C!Fail, C!Dead,
        P!Move, P!Call, P!Returned, P!Dead, P!Finally, P!Except
<1>1. CASE C!RunnerNext /\ UNCHANGED lost
  BY <1>1 DEF C!RunnerNext, C!Reject, C!Launch, C!Proceed, C!Signal, C!Kill, C!StartRefused,
     C!StartAccepted, C!NameTask, C!Poll, C!Judge, C!Wake, C!Fetched, C!WriteResult, C!Report,
     C!Clean
<1>2. CASE P!PyProceed
  BY <1>2 DEF P!PyProceed, P!Begin, P!Refused, P!Accepted, P!Assign, P!While, P!Look, P!Sleep,
     P!Fetch, P!Write, P!ReportFailure, P!Cleanup
<1>3. CASE P!SignalHandler \/ P!PyKill
  BY <1>3 DEF P!SignalHandler, P!PyKill
<1>4. CASE P!Interrupt
  BY <1>4 DEF P!Interrupt
<1>5. QED
  BY <1>1, <1>2, <1>3, <1>4 DEF P!PyRunnerNext

\* The resource keeps its contract.
LEMMA ContractStep ==
  ASSUME RunnersInv, C!JobBegins \/ C!JobEnds \/ C!Answers, UNCHANGED lost
  PROVE  RunnersInv'
<1> USE DEF RunnersInv, Asked, Settled, C!runner, C!Reply, C!Verdict
<1>1. CASE C!JobBegins \/ C!JobEnds
  BY <1>1 DEF C!JobBegins, C!JobEnds
<1>2. CASE C!Start \/ C!Status \/ C!Result \/ C!Logs
  BY <1>2 DEF C!Start, C!Status, C!Result, C!Logs
<1>3. CASE C!Stop
  BY <1>3 DEF C!Stop
<1>4. QED
  BY <1>1, <1>2, <1>3 DEF C!Answers

LEMMA RunnersStep ==
  ASSUME RunnersInv,
         \/ C!Next /\ UNCHANGED lost
         \/ P!PyRunnerNext /\ UNCHANGED <<job, faulty>>
         \/ (C!JobBegins \/ C!JobEnds \/ C!Answers) /\ UNCHANGED lost
         \/ UNCHANGED <<contractVars, lost>>
  PROVE  RunnersInv'
<1>1. CASE UNCHANGED <<contractVars, lost>>
  BY <1>1 DEF contractVars, RunnersInv, Asked, Settled
<1>2. QED
  BY <1>1, RunnerStep, ContractStep DEF C!Next

(***************************************************************************)
(* PrimitiveJob                                                            *)
(***************************************************************************)

\* The first final status is how the task ended, and QRMIPasqalJob keeps it.
JobsInv ==
  /\ class \in J!Class
  /\ final = "none" \/ (final \in C!Verdict /\ task = final)
  /\ final = "none" => told \notin C!Verdict /\ last \notin C!Verdict
  /\ final # "none" =>
       /\ told \in {final, "raised", "Pending"}
       /\ class = "QRMIPasqalJob" => last = final /\ told = final
       /\ last \in C!Verdict => last = final

LEMMA JobsStep ==
  ASSUME JobsInv, J!JobNext \/ UNCHANGED jobVars
  PROVE  JobsInv'
<1> USE DEF JobsInv, C!Verdict, J!Class
<1>1. ASSUME J!Asks PROVE JobsInv'
  <2>1. CASE J!Remembered
    BY <1>1, <2>1 DEF J!Asks, J!Remembered, J!Tells
  <2>2. CASE ~J!Remembered
    <3>1. PICK a \in J!Answers : /\ J!Tells(a)
                                 /\ last' = IF a = "raised" \/ class = "IQMJobCustom"
                                            THEN last ELSE a
      BY <1>1, <2>2 DEF J!Asks
    <3>2. a \in {"raised", "Pending"} \/ (a \in C!Verdict /\ a = task)
      BY DEF J!Answers
    <3>3. UNCHANGED <<class, task>>
      BY <1>1 DEF J!Asks
    <3>4. class = "QRMIPasqalJob" => last \notin C!Verdict
      BY <2>2 DEF J!Remembered
    <3>5. QED
      BY <3>1, <3>2, <3>3, <3>4 DEF J!Tells
  <2>3. QED
    BY <2>1, <2>2
<1>2. CASE J!status \/ J!result \/ J!ResultPolls
  BY <1>1, <1>2 DEF J!status, J!result, J!ResultPolls
<1>3. CASE J!TaskEnds \/ J!Forgets
  BY <1>3 DEF J!TaskEnds, J!Forgets
<1>4. CASE J!ResultRaises \/ J!ResultEnds
  BY <1>4 DEF J!ResultRaises, J!ResultEnds
<1>5. CASE J!cancel \/ UNCHANGED jobVars
  BY <1>5 DEF J!cancel, jobVars
<1>6. QED
  BY <1>2, <1>3, <1>4, <1>5 DEF J!JobNext

(***************************************************************************)
(* PulserConnection                                                        *)
(***************************************************************************)

Walks == {"wait", "cancel_batch_jobs", "get_batch_status", "fetch_result"}

\* The tasks of the batch that a call has gone through.
Through == Len(batch) - Len(left)

BatchTypeOK ==
  /\ fate \in Seq({"active"} \cup C!Verdict)
  /\ batch \in Seq(Nat) /\ \A k \in 1..Len(batch) : batch[k] \in 1..Len(fate)
  /\ left \in Seq(Nat)
  /\ seen \in Seq({"Pending"} \cup C!Verdict)
  /\ op \in {"none", "submit"} \cup Walks
  /\ batch = << >> \/ Len(batch) = Width

\* A call goes through the batch in its order, and what it was told stays so.
Walking ==
  /\ op = "submit" => seen = << >> /\ \A k \in 1..Len(left) : left[k] \in 1..Len(fate)
  /\ op \in Walks =>
       /\ batch # << >>
       /\ Through >= 0
       /\ \A k \in 1..Len(left) : left[k] = batch[Through + k]
  /\ op \in Walks \ {"cancel_batch_jobs"} =>
       /\ Len(seen) = Through
       /\ \A k \in 1..Len(seen) : seen[k] \in C!Verdict => fate[batch[k]] = seen[k]
  /\ op = "cancel_batch_jobs" =>
       \A k \in 1..Through : batch[k] \in failed \/ fate[batch[k]] # "active"

\* What a call that has returned says of the batch, as it stays true.
Said ==
  /\ op # "none" => verdict = "none"
  /\ verdict \in {"DONE", "CANCELED", "ERROR", "results"} =>
       batch # << >> /\ \A k \in 1..Len(batch) : fate[batch[k]] # "active"
  /\ verdict = "CANCELED" => \A k \in 1..Len(batch) : fate[batch[k]] = "Cancelled"
  /\ verdict = "ERROR" => \A k \in 1..Len(batch) : fate[batch[k]] = "Failed"
  /\ verdict = "results" => \A k \in 1..Len(batch) : fate[batch[k]] = "Completed"
  /\ verdict = "cancelled" =>
       \A k \in 1..Len(batch) : batch[k] \in failed \/ fate[batch[k]] # "active"

BatchesInv == BatchTypeOK /\ Walking /\ Said

LEMMA BatchesSay ==
  ASSUME BatchesInv
  PROVE  B!CancelReachesAll /\ B!BatchTruthful
<1>1. B!ToSet(batch) = {batch[k] : k \in 1..Len(batch)}
  BY DEF B!ToSet, BatchesInv, BatchTypeOK
<1>2. batch # << >> => 1 \in 1..Len(batch)
  BY DEF BatchesInv, BatchTypeOK
<1>3. B!CancelReachesAll
  BY <1>1 DEF BatchesInv, Said, B!CancelReachesAll
<1>4. B!BatchTruthful
  <2> DEFINE states == {fate[t] : t \in B!ToSet(batch)}
  <2>1. states = {fate[batch[k]] : k \in 1..Len(batch)}
    BY <1>1
  <2>2. verdict \in {"DONE", "CANCELED", "ERROR"} => "active" \notin states
    BY <2>1 DEF BatchesInv, Said
  <2>3. \A v : batch # << >> /\ (\A k \in 1..Len(batch) : fate[batch[k]] = v) => states = {v}
    BY <1>2, <2>1
  <2>4. /\ verdict = "CANCELED" => states = {"Cancelled"}
        /\ verdict = "ERROR" => states = {"Failed"}
        /\ verdict = "results" => states = {"Completed"}
    BY <2>3 DEF BatchesInv, Said
  <2>5. QED
    BY <2>2, <2>4 DEF B!BatchTruthful
<1>5. QED
  BY <1>3, <1>4

\* A task ends while a call goes through its batch.
LEMMA TaskEndsStep ==
  ASSUME BatchesInv, B!PulserTaskEnds
  PROVE  BatchesInv'
<1>1. PICK t \in DOMAIN fate, v \in C!Verdict :
        fate[t] = "active" /\ fate' = [fate EXCEPT ![t] = v]
  BY DEF B!PulserTaskEnds
<1>2. UNCHANGED <<batch, op, left, seen, failed, verdict>>
  BY DEF B!PulserTaskEnds
<1>3. /\ fate' \in Seq({"active"} \cup C!Verdict)
      /\ Len(fate') = Len(fate)
      /\ \A s \in 1..Len(fate) : fate[s] # "active" => fate'[s] = fate[s]
  BY <1>1 DEF BatchesInv, BatchTypeOK, C!Verdict
<1>4. BatchTypeOK'
  BY <1>2, <1>3 DEF BatchesInv, BatchTypeOK
<1>5. \A k \in 1..Len(batch) : fate[batch[k]] # "active" => fate'[batch[k]] = fate[batch[k]]
  BY <1>3 DEF BatchesInv, BatchTypeOK
<1>6. op \in Walks => Through \in 0..Len(batch)
  BY DEF BatchesInv, BatchTypeOK, Walking, Through
<1>7. Walking'
  <2>1. Through' = Through
    BY <1>2 DEF Through
  <2>2. op = "submit" => seen = << >> /\ \A k \in 1..Len(left) : left[k] \in 1..Len(fate')
    BY <1>3 DEF BatchesInv, Walking
  <2>3. ASSUME op \in Walks \ {"cancel_batch_jobs"}, NEW k \in 1..Len(seen), seen[k] \in C!Verdict
        PROVE  fate'[batch[k]] = seen[k]
    <3>1. k \in 1..Len(batch) /\ fate[batch[k]] = seen[k]
      BY <1>6, <2>3 DEF BatchesInv, Walking
    <3>2. seen[k] # "active"
      BY <2>3 DEF C!Verdict
    <3>3. QED
      BY <1>5, <3>1, <3>2
  <2>4. ASSUME op = "cancel_batch_jobs", NEW k \in 1..Through
        PROVE  batch[k] \in failed \/ fate'[batch[k]] # "active"
    <3>1. op \in Walks
      BY <2>4 DEF Walks
    <3>2. k \in 1..Len(batch)
      BY <1>6, <3>1
    <3>3. batch[k] \in failed \/ fate[batch[k]] # "active"
      BY <2>4 DEF BatchesInv, Walking
    <3>4. QED
      BY <1>5, <3>2, <3>3
  <2>5. op \in Walks => /\ batch # << >> /\ Through >= 0
                        /\ \A k \in 1..Len(left) : left[k] = batch[Through + k]
    BY DEF BatchesInv, Walking
  <2>6. op \in Walks \ {"cancel_batch_jobs"} => Len(seen) = Through
    BY DEF BatchesInv, Walking
  <2>7. QED
    BY <1>2, <2>1, <2>2, <2>3, <2>4, <2>5, <2>6 DEF Walking
<1>8. Said'
  BY <1>2, <1>5 DEF BatchesInv, Said
<1>9. QED
  BY <1>4, <1>7, <1>8 DEF BatchesInv

\* A call begins, of the whole batch.
LEMMA BeginStep ==
  ASSUME BatchesInv, NEW call \in Walks, B!BeginBatch(call)
  PROVE  BatchesInv'
<1>1. /\ op' = call /\ left' = batch /\ batch # << >>
      /\ seen' = << >> /\ failed' = {} /\ verdict' = "none"
      /\ UNCHANGED <<fate, batch>>
  BY DEF B!BeginBatch
<1>2. BatchTypeOK'
  BY <1>1 DEF BatchesInv, BatchTypeOK
<1>3. Walking'
  BY <1>1 DEF BatchesInv, BatchTypeOK, Walking, Through, Walks
<1>4. Said'
  BY <1>1 DEF Said
<1>5. QED
  BY <1>2, <1>3, <1>4 DEF BatchesInv

\* submit: the tasks are started one by one, and their batch is then the current one.
LEMMA SubmitStep ==
  ASSUME BatchesInv, B!submit \/ B!StartNext \/ B!Submitted
  PROVE  BatchesInv'
<1>1. CASE B!submit
  BY <1>1 DEF B!submit, BatchesInv, BatchTypeOK, Walking, Said, Walks
<1>2. CASE B!StartNext
  <2>1. /\ op = "submit" /\ fate' = Append(fate, "active")
        /\ left' = Append(left, Len(fate) + 1)
        /\ UNCHANGED <<batch, op, seen, failed, verdict>>
    BY <1>2 DEF B!StartNext
  <2>2. fate' \in Seq({"active"} \cup C!Verdict) /\ Len(fate') = Len(fate) + 1
    BY <2>1 DEF BatchesInv, BatchTypeOK
  <2>3. BatchTypeOK'
    BY <2>1, <2>2 DEF BatchesInv, BatchTypeOK
  <2>b. left \in Seq(Nat) /\ Len(fate) \in Nat
    BY DEF BatchesInv, BatchTypeOK
  <2>c. Len(left') = Len(left) + 1 /\ \A k \in 1..Len(left) : left'[k] = left[k]
    BY <2>1, <2>b
  <2>4. \A k \in 1..Len(left') : left'[k] \in 1..Len(fate')
    <3>1. ASSUME NEW k \in 1..Len(left') PROVE left'[k] \in 1..Len(fate')
      <4>1. CASE k = Len(left) + 1
        BY <2>1, <2>2, <4>1 DEF BatchesInv, BatchTypeOK
      <4>2. CASE k # Len(left) + 1
        <5>1. k \in 1..Len(left) /\ left'[k] = left[k]
          BY <2>b, <2>c, <3>1, <4>2
        <5>2. left[k] \in 1..Len(fate)
          BY <2>1, <5>1 DEF BatchesInv, Walking
        <5>3. QED
          BY <2>2, <5>1, <5>2 DEF BatchesInv, BatchTypeOK
      <4>3. QED
        BY <4>1, <4>2
    <3>2. QED
      BY <3>1
  <2>5. Walking'
    BY <2>1, <2>4 DEF BatchesInv, Walking, Walks
  <2>6. Said'
    BY <2>1 DEF BatchesInv, Said
  <2>7. QED
    BY <2>3, <2>5, <2>6 DEF BatchesInv
<1>3. CASE B!Submitted
  <2>1. /\ op = "submit" /\ Len(left) = Width /\ batch' = left
        /\ UNCHANGED <<fate, seen, failed>>
        /\ \/ op' = "wait" /\ UNCHANGED <<left, verdict>>
           \/ op' = "none" /\ left' = << >> /\ verdict' = "submitted"
    BY <1>3 DEF B!Submitted, B!Ends
  <2>2. /\ left # << >> /\ left \in Seq(Nat) /\ Len(left) = Width
        /\ \A k \in 1..Len(left) : left[k] \in 1..Len(fate)
    BY <2>1 DEF BatchesInv, BatchTypeOK, Walking
  <2>3. left' \in Seq(Nat) /\ op' \in {"none", "wait"}
    <3>1. << >> \in Seq(Nat)
      OBVIOUS
    <3>2. left' \in {left, << >>} /\ op' \in {"none", "wait"}
      BY <2>1
    <3>3. QED
      BY <2>2, <3>1, <3>2
  <2>a. BatchTypeOK'
    BY <2>1, <2>2, <2>3 DEF BatchesInv, BatchTypeOK, Walks
  <2>4. Walking'
    <3>1. CASE op' = "none"
      BY <3>1 DEF Walking, Walks
    <3>2. CASE op' = "wait"
      <4>1. left' = left /\ batch' = left /\ Through' = 0
        BY <2>1, <2>2, <3>2 DEF Through
      <4>2. Len(seen') = 0
        BY <2>1 DEF BatchesInv, Walking
      <4>3. QED
        BY <2>2, <3>2, <4>1, <4>2 DEF Walking, Walks
    <3>3. QED
      BY <2>3, <3>1, <3>2
  <2>5. Said'
    BY <2>1 DEF BatchesInv, Said
  <2>6. QED
    BY <2>a, <2>4, <2>5 DEF BatchesInv
<1>4. QED
  BY <1>1, <1>2, <1>3

\* A call goes on to the next task.
LEMMA NextTask ==
  ASSUME BatchesInv, op \in Walks, left # << >>, left' = Tail(left), UNCHANGED batch
  PROVE  /\ left' \in Seq(Nat)
         /\ Through' = Through + 1
         /\ Through + 1 \in 1..Len(batch) /\ Head(left) = batch[Through + 1]
         /\ \A k \in 1..Len(left') : left'[k] = batch'[Through' + k]
<1>1. /\ batch \in Seq(Nat) /\ left \in Seq(Nat) /\ Through >= 0
      /\ \A k \in 1..Len(left) : left[k] = batch[Through + k]
  BY DEF BatchesInv, BatchTypeOK, Walking
<1>2. Len(left) \in Nat \ {0} /\ Len(batch) \in Nat
  BY <1>1
<1>3. /\ Tail(left) \in Seq(Nat) /\ Len(Tail(left)) = Len(left) - 1
      /\ Head(left) = left[1]
      /\ \A k \in 1..Len(left) - 1 : Tail(left)[k] = left[k + 1]
  BY <1>1
<1>4. Through' = Through + 1 /\ Through + 1 \in 1..Len(batch) /\ Through \in Nat
  BY <1>1, <1>2, <1>3 DEF Through
<1>5. Head(left) = batch[Through + 1]
  BY <1>1, <1>2, <1>3
<1>6. ASSUME NEW k \in 1..Len(left') PROVE left'[k] = batch[Through + (k + 1)]
  <2>1. k \in 1..Len(left) - 1 /\ k + 1 \in 1..Len(left)
    BY <1>2, <1>3
  <2>2. QED
    BY <1>1, <1>3, <2>1
<1>7. \A k \in 1..Len(left') : Through + (k + 1) = Through' + k
  BY <1>2, <1>3, <1>4
<1>8. QED
  BY <1>3, <1>4, <1>5, <1>6, <1>7

\* task_status of the next task.
LEMMA AskStep ==
  ASSUME BatchesInv, B!WaitNext \/ B!AskNext
  PROVE  BatchesInv'
<1>1. /\ op \in Walks \ {"cancel_batch_jobs"} /\ left # << >> /\ left' = Tail(left)
      /\ UNCHANGED <<fate, batch, op, failed, verdict>>
  BY DEF B!WaitNext, B!AskNext, Walks
<1>2. PICK a \in {"Pending"} \cup C!Verdict : B!Asks(a) /\ seen' = Append(seen, a)
  BY DEF B!WaitNext, B!AskNext
<1>3. /\ left' \in Seq(Nat) /\ Through' = Through + 1
      /\ Through + 1 \in 1..Len(batch) /\ Head(left) = batch[Through + 1]
      /\ \A k \in 1..Len(left') : left'[k] = batch'[Through' + k]
  BY <1>1, NextTask
<1>4. /\ seen \in Seq({"Pending"} \cup C!Verdict) /\ Len(seen) = Through
      /\ \A k \in 1..Len(seen) : seen[k] \in C!Verdict => fate[batch[k]] = seen[k]
  BY <1>1 DEF BatchesInv, BatchTypeOK, Walking
<1>5. /\ seen' \in Seq({"Pending"} \cup C!Verdict) /\ Len(seen') = Len(seen) + 1
      /\ seen'[Len(seen) + 1] = a
      /\ \A k \in 1..Len(seen) : seen'[k] = seen[k]
  BY <1>2, <1>4
<1>6. a \in C!Verdict => fate[batch[Through + 1]] = a
  BY <1>2, <1>3 DEF B!Asks, C!Verdict
<1>7. ASSUME NEW k \in 1..Len(seen'), seen'[k] \in C!Verdict PROVE fate[batch[k]] = seen'[k]
  <2>1. k = Len(seen) + 1 \/ k \in 1..Len(seen)
    BY <1>4, <1>5
  <2>2. QED
    BY <1>4, <1>5, <1>6, <1>7, <2>1
<1>8. BatchTypeOK'
  BY <1>1, <1>3, <1>5 DEF BatchesInv, BatchTypeOK
<1>9. Walking'
  <2>1. batch # << >> /\ Through' >= 0 /\ Len(seen') = Through'
    BY <1>1, <1>3, <1>4, <1>5 DEF BatchesInv, Walking
  <2>2. QED
    BY <1>1, <1>3, <1>7, <2>1 DEF Walking, Walks
<1>10. Said'
  BY <1>1 DEF BatchesInv, Said
<1>11. QED
  BY <1>8, <1>9, <1>10 DEF BatchesInv

\* task_stop of the next task, which may fail.
LEMMA StopStep ==
  ASSUME BatchesInv, B!StopNext
  PROVE  BatchesInv'
<1>1. /\ op = "cancel_batch_jobs" /\ left # << >> /\ left' = Tail(left)
      /\ UNCHANGED <<batch, op, seen, verdict>>
  BY DEF B!StopNext, B!StopFails
<1>2. /\ left' \in Seq(Nat) /\ Through' = Through + 1
      /\ Through + 1 \in 1..Len(batch) /\ Head(left) = batch[Through + 1]
      /\ \A k \in 1..Len(left') : left'[k] = batch'[Through' + k]
  BY <1>1, NextTask DEF Walks
<1>3. /\ fate \in Seq({"active"} \cup C!Verdict) /\ batch \in Seq(Nat)
      /\ \A k \in 1..Len(batch) : batch[k] \in 1..Len(fate)
      /\ batch # << >> /\ Through >= 0
      /\ \A k \in 1..Through : batch[k] \in failed \/ fate[batch[k]] # "active"
  BY <1>1 DEF BatchesInv, BatchTypeOK, Walking, Walks
<1>4. /\ failed \subseteq failed'
      /\ \/ fate' = [fate EXCEPT ![Head(left)] = IF @ = "active" THEN "Cancelled" ELSE @]
         \/ Head(left) \in failed' /\ fate' = fate
  BY DEF B!StopNext
<1>5. /\ fate' \in Seq({"active"} \cup C!Verdict) /\ Len(fate') = Len(fate)
      /\ \A t \in 1..Len(fate) : fate[t] # "active" => fate'[t] # "active"
      /\ Head(left) \in failed' \/ fate'[Head(left)] # "active"
  <2>1. CASE fate' = [fate EXCEPT ![Head(left)] = IF @ = "active" THEN "Cancelled" ELSE @]
    <3>1. Head(left) \in 1..Len(fate)
      BY <1>2, <1>3
    <3>2. QED
      BY <1>3, <2>1, <3>1 DEF C!Verdict
  <2>2. CASE Head(left) \in failed' /\ fate' = fate
    BY <1>3, <2>2
  <2>3. QED
    BY <1>4, <2>1, <2>2
<1>6. ASSUME NEW k \in 1..Through' PROVE batch[k] \in failed' \/ fate'[batch[k]] # "active"
  <2>1. CASE k = Through + 1
    BY <1>2, <1>5, <2>1
  <2>2. CASE k \in 1..Through
    <3>1. k \in 1..Len(batch)
      BY <1>2, <1>3, <2>2 DEF Through
    <3>2. QED
      BY <1>3, <1>4, <1>5, <2>2, <3>1
  <2>3. Through \in Nat
    BY <1>3 DEF BatchesInv, BatchTypeOK, Through
  <2>4. QED
    BY <1>2, <1>3, <2>1, <2>2, <2>3
<1>7. BatchTypeOK'
  BY <1>1, <1>2, <1>5 DEF BatchesInv, BatchTypeOK
<1>8. Walking'
  BY <1>1, <1>2, <1>3, <1>6 DEF Walking, Walks
<1>9. Said'
  BY <1>1 DEF BatchesInv, Said
<1>10. QED
  BY <1>7, <1>8, <1>9 DEF BatchesInv

\* What the statuses that were told of the whole batch come to.
LEMMA Statuses ==
  ASSUME BatchTypeOK, seen # << >>
  PROVE  /\ B!StatusOfBatch \in B!BatchStatus
         /\ B!StatusOfBatch \in {"DONE", "CANCELED", "ERROR"} =>
              \A k \in 1..Len(seen) : seen[k] \in C!Verdict
         /\ B!StatusOfBatch = "CANCELED" => \A k \in 1..Len(seen) : seen[k] = "Cancelled"
         /\ B!StatusOfBatch = "ERROR" => \A k \in 1..Len(seen) : seen[k] = "Failed"
<1>1. /\ B!ToSet(seen) = {seen[k] : k \in 1..Len(seen)}
      /\ 1 \in 1..Len(seen)
      /\ \A k \in 1..Len(seen) : seen[k] \in {"Pending"} \cup C!Verdict
  BY DEF B!ToSet, BatchTypeOK
<1>2. B!ToSet(seen) # {}
  BY <1>1
<1>3. CASE B!All({"Pending"})
  BY <1>2, <1>3 DEF B!StatusOfBatch, B!All, B!BatchStatus
<1>4. CASE B!All({"Cancelled"})
  <2>1. ~B!All({"Pending"}) /\ ~B!All({"Failed"}) /\ "Pending" \notin B!ToSet(seen)
    BY <1>2, <1>4 DEF B!All
  <2>2. B!StatusOfBatch = "CANCELED"
    BY <1>4, <2>1 DEF B!StatusOfBatch
  <2>3. \A k \in 1..Len(seen) : seen[k] = "Cancelled"
    BY <1>1, <1>4 DEF B!All
  <2>4. QED
    BY <2>2, <2>3 DEF B!BatchStatus, C!Verdict
<1>5. CASE B!All({"Failed"})
  <2>1. ~B!All({"Pending"}) /\ ~B!All({"Cancelled"}) /\ "Pending" \notin B!ToSet(seen)
    BY <1>2, <1>5 DEF B!All
  <2>2. B!StatusOfBatch = "ERROR"
    BY <1>5, <2>1 DEF B!StatusOfBatch
  <2>3. \A k \in 1..Len(seen) : seen[k] = "Failed"
    BY <1>1, <1>5 DEF B!All
  <2>4. QED
    BY <2>2, <2>3 DEF B!BatchStatus, C!Verdict
<1>6. CASE ~B!All({"Pending"}) /\ ~B!All({"Cancelled"}) /\ ~B!All({"Failed"})
  <2>1. B!StatusOfBatch = IF "Pending" \in B!ToSet(seen) THEN "RUNNING" ELSE "DONE"
    BY <1>6 DEF B!StatusOfBatch
  <2>2. QED
    BY <1>1, <2>1 DEF B!BatchStatus
<1>7. QED
  BY <1>3, <1>4, <1>5, <1>6

\* A call returns.
LEMMA EndStep ==
  ASSUME BatchesInv, NEW v, op # "none", op' = "none", left' = << >>, verdict' = v,
         UNCHANGED <<fate, batch, seen, failed>>,
         Said'
  PROVE  BatchesInv'
<1>1. BatchTypeOK'
  <2>1. left' \in Seq(Nat)
    OBVIOUS
  <2>2. QED
    BY <2>1 DEF BatchesInv, BatchTypeOK
<1>2. Walking'
  BY DEF Walking, Walks
<1>3. QED
  BY <1>1, <1>2 DEF BatchesInv

\* A call that has gone through its batch says what it has found.
LEMMA WholeBatch ==
  ASSUME BatchesInv, op \in Walks, left = << >>
  PROVE  /\ batch # << >> /\ Through = Len(batch)
         /\ op # "cancel_batch_jobs" =>
              /\ seen # << >> /\ Len(seen) = Len(batch)
              /\ \A k \in 1..Len(batch) : seen[k] \in C!Verdict => fate[batch[k]] = seen[k]
BY DEF BatchesInv, BatchTypeOK, Walking, Through

LEMMA ReturnStep ==
  ASSUME BatchesInv,
         \/ \E call \in {"submit", "wait", "get_batch_status", "fetch_result"} : B!Raises(call)
         \/ B!WaitEnds \/ B!CancelEnds \/ B!StatusEnds \/ B!ResultsEnd
  PROVE  BatchesInv'
<1> USE DEF B!Ends
<1>1. CASE \/ \E call \in {"submit", "wait", "get_batch_status", "fetch_result"} : B!Raises(call)
           \/ B!WaitEnds
  <2>1. /\ op # "none" /\ op' = "none" /\ left' = << >> /\ verdict' \in {"raised", "submitted"}
        /\ UNCHANGED <<fate, batch, seen, failed>>
    BY <1>1 DEF B!Raises, B!WaitEnds
  <2>2. Said'
    BY <2>1 DEF Said
  <2>3. QED
    BY <2>1, <2>2, EndStep
<1>2. CASE B!CancelEnds
  <2>1. /\ op = "cancel_batch_jobs" /\ left = << >>
        /\ op' = "none" /\ left' = << >> /\ verdict' = "cancelled"
        /\ UNCHANGED <<fate, batch, seen, failed>>
    BY <1>2 DEF B!CancelEnds
  <2>2. \A k \in 1..Len(batch) : batch[k] \in failed \/ fate[batch[k]] # "active"
    BY <2>1, WholeBatch DEF BatchesInv, Walking, Walks
  <2>3. Said'
    BY <2>1, <2>2 DEF Said
  <2>4. QED
    BY <2>1, <2>3, EndStep
<1>3. CASE B!StatusEnds
  <2>1. /\ op = "get_batch_status" /\ left = << >>
        /\ op' = "none" /\ left' = << >> /\ verdict' = B!StatusOfBatch
        /\ UNCHANGED <<fate, batch, seen, failed>>
    BY <1>3 DEF B!StatusEnds
  <2>2. /\ batch # << >> /\ seen # << >> /\ Len(seen) = Len(batch)
        /\ \A k \in 1..Len(batch) : seen[k] \in C!Verdict => fate[batch[k]] = seen[k]
    BY <2>1, WholeBatch DEF Walks
  <2>3. /\ verdict' \in B!BatchStatus
        /\ verdict' \in {"DONE", "CANCELED", "ERROR"} =>
             \A k \in 1..Len(seen) : seen[k] \in C!Verdict
        /\ verdict' = "CANCELED" => \A k \in 1..Len(seen) : seen[k] = "Cancelled"
        /\ verdict' = "ERROR" => \A k \in 1..Len(seen) : seen[k] = "Failed"
    BY <2>1, <2>2, Statuses DEF BatchesInv
  <2>4. Said'
    BY <2>1, <2>2, <2>3 DEF Said, B!BatchStatus, C!Verdict
  <2>5. QED
    BY <2>1, <2>4, EndStep
<1>4. CASE B!ResultsEnd
  <2>1. /\ op = "fetch_result" /\ left = << >> /\ B!All({"Completed"})
        /\ op' = "none" /\ left' = << >> /\ verdict' = "results"
        /\ UNCHANGED <<fate, batch, seen, failed>>
    BY <1>4 DEF B!ResultsEnd
  <2>2. /\ batch # << >> /\ Len(seen) = Len(batch)
        /\ \A k \in 1..Len(batch) : seen[k] \in C!Verdict => fate[batch[k]] = seen[k]
    BY <2>1, WholeBatch DEF Walks
  <2>3. \A k \in 1..Len(seen) : seen[k] = "Completed"
    BY <2>1 DEF B!All, B!ToSet, BatchesInv, BatchTypeOK
  <2>4. Said'
    BY <2>1, <2>2, <2>3 DEF Said, C!Verdict
  <2>5. QED
    BY <2>1, <2>4, EndStep
<1>5. QED
  BY <1>1, <1>2, <1>3, <1>4

LEMMA BatchesStep ==
  ASSUME BatchesInv, B!PulserNext \/ UNCHANGED pulserVars
  PROVE  BatchesInv'
<1>1. CASE UNCHANGED pulserVars
  <2>1. UNCHANGED <<fate, batch, op, left, seen, failed, verdict>>
    BY <1>1 DEF pulserVars
  <2>2. BatchTypeOK' /\ Through' = Through
    BY <2>1 DEF BatchesInv, BatchTypeOK, Through
  <2>3. Walking' /\ Said'
    BY <2>1, <2>2 DEF BatchesInv, Walking, Said
  <2>4. QED
    BY <2>2, <2>3 DEF BatchesInv
<1>2. CASE B!cancel_batch_jobs \/ B!get_batch_status \/ B!fetch_result
  BY <1>2, BeginStep DEF B!cancel_batch_jobs, B!get_batch_status, B!fetch_result, Walks
<1>3. QED
  BY <1>1, <1>2, TaskEndsStep, SubmitStep, AskStep, StopStep, ReturnStep DEF B!PulserNext

(***************************************************************************)
(* Discovery                                                               *)
(***************************************************************************)

FindingsOK ==
  /\ env \in [Backends -> D!Settings]
  /\ finds \in [Threads -> {"resources", "new"}]
  /\ step \in [Threads -> {"idle", "list", "next", "inject", "construct", "ask"}]
  /\ todo \in [Threads -> SUBSET Backends]
  /\ current \in [Threads -> Backends]
  /\ keys \in [Threads -> SUBSET D!Keys]
  /\ read \in [Threads -> D!Settings]
  /\ found \in [Threads -> SUBSET [name : Backends, of : D!Settings, crossed : BOOLEAN]]

\* The settings of one service.
Alike(settings) == \A k, l \in D!Required : settings[k] = settings[l]

Writes(o, b) == step[o] = "inject" /\ current[o] = b

\* The variables of a backend that two providers have not written at a time are those of
\* one of them, once it has written them all.
Unmixed(b) ==
  b \notin mixed =>
    /\ \A o \in Threads : Writes(o, b) => \A k \in D!Required \ keys[o] : env[b][k] = o
    /\ (\A o \in Threads : ~Writes(o, b)) => Alike(env[b])

\* What a thread has written is still there, and what it has read of it is the same, if
\* no other thread came in between.
Making(t) ==
  /\ step[t] = "inject" => finds[t] = "resources"
  /\ step[t] = "ask" => finds[t] = "new"
  /\ step[t] = "inject" /\ t \notin crossed =>
       \A k \in D!Required \ keys[t] : env[current[t]][k] = t
  /\ step[t] = "construct" /\ t \notin crossed =>
       /\ \A k \in D!Required \ keys[t] : read[t][k] = env[current[t]][k]
       /\ finds[t] = "resources" => \A k \in D!Required : env[current[t]][k] = t
       /\ finds[t] = "new" /\ current[t] \notin mixed => Alike(env[current[t]])
  /\ step[t] = "ask" /\ t \notin crossed /\ current[t] \notin mixed => Alike(read[t])

OfOne(t) ==
  \A r \in found[t] : ~r.crossed =>
    /\ finds[t] = "resources" => \A k \in D!Required : r.of[k] = t
    /\ Alike(r.of)

FindingsInv ==
  /\ FindingsOK
  /\ \A b \in Backends : Unmixed(b)
  /\ \A t \in Threads : Making(t) /\ OfOne(t)

\* A thread that does not move is only concerned by what is written into its backend.
LEMMA OtherThread ==
  ASSUME FindingsInv, NEW u \in Threads,
         finds'[u] = finds[u], step'[u] = step[u], current'[u] = current[u],
         keys'[u] = keys[u], read'[u] = read[u], found'[u] = found[u],
         mixed \subseteq mixed', u \notin crossed' => u \notin crossed,
         \/ env' = env
         \/ step[u] \in {"inject", "construct"} =>
              u \in crossed' \/ env'[current[u]] = env[current[u]]
  PROVE  Making(u)' /\ OfOne(u)'
<1>1. Making(u) /\ OfOne(u)
  BY DEF FindingsInv
<1>2. step[u] \in {"inject", "construct"} => u \in crossed' \/ env'[current[u]] = env[current[u]]
  OBVIOUS
<1>3. Making(u)'
  BY <1>1, <1>2 DEF Making, Alike
<1>4. OfOne(u)'
  BY <1>1 DEF OfOne, Alike
<1>5. QED
  BY <1>3, <1>4

\* No thread begins to write, or ends.
LEMMA SameWriters ==
  ASSUME FindingsInv, UNCHANGED <<env, mixed>>,
         \A o \in Threads :
           /\ step'[o] = "inject" <=> step[o] = "inject"
           /\ step[o] = "inject" => current'[o] = current[o] /\ keys'[o] = keys[o]
  PROVE  \A b \in Backends : Unmixed(b)'
<1>1. \A o \in Threads, b \in Backends : Writes(o, b)' <=> Writes(o, b)
  BY DEF Writes
<1>2. \A o \in Threads, b \in Backends : Writes(o, b) => keys'[o] = keys[o]
  BY DEF Writes
<1>3. QED
  BY <1>1, <1>2 DEF FindingsInv, Unmixed, Alike

\* A thread moves, and nobody begins to write or writes.
LEMMA QuietStep ==
  ASSUME FindingsInv, FindingsOK', NEW t \in Threads, UNCHANGED <<env, mixed>>,
         step[t] # "inject", step'[t] # "inject",
         \A u \in Threads \ {t} :
           /\ finds'[u] = finds[u] /\ step'[u] = step[u] /\ current'[u] = current[u]
           /\ keys'[u] = keys[u] /\ read'[u] = read[u] /\ found'[u] = found[u]
           /\ u \notin crossed' => u \notin crossed,
         Making(t)', OfOne(t)'
  PROVE  FindingsInv'
<1>1. \A b \in Backends : Unmixed(b)'
  BY SameWriters
<1>2. \A u \in Threads \ {t} : Making(u)' /\ OfOne(u)'
  BY OtherThread
<1>3. QED
  BY <1>1, <1>2 DEF FindingsInv

\* The steps before a backend is taken, and those that end a call.
LEMMA CallStep ==
  ASSUME FindingsInv, NEW t \in Threads,
         D!resources(t) \/ D!List(t) \/ D!new(t) \/ D!Done(t)
  PROVE  FindingsInv'
<1>1. /\ UNCHANGED <<env, mixed, crossed, keys, read, current>>
      /\ step[t] \in {"idle", "list", "next"}
      /\ \E s \in {"idle", "list", "next"} : step' = [step EXCEPT ![t] = s]
      /\ todo' = todo \/ \E some \in SUBSET Backends : todo' = [todo EXCEPT ![t] = some]
      /\ \/ UNCHANGED <<finds, found>>
         \/ /\ \E what \in {"resources", "new"} : finds' = [finds EXCEPT ![t] = what]
            /\ found' = [found EXCEPT ![t] = {}]
  BY DEF D!resources, D!List, D!new, D!Done, D!Calls, D!Goto
<1>2. FindingsOK'
  BY <1>1 DEF FindingsInv, FindingsOK
<1>3. /\ step'[t] \in {"idle", "list", "next"}
      /\ found'[t] = {} \/ (found'[t] = found[t] /\ finds'[t] = finds[t])
  BY <1>1 DEF FindingsInv, FindingsOK
<1>4. \A u \in Threads \ {t} :
        /\ finds'[u] = finds[u] /\ step'[u] = step[u] /\ found'[u] = found[u]
  BY <1>1 DEF FindingsInv, FindingsOK
<1>5. Making(t)'
  BY <1>3 DEF Making
<1>6. OfOne(t)'
  BY <1>3 DEF FindingsInv, OfOne, Alike
<1>7. QED
  BY <1>1, <1>2, <1>3, <1>4, <1>5, <1>6, QuietStep

\* A backend is taken: to write its variables, or only to read them.
LEMMA TakeStep ==
  ASSUME FindingsInv, NEW t \in Threads, D!Take(t)
  PROVE  FindingsInv'
<1>1. PICK b \in Backends :
        /\ current' = [current EXCEPT ![t] = b]
        /\ crossed' = IF \E o \in Threads : Writes(o, b) THEN crossed \cup {t} ELSE crossed \ {t}
  <2>1. PICK b \in todo[t] :
          /\ current' = [current EXCEPT ![t] = b]
          /\ crossed' = IF \E o \in Threads : step[o] = "inject" /\ current[o] = b
                        THEN crossed \cup {t} ELSE crossed \ {t}
    BY DEF D!Take
  <2>2. b \in Backends
    BY DEF FindingsInv, FindingsOK
  <2>3. QED
    BY <2>1, <2>2 DEF Writes
<1>2. /\ step[t] = "next" /\ UNCHANGED <<env, finds, read, found, mixed>>
      /\ \/ /\ finds[t] = "resources" /\ step' = [step EXCEPT ![t] = "inject"]
            /\ keys' = [keys EXCEPT ![t] = D!KeysOf(t)]
         \/ /\ finds[t] = "new" /\ step' = [step EXCEPT ![t] = "construct"]
            /\ keys' = [keys EXCEPT ![t] = D!Keys]
  BY DEF FindingsInv, FindingsOK, D!Take, D!Goto
<1>3. D!Required \subseteq D!KeysOf(t) /\ D!KeysOf(t) \subseteq D!Keys
  BY DEF D!KeysOf, D!Keys
<1>4. FindingsOK'
  <2>1. todo' \in [Threads -> SUBSET Backends]
    BY DEF D!Take, FindingsInv, FindingsOK
  <2>2. current' \in [Threads -> Backends]
    BY <1>1 DEF FindingsInv, FindingsOK
  <2>3. keys' \in [Threads -> SUBSET D!Keys]
    BY <1>2, <1>3 DEF FindingsInv, FindingsOK
  <2>4. step' \in [Threads -> {"idle", "list", "next", "inject", "construct", "ask"}]
    BY <1>2 DEF FindingsInv, FindingsOK
  <2>5. QED
    BY <1>2, <2>1, <2>2, <2>3, <2>4 DEF FindingsInv, FindingsOK
<1>5. /\ current'[t] = b /\ D!Required \subseteq keys'[t]
      /\ \/ finds[t] = "resources" /\ step'[t] = "inject"
         \/ finds[t] = "new" /\ step'[t] = "construct"
  BY <1>1, <1>2, <1>3 DEF FindingsInv, FindingsOK, D!Keys
<1>6. \A u \in Threads \ {t} :
        step'[u] = step[u] /\ current'[u] = current[u] /\ keys'[u] = keys[u]
  BY <1>1, <1>2 DEF FindingsInv, FindingsOK
<1>7. OfOne(t)'
  BY <1>2 DEF FindingsInv, OfOne, Alike
<1>8. Making(t)'
  <2>1. t \notin crossed' => \A o \in Threads : ~Writes(o, b)
    BY <1>1
  <2>2. t \notin crossed' /\ b \notin mixed => Alike(env[b])
    BY <2>1 DEF FindingsInv, Unmixed
  <2>3. QED
    BY <1>2, <1>5, <2>2 DEF Making, Alike
<1>9. \A c \in Backends : Unmixed(c)'
  <2> SUFFICES ASSUME NEW c \in Backends, c \notin mixed PROVE Unmixed(c)'
    BY <1>2 DEF Unmixed
  <2>1. \A o \in Threads : Writes(o, c)' => Writes(o, c) \/ o = t
    BY <1>6 DEF Writes
  <2>2. \A o \in Threads : Writes(o, c) => Writes(o, c)' /\ o # t
    BY <1>2, <1>6 DEF Writes
  <2>3. ASSUME NEW o \in Threads, Writes(o, c)', NEW k \in D!Required \ keys'[o]
        PROVE  env'[c][k] = o
    BY <1>2, <1>5, <1>6, <2>1, <2>3 DEF FindingsInv, Unmixed
  <2>4. (\A o \in Threads : ~Writes(o, c)') => Alike(env[c])
    BY <2>2 DEF FindingsInv, Unmixed
  <2>5. QED
    BY <1>2, <2>3, <2>4 DEF Unmixed, Alike
<1>10. \A u \in Threads \ {t} : Making(u)' /\ OfOne(u)'
  BY <1>1, <1>2, <1>6, OtherThread
<1>11. QED
  BY <1>4, <1>7, <1>8, <1>9, <1>10 DEF FindingsInv

\* A variable is written: the others that make the same backend are crossed, and it is
\* mixed.
LEMMA InjectStep ==
  ASSUME FindingsInv, NEW t \in Threads, D!Inject(t)
  PROVE  FindingsInv'
<1> DEFINE b == current[t]
<1>1. PICK k \in keys[t] :
        /\ env' = [env EXCEPT ![b][k] = t]
        /\ \/ /\ keys[t] \ {k} = {} /\ step' = [step EXCEPT ![t] = "construct"]
              /\ keys' = [keys EXCEPT ![t] = D!Keys]
           \/ step' = step /\ keys' = [keys EXCEPT ![t] = @ \ {k}]
  BY DEF D!Inject, D!Written, D!Goto, FindingsInv, FindingsOK
<1>2. /\ step[t] = "inject" /\ UNCHANGED <<finds, todo, current, read, found>>
      /\ crossed' = crossed \cup D!Beside(t)
      /\ mixed' = IF D!Beside(t) = {} THEN mixed ELSE mixed \cup {b}
  BY DEF D!Inject
<1>3. b \in Backends /\ k \in D!Keys /\ env[b] \in D!Settings /\ t \in D!Source
  BY DEF FindingsInv, FindingsOK, D!Source
<1>4. env' \in [Backends -> D!Settings]
  BY <1>1, <1>3 DEF FindingsInv, FindingsOK, D!Settings
<1>5. /\ env'[b][k] = t
      /\ \A l \in D!Keys \ {k} : env'[b][l] = env[b][l]
      /\ \A c \in Backends \ {b} : env'[c] = env[c]
  BY <1>1, <1>3 DEF FindingsInv, FindingsOK, D!Settings
<1>6. FindingsOK'
  BY <1>1, <1>2, <1>4 DEF FindingsInv, FindingsOK
<1>7. \A u \in Threads \ {t} : step'[u] = step[u] /\ keys'[u] = keys[u]
  BY <1>1 DEF FindingsInv, FindingsOK
<1>8. \/ step'[t] = "construct" /\ keys[t] \ {k} = {} /\ keys'[t] = D!Keys
      \/ step'[t] = "inject" /\ keys'[t] = keys[t] \ {k}
  BY <1>1, <1>2 DEF FindingsInv, FindingsOK
\* What t has written of its backend, this variable with it.
<1>9. ASSUME \A l \in D!Required \ keys[t] : env[b][l] = t,
             NEW l \in D!Required, l \notin keys[t] \/ l = k
      PROVE  env'[b][l] = t
  BY <1>5, <1>9 DEF D!Keys
<1>10. Making(t)'
  <2>1. finds[t] = "resources"
    BY <1>2 DEF FindingsInv, Making
  <2>2. t \notin crossed' => \A l \in D!Required \ keys[t] : env[b][l] = t
    BY <1>2 DEF FindingsInv, Making
  <2>3. CASE step'[t] = "construct"
    <3>1. keys[t] = {k} /\ keys'[t] = D!Keys
      BY <1>2, <1>8, <2>3
    <3>2. t \notin crossed' => \A l \in D!Required : env'[b][l] = t
      BY <1>9, <2>2, <3>1
    <3>3. QED
      BY <1>2, <2>1, <2>3, <3>1, <3>2 DEF Making, D!Keys
  <2>4. CASE step'[t] = "inject"
    <3>1. keys'[t] = keys[t] \ {k}
      BY <1>8, <2>4
    <3>2. t \notin crossed' => \A l \in D!Required \ keys'[t] : env'[b][l] = t
      BY <1>9, <2>2, <3>1
    <3>3. QED
      BY <1>2, <2>1, <2>4, <3>2 DEF Making
  <2>5. QED
    BY <1>8, <2>3, <2>4
<1>11. OfOne(t)'
  BY <1>2 DEF FindingsInv, OfOne, Alike
<1>12. \A u \in Threads \ {t} : Making(u)' /\ OfOne(u)'
  <2> SUFFICES ASSUME NEW u \in Threads \ {t} PROVE Making(u)' /\ OfOne(u)'
    OBVIOUS
  <2>1. step[u] \in {"inject", "construct"} => u \in crossed' \/ env'[current[u]] = env[current[u]]
    <3>1. current[u] \in Backends
      BY DEF FindingsInv, FindingsOK
    <3>2. QED
      BY <1>2, <1>5, <3>1 DEF D!Beside
  <2>2. mixed \subseteq mixed' /\ (u \notin crossed' => u \notin crossed)
    BY <1>2
  <2>3. QED
    BY <1>2, <1>7, <2>1, <2>2, OtherThread
<1>13. \A c \in Backends : Unmixed(c)'
  <2> SUFFICES ASSUME NEW c \in Backends, c \notin mixed' PROVE Unmixed(c)'
    BY DEF Unmixed
  <2>1. c \notin mixed /\ Unmixed(c)
    BY <1>2 DEF FindingsInv
  <2>2. CASE c # b
    <3>1. \A o \in Threads : (Writes(o, c)' <=> Writes(o, c)) /\ (Writes(o, c) => o # t)
      BY <1>2, <1>7, <2>2 DEF Writes
    <3>2. QED
      BY <1>5, <1>7, <2>1, <2>2, <3>1 DEF Unmixed, Alike
  <2>3. CASE c = b
    <3>1. D!Beside(t) = {}
      BY <1>2, <2>3
    <3>2. \A o \in Threads \ {t} : ~Writes(o, b)'
      BY <1>2, <1>7, <3>1 DEF Writes, D!Beside
    <3>3. Writes(t, b)
      BY <1>2 DEF Writes
    <3>4. \A l \in D!Required \ keys[t] : env[b][l] = t
      BY <2>1, <2>3, <3>3 DEF Unmixed
    <3>5. CASE step'[t] = "construct"
      <4>1. \A l \in D!Required : env'[b][l] = t
        BY <1>2, <1>8, <1>9, <3>4, <3>5
      <4>2. ~Writes(t, b)'
        BY <3>5 DEF Writes
      <4>3. QED
        BY <1>2, <2>3, <3>2, <4>1, <4>2 DEF Unmixed, Alike
    <3>6. CASE step'[t] = "inject"
      <4>1. \A l \in D!Required \ keys'[t] : env'[b][l] = t
        BY <1>8, <1>9, <3>4, <3>6
      <4>2. Writes(t, b)'
        BY <1>2, <3>6 DEF Writes
      <4>3. QED
        BY <1>2, <2>3, <3>2, <4>1, <4>2 DEF Unmixed
    <3>7. QED
      BY <1>8, <3>5, <3>6
  <2>4. QED
    BY <2>2, <2>3
<1>14. QED
  BY <1>6, <1>10, <1>11, <1>12, <1>13 DEF FindingsInv

\* A variable is read.
LEMMA ConstructStep ==
  ASSUME FindingsInv, NEW t \in Threads, D!Construct(t)
  PROVE  FindingsInv'
<1>1. PICK k \in keys[t] :
        /\ read' = [read EXCEPT ![t][k] = env[current[t]][k]]
        /\ keys' = [keys EXCEPT ![t] = @ \ {k}]
  BY DEF D!Construct
<1>2. /\ step[t] = "construct"
      /\ UNCHANGED <<env, finds, step, todo, current, found, crossed, mixed>>
  BY DEF D!Construct
<1>3. /\ k \in D!Keys /\ read[t] \in D!Settings
      /\ env[current[t]][k] \in D!Source
  BY DEF FindingsInv, FindingsOK, D!Settings
<1>4. read' \in [Threads -> D!Settings]
  BY <1>1, <1>3 DEF FindingsInv, FindingsOK, D!Settings
<1>5. FindingsOK'
  BY <1>1, <1>2, <1>4 DEF FindingsInv, FindingsOK
<1>6. /\ read'[t][k] = env[current[t]][k]
      /\ \A l \in D!Keys \ {k} : read'[t][l] = read[t][l]
      /\ keys'[t] = keys[t] \ {k}
  BY <1>1, <1>3 DEF FindingsInv, FindingsOK, D!Settings
<1>7. \A u \in Threads \ {t} : read'[u] = read[u] /\ keys'[u] = keys[u]
  BY <1>1 DEF FindingsInv, FindingsOK
<1>8. Making(t)'
  <2>1. Making(t)
    BY DEF FindingsInv
  <2>2. t \notin crossed => \A l \in D!Required \ keys'[t] : read'[t][l] = env[current[t]][l]
    BY <1>2, <1>6, <2>1 DEF Making, D!Keys
  <2>3. QED
    BY <1>2, <2>1, <2>2 DEF Making, Alike
<1>9. OfOne(t)'
  BY <1>2 DEF FindingsInv, OfOne, Alike
<1>10. QED
  BY <1>2, <1>5, <1>7, <1>8, <1>9, QuietStep

\* What a thread has made is of one service, or says that it was disturbed.
LEMMA KeptIsOfOne ==
  ASSUME FindingsInv, NEW t \in Threads,
         \/ step[t] = "construct" /\ keys[t] = {}
         \/ step[t] = "ask",
         ~D!Disturbed(t)
  PROVE  /\ finds[t] = "resources" => \A k \in D!Required : read[t][k] = t
         /\ Alike(read[t])
<1>1. Making(t) /\ finds[t] \in {"resources", "new"}
  BY DEF FindingsInv, FindingsOK
<1>2. t \notin crossed /\ (finds[t] = "new" => current[t] \notin mixed)
  BY DEF D!Disturbed
<1>3. CASE step[t] = "ask"
  BY <1>1, <1>2, <1>3 DEF Making
<1>4. CASE step[t] = "construct" /\ keys[t] = {}
  BY <1>1, <1>2, <1>4 DEF Making, Alike
<1>5. QED
  BY <1>3, <1>4

\* A resource is made, kept or not.
LEMMA MadeStep ==
  ASSUME FindingsInv, NEW t \in Threads, D!Constructed(t) \/ D!Asked(t)
  PROVE  FindingsInv'
<1>1. /\ \/ step[t] = "construct" /\ keys[t] = {}
         \/ step[t] = "ask"
      /\ UNCHANGED <<env, finds, todo, current, keys, crossed, mixed>>
  BY DEF D!Constructed, D!Asked
<1>2. read' = read \/ read' = [read EXCEPT ![t] = D!Nothing]
  BY DEF D!Constructed, D!Asked, D!Forget
<1>3. \/ found' = found \/ found' = [found EXCEPT ![t] = {}]
      \/ found' = [found EXCEPT ![t] = @ \cup
                     {[name |-> current[t], of |-> read[t], crossed |-> D!Disturbed(t)]}]
  BY DEF D!Constructed, D!Asked, D!Fails, D!Keep
<1>4. \E s \in {"idle", "next", "ask"} :
        /\ step' = [step EXCEPT ![t] = s]
        /\ s = "ask" => step[t] = "construct" /\ finds[t] # "resources" /\ read' = read
  BY DEF D!Constructed, D!Asked, D!Fails, D!Goto
<1>5. FindingsOK'
  <2>1. read' \in [Threads -> D!Settings]
    <3>1. D!Nothing \in D!Settings
      BY DEF D!Settings, D!Nothing, D!Source
    <3>2. QED
      BY <1>2, <3>1 DEF FindingsInv, FindingsOK
  <2>2. D!Disturbed(t) \in BOOLEAN
    BY DEF D!Disturbed
  <2>3. found' \in [Threads -> SUBSET [name : Backends, of : D!Settings, crossed : BOOLEAN]]
    BY <1>3, <2>2 DEF FindingsInv, FindingsOK
  <2>4. QED
    BY <1>1, <1>4, <2>1, <2>3 DEF FindingsInv, FindingsOK
<1>6. \A u \in Threads \ {t} : read'[u] = read[u] /\ step'[u] = step[u] /\ found'[u] = found[u]
  BY <1>2, <1>3, <1>4 DEF FindingsInv, FindingsOK
<1>7. /\ step'[t] \in {"idle", "next", "ask"}
      /\ step'[t] = "ask" => /\ step[t] = "construct" /\ keys[t] = {}
                             /\ finds[t] = "new" /\ read'[t] = read[t]
  BY <1>1, <1>4 DEF FindingsInv, FindingsOK
<1>8. Making(t)'
  <2>1. CASE step'[t] = "ask"
    <3>1. t \notin crossed /\ current[t] \notin mixed => Alike(read[t])
      BY <1>7, <2>1, KeptIsOfOne DEF D!Disturbed
    <3>2. QED
      BY <1>1, <1>7, <2>1, <3>1 DEF Making, Alike
  <2>2. CASE step'[t] # "ask"
    BY <1>7, <2>2 DEF Making
  <2>3. QED
    BY <2>1, <2>2
<1>9. OfOne(t)'
  <2>1. \A r \in found'[t] :
          r \in found[t] \/ r = [name |-> current[t], of |-> read[t], crossed |-> D!Disturbed(t)]
    BY <1>3 DEF FindingsInv, FindingsOK
  <2>2. OfOne(t)
    BY DEF FindingsInv
  <2>3. ASSUME NEW r \in found'[t], ~r.crossed
        PROVE  /\ finds[t] = "resources" => \A k \in D!Required : r.of[k] = t
               /\ Alike(r.of)
    <3>1. CASE r \in found[t]
      BY <2>2, <2>3, <3>1 DEF OfOne
    <3>2. CASE r = [name |-> current[t], of |-> read[t], crossed |-> D!Disturbed(t)]
      <4>1. ~D!Disturbed(t) /\ r.of = read[t]
        BY <2>3, <3>2
      <4>2. QED
        BY <1>1, <4>1, KeptIsOfOne
    <3>3. QED
      BY <2>1, <2>3, <3>1, <3>2
  <2>4. QED
    BY <1>1, <2>3 DEF OfOne, Alike
<1>10. QED
  BY <1>1, <1>5, <1>6, <1>7, <1>8, <1>9, QuietStep

LEMMA FindingsStep ==
  ASSUME FindingsInv, D!DiscoveryNext \/ UNCHANGED discoveryVars
  PROVE  FindingsInv'
<1>1. CASE UNCHANGED discoveryVars
  <2>1. UNCHANGED <<env, finds, step, todo, current, keys, read, found, crossed, mixed>>
    BY <1>1 DEF discoveryVars
  <2>2. FindingsOK'
    BY <2>1 DEF FindingsInv, FindingsOK
  <2>3. \A b \in Backends : Unmixed(b)'
    BY <2>1, SameWriters
  <2>4. \A t \in Threads : Making(t)' /\ OfOne(t)'
    BY <2>1, OtherThread
  <2>5. QED
    BY <2>2, <2>3, <2>4 DEF FindingsInv
<1>2. QED
  BY <1>1, CallStep, TakeStep, InjectStep, ConstructStep, MadeStep DEF D!DiscoveryNext

(***************************************************************************)
(* A backend of Qiskit that threads share.                                 *)
(***************************************************************************)

Busy(t) == refreshing[t] # H!Idle

\* What a refresh has brought is of one answer, and none older than the refresh.
Brings(t) ==
  LET r == refreshing[t]
      c == cached.configuration.of
      p == cached.properties.of
  IN Busy(t) =>
       /\ r \in H!Call
       /\ r.since <= calibrated
       /\ r.next # "target" =>
            /\ r.brought \in fetched
            /\ r.since <= r.brought[1] /\ r.since <= r.brought[2]
       /\ ~overlapped =>
            /\ fresh <= r.since
            /\ r.next = "properties" /\ r.does = "refresh" => c = r.brought[1]
            /\ r.next = "convert" => c = r.brought[1] /\ p = r.brought[2]

\* Unless they have overlapped, one thread refreshes at a time.
Alone ==
  ~overlapped => \A t, u \in Threads : Busy(t) /\ Busy(u) => t = u

BackendOK ==
  /\ calibrated \in H!Calibrations /\ fresh \in H!Calibrations /\ fresh <= calibrated
  /\ fractional \in BOOLEAN /\ overlapped \in BOOLEAN
  /\ cached \in [configuration : H!Part, properties : H!Part, target : H!Target]
  /\ refreshing \in [Threads -> H!Call \cup {H!Idle}]

BackendInv ==
  /\ BackendOK
  /\ Alone
  /\ \A t \in Threads : Brings(t)
  /\ H!TargetOfOneAnswer
  /\ H!GatesFit
  /\ ~apart => cached.target.properties = cached.properties

\* A refresh is not over, and the backend and its device are as they were.
LEMMA OtherRefreshes ==
  ASSUME BackendInv, NEW t \in Threads, NEW u \in Threads \ {t},
         refreshing'[u] = refreshing[u], calibrated <= calibrated', calibrated' \in Nat,
         fetched \subseteq fetched',
         ~overlapped' => ~overlapped /\ ~Busy(u)
  PROVE  Brings(u)'
BY DEF BackendInv, BackendOK, Brings, Busy, H!Call, H!Calibrations

\* The device is calibrated again, the option is set, or a refresh fails.
LEMMA AsideStep ==
  ASSUME BackendInv,
         \/ H!Recalibrated \/ H!set_options
         \/ \E t \in Threads : H!Raises(t)
  PROVE  BackendInv'
<1> USE DEF H!Calibrations
<1>1. CASE H!Recalibrated
  <2>1. /\ calibrated' = calibrated + 1 /\ calibrated + 1 \in H!Calibrations
        /\ UNCHANGED <<faultyIn, fractional, cached, refreshing, fetched, fresh,
                       overlapped, regated, apart>>
    BY <1>1 DEF H!Recalibrated
  <2>2. \A t \in Threads : Brings(t)'
    BY <2>1 DEF BackendInv, BackendOK, Brings, Busy, H!Call
  <2>3. BackendOK' /\ Alone'
    BY <2>1 DEF BackendInv, BackendOK, Alone, Busy
  <2>4. QED
    BY <2>1, <2>2, <2>3
       DEF BackendInv, H!TargetOfOneAnswer, H!GatesFit, H!get_translation_stage_plugin
<1>2. CASE H!set_options
  <2>1. /\ fractional' = TRUE /\ regated' = TRUE
        /\ UNCHANGED <<calibrated, faultyIn, cached, refreshing, fetched, fresh,
                       overlapped, apart>>
    BY <1>2 DEF H!set_options
  <2>2. \A t \in Threads : Brings(t)'
    BY <2>1 DEF BackendInv, Brings, Busy
  <2>3. BackendOK' /\ Alone'
    BY <2>1 DEF BackendInv, BackendOK, Alone, Busy
  <2>4. QED
    BY <2>1, <2>2, <2>3 DEF BackendInv, H!TargetOfOneAnswer, H!GatesFit
<1>3. ASSUME NEW t \in Threads, H!Raises(t)
      PROVE  BackendInv'
  <2>1. /\ refreshing' = [refreshing EXCEPT ![t] = H!Idle]
        /\ UNCHANGED <<calibrated, faultyIn, fractional, cached, fetched, fresh,
                       overlapped, regated, apart>>
    BY <1>3 DEF H!Raises
  <2>2. /\ ~Busy(t)'
        /\ \A u \in Threads \ {t} : refreshing'[u] = refreshing[u]
    BY <2>1 DEF Busy, BackendInv, BackendOK
  <2>3. \A u \in Threads : Brings(u)'
    BY <2>1, <2>2 DEF BackendInv, Brings, Busy
  <2>4. BackendOK' /\ Alone'
    BY <2>1, <2>2 DEF BackendInv, BackendOK, Alone, Busy
  <2>5. QED
    BY <2>1, <2>3, <2>4
       DEF BackendInv, H!TargetOfOneAnswer, H!GatesFit, H!get_translation_stage_plugin
<1>4. QED
  BY <1>1, <1>2, <1>3

LEMMA BeginsStep ==
  ASSUME BackendInv, NEW t \in Threads, H!Begins(t)
  PROVE  BackendInv'
<1>1. PICK d \in {"refresh", "properties"} :
        refreshing' = [refreshing EXCEPT ![t] =
          [does |-> d, next |-> "target", since |-> calibrated, brought |-> <<0, 0>>]]
  BY DEF H!Begins
<1>2. /\ ~Busy(t)
      /\ overlapped' = (overlapped \/ \E u \in Threads \ {t} : Busy(u))
      /\ UNCHANGED <<calibrated, faultyIn, fractional, cached, fetched, fresh,
                     regated, apart>>
  BY DEF H!Begins, Busy
<1>3. [does |-> d, next |-> "target", since |-> calibrated, brought |-> <<0, 0>>] \in H!Call
  BY DEF BackendInv, BackendOK, H!Call, H!Calibrations
<1>4. BackendOK'
  BY <1>1, <1>2, <1>3 DEF BackendInv, BackendOK
<1>5. /\ refreshing'[t] =
           [does |-> d, next |-> "target", since |-> calibrated, brought |-> <<0, 0>>]
      /\ \A u \in Threads \ {t} : refreshing'[u] = refreshing[u]
  BY <1>1 DEF BackendInv, BackendOK
<1>6. Brings(t)'
  BY <1>2, <1>3, <1>5 DEF BackendInv, BackendOK, Brings, H!Calibrations
<1>7. ASSUME NEW u \in Threads \ {t} PROVE Brings(u)'
  <2>1. ~overlapped' => ~overlapped /\ ~Busy(u)
    BY <1>2
  <2>2. calibrated <= calibrated' /\ calibrated' \in Nat /\ fetched \subseteq fetched'
    BY <1>2 DEF BackendInv, BackendOK, H!Calibrations
  <2>3. refreshing'[u] = refreshing[u]
    BY <1>5
  <2>4. QED
    BY <2>1, <2>2, <2>3, OtherRefreshes
<1>8. Alone'
  BY <1>2, <1>5 DEF Alone, Busy
<1>9. QED
  BY <1>2, <1>4, <1>6, <1>7, <1>8
     DEF BackendInv, H!TargetOfOneAnswer, H!GatesFit, H!get_translation_stage_plugin

\* The answer has come.
LEMMA FetchesStep ==
  ASSUME BackendInv, NEW t \in Threads, H!Fetches(t)
  PROVE  BackendInv'
<1> DEFINE r == refreshing[t]
<1>1. Busy(t) /\ r.next = "target" /\ r \in H!Call
      /\ UNCHANGED <<calibrated, faultyIn, fractional, cached, fresh, overlapped, regated, apart>>
  BY DEF H!Fetches, Busy, BackendInv, Brings
<1>2. PICK c \in r.since..calibrated, p \in r.since..calibrated :
        /\ refreshing' = [refreshing EXCEPT
             ![t].brought = <<c, p>>,
             ![t].next = IF @ = "target" /\ r.does = "properties"
                         THEN "properties" ELSE "configuration"]
        /\ fetched' = fetched \cup {<<c, p>>}
  BY DEF H!Fetches
<1>3. /\ c \in H!Calibrations /\ p \in H!Calibrations
      /\ r.since <= c /\ r.since <= p
  BY <1>1 DEF BackendInv, BackendOK, H!Call, H!Calibrations
<1>4. PICK n \in {"properties", "configuration"} :
        /\ refreshing'[t] = [r EXCEPT !.brought = <<c, p>>, !.next = n]
        /\ n = "properties" => r.does = "properties"
        /\ refreshing' = [refreshing EXCEPT ![t] = [r EXCEPT !.brought = <<c, p>>, !.next = n]]
  BY <1>1, <1>2 DEF BackendInv, BackendOK, H!Call
<1>5. [r EXCEPT !.brought = <<c, p>>, !.next = n] \in H!Call
  BY <1>1, <1>3 DEF H!Call
<1>6. BackendOK'
  BY <1>1, <1>4, <1>5 DEF BackendInv, BackendOK
<1>7. /\ refreshing'[t].since = r.since /\ refreshing'[t].does = r.does
      /\ refreshing'[t].next = n /\ refreshing'[t].brought = <<c, p>>
  BY <1>1, <1>4 DEF H!Call
<1>8. Brings(t)'
  <2>1. refreshing'[t] \in H!Call
    BY <1>4, <1>5
  <2>2. r.since <= calibrated /\ (~overlapped => fresh <= r.since)
    BY <1>1 DEF BackendInv, Brings
  <2>3. <<c, p>>[1] = c /\ <<c, p>>[2] = p /\ <<c, p>> \in fetched'
    BY <1>2
  <2>4. n = "configuration" \/ (n = "properties" /\ r.does = "properties")
    BY <1>4
  <2>5. QED
    BY <1>1, <1>3, <1>7, <2>1, <2>2, <2>3, <2>4 DEF Brings
<1>9. \A u \in Threads \ {t} : refreshing'[u] = refreshing[u]
  BY <1>4 DEF BackendInv, BackendOK
<1>10. ASSUME NEW u \in Threads \ {t} PROVE Brings(u)'
  BY <1>1, <1>2, <1>9, OtherRefreshes DEF BackendInv, BackendOK, Alone, H!Calibrations
<1>11. Alone'
  BY <1>1, <1>9 DEF BackendInv, Alone, Busy
<1>12. H!TargetOfOneAnswer'
  BY <1>1, <1>2 DEF BackendInv, H!TargetOfOneAnswer
<1>13. QED
  BY <1>1, <1>6, <1>8, <1>10, <1>11, <1>12
     DEF BackendInv, H!GatesFit, H!get_translation_stage_plugin

\* A part is kept: only the refresh whose part it is knows of it.
LEMMA KeepsPart ==
  ASSUME BackendInv, NEW t \in Threads,
         H!KeepsConfiguration(t) \/ H!KeepsProperties(t)
  PROVE  BackendInv'
<1> DEFINE r == refreshing[t]
<1>1. /\ Busy(t) /\ Brings(t) /\ r \in H!Call
      /\ UNCHANGED <<calibrated, faultyIn, fractional, fetched, fresh, overlapped, regated>>
  BY DEF H!KeepsConfiguration, H!KeepsProperties, Busy, BackendInv, Brings
<1>2. /\ r.brought[1] \in H!Calibrations /\ r.brought[2] \in H!Calibrations
      /\ cached \in [configuration : H!Part, properties : H!Part, target : H!Target]
      /\ fractional \in BOOLEAN
  BY <1>1 DEF H!Call, BackendInv, BackendOK
<1>3. /\ cached' \in [configuration : H!Part, properties : H!Part, target : H!Target]
      /\ cached'.target = cached.target
      /\ r.next = "configuration" =>
           /\ cached'.configuration.of = r.brought[1]
           /\ cached'.properties = cached.properties
           /\ apart' = apart
           /\ refreshing' = [refreshing EXCEPT ![t] = [r EXCEPT !.next = "properties"]]
      /\ r.next = "properties" =>
           /\ cached'.configuration = cached.configuration
           /\ cached'.properties.of = r.brought[2]
           /\ apart'
           /\ \/ r.does = "properties" /\ refreshing' = [refreshing EXCEPT ![t] = H!Idle]
              \/ r.does = "refresh"
                 /\ refreshing' = [refreshing EXCEPT ![t] = [r EXCEPT !.next = "convert"]]
      /\ r.next \in {"configuration", "properties"}
  <2>1. CASE H!KeepsConfiguration(t)
    BY <1>1, <1>2, <2>1 DEF H!KeepsConfiguration, H!Goes, H!Part, H!Call
  <2>2. CASE H!KeepsProperties(t)
    BY <1>1, <1>2, <2>2 DEF H!KeepsProperties, H!Goes, H!Part, H!Call
  <2>3. QED
    BY <2>1, <2>2
<1>4. \E q \in {"properties", "convert"} :
         LET s == [r EXCEPT !.next = q] IN
         s \in H!Call /\ s.since = r.since /\ s.does = r.does /\ s.brought = r.brought
  BY <1>1 DEF H!Call
<1>5. BackendOK'
  <2>1. \A q \in {"properties", "convert"} : [r EXCEPT !.next = q] \in H!Call
    BY <1>1 DEF H!Call
  <2>2. refreshing' \in [Threads -> H!Call \cup {H!Idle}]
    BY <1>3, <2>1 DEF BackendInv, BackendOK
  <2>3. QED
    BY <1>1, <1>3, <2>2 DEF BackendInv, BackendOK
<1>6. \A u \in Threads \ {t} : refreshing'[u] = refreshing[u]
  BY <1>3 DEF BackendInv, BackendOK
<1>7. Brings(t)'
  <2>1. CASE r.next = "configuration"
    <3>1. refreshing'[t] = [r EXCEPT !.next = "properties"]
      BY <1>3, <2>1 DEF BackendInv, BackendOK
    <3>2. /\ refreshing'[t] \in H!Call /\ refreshing'[t].next = "properties"
          /\ refreshing'[t].since = r.since /\ refreshing'[t].does = r.does
          /\ refreshing'[t].brought = r.brought
      BY <1>1, <3>1 DEF H!Call
    <3>3. QED
      BY <1>1, <1>3, <2>1, <3>2 DEF Brings
  <2>2. CASE r.next = "properties" /\ r.does = "refresh"
    <3>1. refreshing'[t] = [r EXCEPT !.next = "convert"]
      BY <1>3, <2>2 DEF BackendInv, BackendOK
    <3>2. /\ refreshing'[t] \in H!Call /\ refreshing'[t].next = "convert"
          /\ refreshing'[t].since = r.since /\ refreshing'[t].brought = r.brought
      BY <1>1, <3>1 DEF H!Call
    <3>3. QED
      BY <1>1, <1>3, <2>2, <3>2 DEF Brings
  <2>3. CASE r.next = "properties" /\ r.does = "properties"
    BY <1>3, <2>3 DEF BackendInv, BackendOK, Brings, Busy
  <2>4. QED
    BY <1>1, <1>3, <2>1, <2>2, <2>3 DEF H!Call
<1>8. ASSUME NEW u \in Threads \ {t} PROVE Brings(u)'
  BY <1>1, <1>6, OtherRefreshes DEF BackendInv, BackendOK, Alone, H!Calibrations
<1>9. Alone'
  BY <1>1, <1>6 DEF BackendInv, Alone, Busy
<1>10. H!TargetOfOneAnswer' /\ H!GatesFit'
  BY <1>1, <1>3
     DEF BackendInv, H!TargetOfOneAnswer, H!GatesFit, H!get_translation_stage_plugin
<1>11. ~apart' => cached'.target.properties = cached'.properties
  BY <1>3 DEF BackendInv
<1>12. QED
  BY <1>5, <1>7, <1>8, <1>9, <1>10, <1>11 DEF BackendInv

\* The target is made of the two parts.
LEMMA KeepsTargetStep ==
  ASSUME BackendInv, NEW t \in Threads, H!KeepsTarget(t)
  PROVE  BackendInv'
<1> DEFINE r == refreshing[t]
<1>1. /\ Busy(t) /\ Brings(t) /\ r \in H!Call /\ r.next = "convert"
      /\ refreshing' = [refreshing EXCEPT ![t] = H!Idle]
      /\ fresh' = IF r.since > fresh THEN r.since ELSE fresh
      /\ UNCHANGED <<calibrated, faultyIn, fractional, fetched, overlapped>>
  BY DEF H!KeepsTarget, Busy, BackendInv, Brings
<1>2. /\ cached' = [cached EXCEPT !.target = H!Converted]
      /\ regated' = (\/ H!Converted.configuration.fractional # fractional
                     \/ H!Converted.properties.fractional # fractional)
  BY DEF H!KeepsTarget
<1>3. /\ cached' \in [configuration : H!Part, properties : H!Part, target : H!Target]
      /\ cached'.target.configuration = cached.configuration
      /\ cached'.target.properties = cached.properties
      /\ cached'.properties = cached.properties
      /\ cached'.configuration = cached.configuration
  BY <1>2 DEF BackendInv, BackendOK, H!Converted, H!Target
<1>4. /\ ~Busy(t)'
      /\ \A u \in Threads \ {t} : refreshing'[u] = refreshing[u]
  BY <1>1 DEF BackendInv, BackendOK, Busy
<1>5. BackendOK'
  BY <1>1, <1>3 DEF BackendInv, BackendOK, Brings, H!Call, H!Calibrations
<1>6. ASSUME NEW u \in Threads \ {t} PROVE Brings(u)'
  BY <1>1, <1>4, OtherRefreshes DEF BackendInv, BackendOK, Alone, H!Calibrations
<1>7. Alone'
  BY <1>1, <1>4 DEF BackendInv, Alone, Busy
<1>8. H!TargetOfOneAnswer'
  <2> SUFFICES ASSUME ~overlapped
               PROVE  /\ <<cached.configuration.of, cached.properties.of>> \in fetched
                      /\ cached.configuration.of >= fresh' /\ cached.properties.of >= fresh'
    BY <1>1, <1>3 DEF H!TargetOfOneAnswer
  <2>1. /\ cached.configuration.of = r.brought[1] /\ cached.properties.of = r.brought[2]
        /\ r.brought \in fetched /\ r.since <= r.brought[1] /\ r.since <= r.brought[2]
        /\ fresh <= r.since /\ r.brought \in H!Calibrations \X H!Calibrations
        /\ r.since \in H!Calibrations /\ fresh \in H!Calibrations
    BY <1>1 DEF Brings, H!Call, BackendInv, BackendOK
  <2>2. r.brought = <<r.brought[1], r.brought[2]>>
    BY <2>1
  <2>3. fresh' = r.since
    BY <1>1, <2>1 DEF H!Calibrations
  <2>4. QED
    BY <2>1, <2>2, <2>3 DEF H!Calibrations
<1>9. H!GatesFit'
  BY <1>1, <1>2, <1>3 DEF H!GatesFit, H!get_translation_stage_plugin, H!Converted, H!Part,
                         BackendInv, BackendOK
<1>10. QED
  BY <1>3, <1>4, <1>5, <1>6, <1>7, <1>8, <1>9 DEF BackendInv, Brings, Busy

LEMMA BackendStep ==
  ASSUME BackendInv, H!BackendNext \/ UNCHANGED backendVars
  PROVE  BackendInv'
<1>1. CASE UNCHANGED backendVars
  BY <1>1 DEF backendVars, BackendInv, BackendOK, Alone, Brings, Busy, H!TargetOfOneAnswer,
              H!GatesFit, H!get_translation_stage_plugin
<1>2. QED
  BY <1>1, AsideStep, BeginsStep, FetchesStep, KeepsPart, KeepsTargetStep DEF H!BackendNext

LEMMA BackendBegins == ASSUME Init PROVE BackendInv
<1>1. H!BackendInit(client = "backend")
  BY DEF Init
<1>2. /\ calibrated = 0 /\ fresh = 0 /\ fractional = FALSE /\ cached = H!QRMIBackend
      /\ refreshing = [t \in Threads |-> H!Idle]
      /\ fetched = {<<0, 0>>} /\ overlapped = FALSE /\ regated = FALSE /\ apart = FALSE
  BY <1>1 DEF H!BackendInit
<1>3. BackendOK
  <2>1. H!First \in H!Part
    BY DEF H!First, H!Part, H!Calibrations
  <2>2. cached \in [configuration : H!Part, properties : H!Part, target : H!Target]
    BY <1>2, <2>1 DEF H!QRMIBackend, H!Target
  <2>3. refreshing \in [Threads -> H!Call \cup {H!Idle}]
    BY <1>2
  <2>4. fractional \in BOOLEAN /\ overlapped \in BOOLEAN
    BY <1>2
  <2>5. calibrated \in H!Calibrations /\ fresh \in H!Calibrations /\ fresh <= calibrated
    BY <1>2 DEF H!Calibrations
  <2>6. QED
    BY <2>2, <2>3, <2>4, <2>5 DEF BackendOK
<1>4. \A t \in Threads : ~Busy(t)
  BY <1>2 DEF Busy
<1>5. H!TargetOfOneAnswer /\ H!GatesFit /\ cached.target.properties = cached.properties
  <2>1. /\ cached.target.configuration = H!First /\ cached.target.properties = H!First
        /\ cached.properties = H!First
        /\ H!First.of = 0 /\ H!First.fractional = FALSE
    BY <1>2 DEF H!QRMIBackend, H!First
  <2>2. H!TargetOfOneAnswer
    BY <1>2, <2>1 DEF H!TargetOfOneAnswer
  <2>3. H!GatesFit
    BY <1>2, <2>1 DEF H!GatesFit, H!get_translation_stage_plugin
  <2>4. QED
    BY <2>1, <2>2, <2>3
<1>6. QED
  BY <1>3, <1>4, <1>5 DEF BackendInv, Alone, Brings

(***************************************************************************)
(* The clients together.                                                   *)
(***************************************************************************)

ClientsInv ==
  RunnersInv /\ JobsInv /\ BatchesInv /\ RequestInv /\ AppsInv /\ FindingsInv /\ BackendInv

LEMMA InitInv == Init => ClientsInv
<1> SUFFICES ASSUME Init PROVE ClientsInv
  OBVIOUS
<1>1. RunnersInv
  BY DEF Init, C!Init, C!RunnerInit, RunnersInv, Asked, Settled
<1>2. JobsInv
  BY DEF Init, J!JobInit, JobsInv, C!Verdict
<1>3. BatchesInv
  BY DEF Init, B!PulserInit, BatchesInv, BatchTypeOK, Walking, Said, Walks
<1>4. RequestInv
  BY DEF Init, M!RequestInit, RequestInv, M!RequestTypeOK, Exchange, Definite, M!Server, M!Reply,
     M!Code, M!Doubt
<1>5. AppsInv
  BY DEF Init, R!AppInit, AppsInv, Programs, R!PrintedIsTrue, R!JobStatus, Early
<1>6. FindingsInv
  <2>1. /\ env \in [Backends -> {D!Nothing, [k \in D!Keys |-> "job"]}]
        /\ finds = [t \in Threads |-> "resources"]
        /\ step = [t \in Threads |-> "idle"]
        /\ todo = [t \in Threads |-> {}]
        /\ current \in [Threads -> Backends]
        /\ keys = [t \in Threads |-> {}]
        /\ read = [t \in Threads |-> D!Nothing]
        /\ found = [t \in Threads |-> {}]
    BY DEF Init, D!DiscoveryInit
  <2>2. {D!Nothing, [k \in D!Keys |-> "job"]} \subseteq D!Settings
    BY DEF D!Nothing, D!Settings, D!Source
  <2>3. FindingsOK
    BY <2>1, <2>2 DEF FindingsOK
  <2>4. D!Required \subseteq D!Keys
    BY DEF D!Keys
  <2>5. \A b \in Backends : Alike(env[b])
    BY <2>1, <2>4 DEF Alike, D!Nothing
  <2>6. \A b \in Backends : Unmixed(b)
    BY <2>1, <2>5 DEF Unmixed, Writes
  <2>7. \A t \in Threads : Making(t) /\ OfOne(t)
    BY <2>1 DEF Making, OfOne
  <2>8. QED
    BY <2>3, <2>6, <2>7 DEF FindingsInv
<1>7. QED
  BY <1>1, <1>2, <1>3, <1>4, <1>5, <1>6, BackendBegins DEF ClientsInv

LEMMA StepInv == ClientsInv /\ [Next]_vars => ClientsInv'
  BY OneClient, RunnersStep, JobsStep, BatchesStep, RequestStep, AppsStep, FindingsStep,
     BackendStep DEF ClientsInv

LEMMA InvAlways == Spec => []ClientsInv
  BY InitInv, StepInv, PTL DEF Spec

-----------------------------------------------------------------------------
(* What is shown. *)

(* An error of Maestro's request API that is neither of the transport nor   *)
(* of the protocol means that no task was created, and an accepted          *)
(* submission created one, for any number of clones that share the flag and *)
(* while the server is replaced (maestro/request.rs submit_request).        *)
THEOREM RefusalIsDefiniteAlways == Spec => []RefusalIsDefinite
<1>1. ClientsInv => RefusalIsDefinite
  BY DEF ClientsInv, RequestInv, Definite, RefusalIsDefinite, M!RefusalIsDefinite
<1>2. QED
  BY <1>1, InvAlways, PTL

(* A run of either task runner over a resource whose calls do not fail      *)
(* leaves no active task of its own behind, a cancelled batch of Pulser of  *)
(* any width has only the tasks whose cancellation failed, and a program of *)
(* the Quantum System client leaves its job only when a request of its      *)
(* failed or another program was in its way (src/bin/task_runner.rs,        *)
(* tools/task_runner/main.py, pulser/connection.py, app/).                  *)
THEOREM NoTaskLeftBehindAlways == Spec => []NoTaskLeftBehind
<1>1. RunnersInv => (~lost => C!NoTaskLeftBehind)
  BY DEF RunnersInv, Settled, C!NoTaskLeftBehind
<1>2. AppsInv => R!JobNotLeft
  BY DEF AppsInv, Programs, R!JobNotLeft
<1>3. ClientsInv => NoTaskLeftBehind
  BY <1>1, <1>2, BatchesSay DEF ClientsInv, NoTaskLeftBehind
<1>4. QED
  BY <1>3, InvAlways, PTL

\* What the clients say of tasks: the part of ToldIsTrue that is about them.
TasksToldAsTheyAre ==
  /\ C!SuccessIsDelivery
  /\ J!FinalStaysFinal
  /\ B!BatchTruthful
  /\ R!PrintedIsTrue

(* A task runner that succeeds has delivered the result of a task that      *)
(* completed, a job of a Qiskit primitive tells one final status, which is  *)
(* how its task ended, a batch of Pulser of any width that is said to have  *)
(* ended has, although its tasks are asked for one by one, and what the     *)
(* programs of the Quantum System client print of their job was so          *)
(* (src/bin/task_runner.rs, primitives/, pulser/connection.py, app/).       *)
THEOREM TasksToldAlways == Spec => []TasksToldAsTheyAre
<1>1. RunnersInv => C!SuccessIsDelivery
  BY DEF RunnersInv, Settled, C!SuccessIsDelivery
<1>2. JobsInv => J!FinalStaysFinal
  BY DEF JobsInv, J!FinalStaysFinal, J!Class
<1>3. ClientsInv => TasksToldAsTheyAre
  BY <1>1, <1>2, BatchesSay DEF ClientsInv, AppsInv, TasksToldAsTheyAre
<1>4. QED
  BY <1>3, InvAlways, PTL

(* A resource that a provider returns is of its own service, and one of     *)
(* QRMIService is of one service, for any number of threads that discover   *)
(* any backends at the same time, unless another provider wrote into the    *)
(* backend's variables meanwhile, which the environment that they share     *)
(* does not prevent (src/service.rs, ibm/quantum_system_provider/mod.rs).   *)
THEOREM FoundOfOneServiceAlways == Spec => []D!ResourceOfOneService
<1>1. FindingsInv => D!ResourceOfOneService
  BY DEF FindingsInv, OfOne, Alike, D!ResourceOfOneService
<1>2. ClientsInv => FindingsInv
  BY DEF ClientsInv
<1>3. QED
  BY <1>1, <1>2, InvAlways, PTL

(* What a backend of Qiskit makes its target of is one answer of the        *)
(* resource, no older than the last refresh, and fits its option and its    *)
(* check of circuits, for any number of threads that share the backend,     *)
(* unless two of them refresh at a time, the option was set since, or the   *)
(* properties were taken apart from the target (primitives/ibm/backend.py). *)
THEOREM BackendAgreesAlways == Spec => []H!BackendAgrees
<1>1. BackendInv => H!ChecksItsTarget
  BY DEF BackendInv, H!ChecksItsTarget, H!check_faulty
<1>2. ClientsInv => H!BackendAgrees
  BY <1>1 DEF ClientsInv, BackendInv, H!BackendAgrees
<1>3. QED
  BY <1>2, InvAlways, PTL
=============================================================================

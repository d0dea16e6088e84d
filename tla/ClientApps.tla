----------------------------- MODULE ClientApps -----------------------------
(***************************************************************************)
(* The programs under app/ of quantum_system_client, which run a job with  *)
(* the functions of the library that no resource uses.  One of run_job and *)
(* run_primitive runs a job; while it runs cancel_job may be started for   *)
(* the same job, or utility for the same bucket.                           *)
(***************************************************************************)
EXTENDS Naturals, Sequences, FiniteSets, SequencesExt

VARIABLES
  app,        \* the program: run_job or run_primitive
  next,       \* what it does next
  state,      \* the job, on the service
  bucket,     \* the keys of the objects in the bucket
  polled,     \* has the program asked for the job while it waited?
  printed,      \* what it has printed
  trouble,    \* history: a request of its failed
  completed,  \* history: the job has completed
  raced,      \* history: another cancelled the job, or it had ended when cancelled
  canceller,  \* what cancel_job does next
  lister,     \* what utility does next
  after,      \* the last key of the page that it got last, or 0
  names,      \* the keys that it got
  stayed      \* history: the keys in the bucket since it began to list them

appVars == <<app, next, state, bucket, polled, printed, trouble, completed, raced,
             canceller, lister, after, names, stayed>>

\* The keys as they are ordered: an object of another user, that of utility, and those
\* of the job.
Keys == 1..5
OthersKey == 1
TextKey == 2
InputKey == 3
LogsKey == 4
ResultsKey == 5

\* Bound: a page of the listing is of two keys.
PageSize == 2

JobStatus == {"Running", "Completed", "Failed", "Cancelled"}
Final == JobStatus \ {"Running"}

AppTypeOK ==
  /\ app \in {"run_job", "run_primitive"}
  /\ next \in {"put", "sign input", "sign results", "sign logs", "submit", "wait",
             "cancel", "ask result", "get result", "ask logs", "get logs", "delete",
             "results", "logs", "ok", "error"}
  /\ state \in JobStatus \cup {"absent"}
  /\ bucket \subseteq Keys /\ stayed \subseteq bucket
  /\ {polled, trouble, completed, raced} \subseteq BOOLEAN
  /\ printed \subseteq {"job", "cancelled", "deleted", "result", "logs"}
  /\ canceller \in {"cancel", "cancel and delete", "delete", "done"}
  /\ lister \in {"put", "list", "ask", "delete", "done"}
  /\ after \in Keys \cup {0} /\ names \in Seq(Keys)

AppInit(used) ==
  /\ app \in IF used THEN {"run_job", "run_primitive"} ELSE {"run_job"}
  /\ next = "put" /\ state = "absent" /\ bucket = IF used THEN {OthersKey} ELSE {}
  /\ polled = FALSE /\ printed = {}
  /\ trouble = FALSE /\ completed = FALSE /\ raced = FALSE
  /\ canceller \in IF used THEN {"cancel", "cancel and delete", "done"} ELSE {"done"}
  /\ lister \in IF used /\ canceller = "done" THEN {"put", "done"} ELSE {"done"}
  /\ after = 0 /\ names = << >> /\ stayed = {}

-----------------------------------------------------------------------------
(* The service, and what happens to its job and to the bucket. *)

Store(keys) == bucket' = bucket \cup keys /\ UNCHANGED stayed
Drop(keys) == bucket' = bucket \ keys /\ stayed' = stayed \ keys

\* The service stores the results before the job is completed: it may be cancelled in
\* between.  Of a job that fails there may be no logs.
ServiceWorks ==
  /\ state = "Running"
  /\ \/ Store({ResultsKey}) /\ UNCHANGED <<state, completed>>
     \/ /\ ResultsKey \in bucket
        /\ state' = "Completed" /\ completed' = TRUE
        /\ Store({LogsKey})
     \/ state' = "Failed" /\ UNCHANGED completed
        /\ \E keys \in SUBSET {LogsKey} : Store(keys)
  /\ UNCHANGED <<app, next, polled, printed, trouble, raced, canceller>>
  /\ UNCHANGED <<lister, after, names>>

\* What an accepted request does.
Cancelled == state = "Running" /\ state' = "Cancelled"
Deleted == state \in Final /\ state' = "absent"

-----------------------------------------------------------------------------
(* The library, as the programs call it. *)

\* The program goes on there; or a request failed, and the program goes on elsewhere.
Goto(there) == next' = there /\ UNCHANGED trouble
Trouble(there) == next' = there /\ trouble' = TRUE
Show(what) == printed' = printed \cup {what}

\* The steps of the main functions.
run_job ==
  [wait |-> "delete", delete |-> "results"]
run_primitive ==
  [wait |-> "ask result", delete |-> "ok"]
Then(what) == IF app = "run_job" THEN run_job[what] ELSE run_primitive[what]

put_object ==
  /\ next = "put"
  /\ \/ Goto("sign input") /\ Store({InputKey})
     \/ Trouble("error") /\ UNCHANGED <<bucket, stayed>>
  /\ UNCHANGED <<state, polled, printed, completed, raced>>

\* The three URLs: each may not be made.
get_presigned_url_for_get == next = "sign input" /\ Goto("sign results")
get_presigned_url_for_put ==
  \/ next = "sign results" /\ Goto("sign logs")
  \/ next = "sign logs" /\ Goto("submit")
Sign ==
  /\ next \in {"sign input", "sign results", "sign logs"}
  /\ \/ get_presigned_url_for_get
     \/ get_presigned_url_for_put
     \/ Trouble("error")
  /\ UNCHANGED <<state, bucket, stayed, polled, printed, completed, raced>>

\* An answer may be lost, here and below.
submit ==
  /\ next = "submit"
  /\ \/ Goto("wait") /\ state' = "Running"
     \/ Trouble("error") /\ state' \in {state, "Running"}
  /\ UNCHANGED <<bucket, stayed, polled, printed, completed, raced>>

\* The time is looked at before each request, and has not passed before the first.
\* Whatever is wrong, the program cancels the job.
wait_for_job_final_state ==
  /\ next = "wait"
  /\ polled' = TRUE
  /\ \/ polled /\ Goto("cancel") /\ UNCHANGED printed
     \/ state = "Running" /\ Goto("wait") /\ UNCHANGED printed
     \/ state \in Final /\ Goto(Then("wait")) /\ Show("job")
     \/ state = "absent" /\ Goto("cancel") /\ UNCHANGED printed
     \/ Trouble("cancel") /\ UNCHANGED printed
  /\ UNCHANGED <<state, bucket, stayed, completed, raced>>

cancel_job ==
  /\ next = "cancel"
  /\ \/ Cancelled /\ Goto(Then("wait")) /\ Show("cancelled") /\ UNCHANGED raced
     \/ /\ state # "Running"
        /\ Goto("error") /\ raced' = TRUE
        /\ UNCHANGED <<state, printed>>
     \/ /\ Trouble("error")
        /\ Cancelled \/ UNCHANGED state
        /\ UNCHANGED <<printed, raced>>
  /\ UNCHANGED <<bucket, stayed, polled, completed>>

\* MUTANT of get_result: the results are fetched whatever the status is.
FetchedAtOnce ==
  /\ next = "ask result"
  /\ Goto("get result")
  /\ UNCHANGED <<state, bucket, stayed, polled, printed, completed, raced>>

\* A result that is not available is no error of run_primitive.
get_result ==
  /\ next = "ask result"
  /\ \/ state = "Completed" /\ Goto("get result")
     \/ state # "Completed" /\ Goto("ask logs")
     \/ Trouble("ask logs")
  /\ UNCHANGED <<state, bucket, stayed, polled, printed, completed, raced>>

get_logs ==
  /\ next = "ask logs"
  /\ \/ state \in Final /\ Goto("get logs")
     \/ state \notin Final /\ Goto("delete")
     \/ Trouble("delete")
  /\ UNCHANGED <<state, bucket, stayed, polled, printed, completed, raced>>

\* plain_client gets what the URL is for.
Download(from, key, what, onward) ==
  /\ next = from
  /\ \/ key \in bucket /\ Goto(onward) /\ Show(what)
     \/ key \notin bucket /\ Goto(onward) /\ UNCHANGED printed
     \/ Trouble(onward) /\ UNCHANGED printed
  /\ UNCHANGED <<state, bucket, stayed, polled, completed, raced>>

\* run_job ends without what is not there.
get_object(from, key, what, onward) ==
  /\ next = from
  /\ \/ key \in bucket /\ Goto(onward) /\ Show(what)
     \/ key \notin bucket /\ Goto("error") /\ UNCHANGED printed
     \/ Trouble("error") /\ UNCHANGED printed
  /\ UNCHANGED <<state, bucket, stayed, polled, completed, raced>>

\* MUTANT of delete_job: what the service refuses counts as done.
DeleteUnseen ==
  /\ next = "delete"
  /\ \/ Deleted /\ Goto(Then("delete"))
     \/ UNCHANGED state /\ Goto(Then("delete"))
  /\ Show("deleted")
  /\ UNCHANGED <<bucket, stayed, polled, completed, raced>>

delete_job ==
  /\ next = "delete"
  /\ \/ Deleted /\ Goto(Then("delete")) /\ Show("deleted")
     \/ state \notin Final /\ Goto("error") /\ UNCHANGED <<state, printed>>
     \/ Trouble("error") /\ (Deleted \/ UNCHANGED state) /\ UNCHANGED printed
  /\ UNCHANGED <<bucket, stayed, polled, completed, raced>>

Main ==
  /\ \/ put_object \/ Sign \/ submit \/ wait_for_job_final_state \/ cancel_job
     \/ get_result \/ Download("get result", ResultsKey, "result", "ask logs")
     \/ get_logs \/ Download("get logs", LogsKey, "logs", "delete")
     \/ delete_job
     \/ get_object("results", ResultsKey, "result", "logs")
     \/ get_object("logs", LogsKey, "logs", "ok")
  /\ UNCHANGED <<app, canceller, lister, after, names>>

-----------------------------------------------------------------------------
(* The programs that may be started meanwhile. *)

\* cancel_job: the job is deleted only after it was cancelled.
CancelJob ==
  /\ state # "absent"
  /\ \/ /\ canceller \in {"cancel", "cancel and delete"}
        /\ \/ /\ Cancelled
              /\ canceller' = IF canceller = "cancel" THEN "done" ELSE "delete"
           \/ canceller' = "done" /\ UNCHANGED state
     \/ canceller = "delete" /\ canceller' = "done" /\ (Deleted \/ UNCHANGED state)
  /\ raced' = TRUE
  /\ UNCHANGED <<app, next, bucket, stayed, polled, printed, trouble, completed>>
  /\ UNCHANGED <<lister, after, names>>

Ordered(keys) == SelectSeq(<<1, 2, 3, 4, 5>>, LAMBDA k : k \in keys)

\* MUTANT of NextPage: as many keys are left out as there were in the pages before.
PageByCount == SubSeq(Ordered(bucket), Len(names) + 1, Cardinality(bucket))

\* The keys of the next page, and of those that follow: continuation tokens name the
\* last key that was listed.
NextPage == Ordered({k \in bucket : k > after})

list_objects ==
  /\ lister = "list"
  /\ \/ LET truncated == Len(NextPage) > PageSize
            page == IF truncated THEN SubSeq(NextPage, 1, PageSize) ELSE NextPage
        IN /\ names' = names \o page
           /\ after' = IF truncated THEN Last(page) ELSE after
           /\ lister' = IF truncated THEN "list" ELSE "ask"
     \/ lister' = "done" /\ UNCHANGED <<names, after>>
  /\ UNCHANGED <<bucket, stayed>>

ask_confirm ==
  /\ lister = "ask"
  /\ lister' \in {"delete", "done"}
  /\ UNCHANGED <<bucket, stayed, after, names>>

\* All that was listed is deleted; a request may fail.
delete_object ==
  /\ lister = "delete"
  /\ \/ /\ names # << >>
        /\ Drop({Head(names)})
        /\ names' = Tail(names)
        /\ UNCHANGED lister
     \/ lister' = "done" /\ UNCHANGED <<bucket, stayed, names>>
  /\ UNCHANGED after

OthersDelete ==
  /\ OthersKey \in bucket
  /\ Drop({OthersKey})
  /\ UNCHANGED <<lister, after, names>>

\* utility stores an object of its own first.
Utility ==
  /\ \/ /\ lister = "put"
        /\ bucket' = bucket \cup {TextKey} /\ stayed' = bucket'
        /\ lister' = "list"
        /\ UNCHANGED <<after, names>>
     \/ list_objects
     \/ ask_confirm
     \/ delete_object
     \/ OthersDelete
  /\ UNCHANGED <<app, next, state, polled, printed, trouble, completed, raced>>
  /\ UNCHANGED canceller

AppNext == ServiceWorks \/ Main \/ CancelJob \/ Utility

-----------------------------------------------------------------------------
(* Properties. *)

\* run_primitive shows the result of a job that completed, and no other; run_job, which
\* does not look at the status, may show what a job had stored when it was cancelled.
\* What a program calls final, cancelled or deleted was.
PrintedIsTrue ==
  /\ app = "run_primitive" /\ "result" \in printed => completed
  /\ printed \cap {"job", "cancelled"} # {} => state # "Running"
  /\ "deleted" \in printed => state = "absent"

\* A program that ends leaves its job on the service only when a request of its failed,
\* or the job had ended when it was cancelled.
JobNotLeft == next \in {"ok", "error"} /\ state # "absent" => trouble \/ raced

\* utility lists each key once, and misses none that was there all the time.
ListedOnce ==
  lister = "ask" => IsInjective(names) /\ stayed \subseteq ToSet(names)
=============================================================================

----------------------------- MODULE BusyDevice -----------------------------
(***************************************************************************)
(* The status of a backend of the Quantum Compute Service                  *)
(* (status and has_dedicated_active_session in                             *)
(* src/ibm/quantum_compute_service.rs).  At the same time as it lists the  *)
(* backends, it goes through the pending jobs, the newest first, one page  *)
(* after the other by its offset, and asks for the sessions of those that  *)
(* run, until one is dedicated and active.  Jobs come, run and end in      *)
(* between, and so the pages do not fit together.                          *)
(***************************************************************************)
EXTENDS Naturals, Sequences, SequencesExt

\* Bounds: PAGE_SIZE is 200 and MAX_OFFSET 2147483647 in the code; MAX_OFFSET here
\* leaves room for two pages.
PAGE_SIZE == 2
MAX_OFFSET == 3
MaxPending == 5

VARIABLES
  pending,     \* the jobs of the backend that have not ended, the newest first
  dedicates,   \* the dedicated session is active
  serves,      \* the state of the backend
  offset,
  page,        \* the jobs of the page that are still to be looked at
  isLast,      \* it was not a full page
  busy,        \* what has_dedicated_active_session has found: "searching", "yes", "no"
  listed,      \* the state that list_backends has brought, or "none"
  says,        \* what status returned: "none", "error", or the state, or "busy"
  wasActive, wasServed, \* history: dedicates and serves during the call
  stays,       \* history: one job has been running in the dedicated session all along,
               \* and the session was active
  slips        \* history: a job newer than that one has ended, or the job was too deep
               \* in the list

busyVars == <<pending, dedicates, serves, offset, page, isLast, busy, listed, says,
              wasActive, wasServed, stays, slips>>

\* "other": queued, or running in no session.  "shared": running in a session that is
\* not dedicated.  "dedicated": running in the dedicated one.
Job == {"other", "shared", "dedicated"}

\* "paused" stands for offline, too: status passes on what it is told.
State == {"online", "paused"}

Count(kind, jobs) == Len(SelectSeq(jobs, LAMBDA j : j = kind))
OneOfEach(jobs) == \A kind \in {"shared", "dedicated"} : Count(kind, jobs) <= 1

BusyTypeOK ==
  /\ pending \in Seq(Job) /\ Len(pending) <= MaxPending
  /\ {dedicates, isLast, wasActive, stays, slips} \subseteq BOOLEAN
  /\ serves \in State
  /\ offset \in 0..MAX_OFFSET
  /\ page \in Seq(Job) /\ Len(page) <= PAGE_SIZE
  /\ busy \in {"searching", "yes", "no"}
  /\ listed \in State \cup {"none"}
  /\ says \in State \cup {"none", "error", "busy"}
  /\ wasServed \subseteq State

\* Where the job of the dedicated session is in a list.
Place(jobs) == CHOOSE k \in DOMAIN jobs : jobs[k] = "dedicated"
Deep(jobs) == Place(jobs) > MAX_OFFSET + 1

\* Bound: one running job is in the dedicated session, and one in another.  The
\* backend is online at first.
BusyInit(asks) ==
  /\ pending \in IF asks THEN {jobs \in BoundedSeq(Job, MaxPending) : OneOfEach(jobs)} ELSE {<< >>}
  /\ dedicates \in IF asks THEN BOOLEAN ELSE {FALSE}
  /\ serves = "online"
  /\ offset = 0
  /\ page = << >>
  /\ isLast = FALSE
  /\ busy = "searching"
  /\ listed = "none"
  /\ says = "none"
  /\ wasActive = dedicates
  /\ wasServed = {serves}
  /\ stays = (dedicates /\ Count("dedicated", pending) = 1)
  /\ slips = (Count("dedicated", pending) = 1 /\ Deep(pending))

callVars == <<offset, page, isLast, busy, listed, says>>

Searching == says = "none" /\ busy = "searching"

-----------------------------------------------------------------------------
(* The service on its own, until the call has found what it looks for. *)

Submitted ==
  /\ Searching
  /\ Len(pending) < MaxPending
  /\ pending' = <<"other">> \o pending
  /\ slips' = (slips \/ (stays /\ Deep(pending')))
  /\ UNCHANGED <<dedicates, serves, wasActive, wasServed, stays>>
  /\ UNCHANGED callVars

Runs ==
  /\ Searching
  /\ \E k \in DOMAIN pending, j \in {"shared", "dedicated"} :
       /\ pending[k] = "other"
       /\ j = "dedicated" => dedicates
       /\ pending' = [pending EXCEPT ![k] = j]
       /\ OneOfEach(pending')
  /\ UNCHANGED <<dedicates, serves, wasActive, wasServed, stays, slips>>
  /\ UNCHANGED callVars

Ends ==
  /\ Searching
  /\ \E k \in DOMAIN pending :
       /\ pending' = RemoveAt(pending, k)
       /\ stays' = (stays /\ pending[k] # "dedicated")
       /\ slips' = (slips \/ (stays' /\ k < Place(pending)))
  /\ UNCHANGED <<dedicates, serves, wasActive, wasServed>>
  /\ UNCHANGED callVars

\* The session becomes active, or is not any more; the backend changes its state.
\* Bound: the backend does so once.
Toggles ==
  /\ \/ /\ Searching
        /\ dedicates' = ~dedicates
        /\ wasActive' = TRUE
        /\ stays' = FALSE
        /\ UNCHANGED <<serves, wasServed>>
     \/ /\ says = "none" /\ listed = "none" /\ wasServed = {serves}
        /\ serves' \in State \ {serves}
        /\ wasServed' = wasServed \cup {serves'}
        /\ UNCHANGED <<dedicates, wasActive, stays>>
  /\ UNCHANGED <<pending, slips>>
  /\ UNCHANGED callVars

serviceVars == <<pending, dedicates, serves, wasActive, wasServed, stays, slips>>

-----------------------------------------------------------------------------
(* The call. *)

\* MUTANT of LastPage: a full page is taken for the last one.
LastPageEven(length) == length <= PAGE_SIZE

LastPage(length) == length < PAGE_SIZE

\* The pages beyond MAX_OFFSET cannot be asked for.
NextPage(last) ==
  IF last \/ offset > MAX_OFFSET - PAGE_SIZE
  THEN busy' = "no" /\ UNCHANGED offset
  ELSE offset' = offset + PAGE_SIZE /\ UNCHANGED busy

\* Only jobs that run are looked at, and of them those in a session.
InSession(jobs) == SelectSeq(jobs, LAMBDA j : j \in {"shared", "dedicated"})

ListPage ==
  /\ Searching
  /\ page = << >>
  /\ LET upTo == IF Len(pending) < offset + PAGE_SIZE THEN Len(pending)
                                                     ELSE offset + PAGE_SIZE
         jobs == SubSeq(pending, offset + 1, upTo)
     IN /\ page' = InSession(jobs)
        /\ isLast' = LastPage(Len(jobs))
        /\ IF page' = << >> THEN NextPage(isLast') ELSE UNCHANGED <<offset, busy>>
  /\ UNCHANGED <<listed, says>>
  /\ UNCHANGED serviceVars

GetSession ==
  /\ Searching
  /\ page # << >>
  /\ IF page[1] = "dedicated" /\ dedicates
     THEN /\ busy' = "yes"
          /\ page' = << >>
          /\ UNCHANGED offset
     ELSE /\ page' = Tail(page)
          /\ IF page' = << >> THEN NextPage(isLast) ELSE UNCHANGED <<offset, busy>>
  /\ UNCHANGED <<isLast, listed, says>>
  /\ UNCHANGED serviceVars

list_backends ==
  /\ says = "none"
  /\ listed = "none"
  /\ listed' = serves
  /\ UNCHANGED <<offset, page, isLast, busy, says>>
  /\ UNCHANGED serviceVars

\* The first request that fails ends both (try_join!); the backend may not be in
\* the list.
RequestFails ==
  /\ says = "none"
  /\ busy = "searching" \/ listed = "none"
  /\ says' = "error"
  /\ UNCHANGED <<offset, page, isLast, busy, listed>>
  /\ UNCHANGED serviceVars

\* Only a backend that is online is busy.
status ==
  /\ says = "none"
  /\ busy # "searching"
  /\ listed # "none"
  /\ says' = IF listed = "online" /\ busy = "yes" THEN "busy" ELSE listed
  /\ UNCHANGED <<offset, page, isLast, busy, listed>>
  /\ UNCHANGED serviceVars

BusyNext ==
  \/ Submitted \/ Runs \/ Ends \/ Toggles
  \/ ListPage \/ GetSession \/ list_backends \/ RequestFails \/ status

-----------------------------------------------------------------------------
(* Properties. *)

\* A backend that is said to be busy was online, and its dedicated session active,
\* during the call.  One that is said to be online and not busy had no job running in
\* an active dedicated session all the time, unless a newer job ended meanwhile, which
\* moves that one from a page that is still to come to one that was read; or there are
\* more jobs before it than an offset can pass.
BusyIsTrue ==
  /\ says = "busy" => "online" \in wasServed /\ wasActive
  /\ says \in State => says \in wasServed
  /\ says = "online" => ~stays \/ slips
=============================================================================

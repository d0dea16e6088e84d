---------------------------- MODULE MaestroWire ----------------------------
(***************************************************************************)
(* One command to the Maestro daemon over its socket: a line goes out, the *)
(* daemon obeys it in its own time, and a line comes back, piece by piece. *)
(* What the legacy client makes of it is what MaestroLocal builds on: an   *)
(* answer, or an error that leaves open whether the daemon obeyed.         *)
(***************************************************************************)
EXTENDS Integers, Sequences

VARIABLES
  method,     \* the function that is called
  text,       \* its text, if it has one
  wrote,       \* what was written to the socket
  need,       \* the time that the daemon takes to answer
  meant,      \* what the daemon answers
  line,       \* the line that it sends
  have,       \* how many pieces of it the client has
  quiet,      \* how long the client has been waiting for the next piece
  link,       \* "up", "closed" (by the daemon), "stalled"
  outcome     \* what the function returns

wireVars == <<method, text, wrote, need, meant, line, have, quiet, link, outcome>>

-----------------------------------------------------------------------------
(* The functions of Session and Task. *)

Asks(command, answer) == [command |-> command, answer |-> answer, sends |-> "none"]
Sets(command, sends) == [command |-> command, answer |-> "flag", sends |-> sends]

new_at == Asks("SESSION CREATE", "number")
session_exists_at == Asks("SESSION EXISTS", "flag")
delete_at == Asks("SESSION DELETE", "flag")
task_exists_at == Asks("TASK EXISTS", "flag")
create_task_at == Asks("TASK CREATE", "number")
exists_at == Asks("TASK EXISTS", "flag")
valid_at == Asks("TASK VALID", "flag")
pending_at == Asks("TASK PENDING", "flag")
running_at == Asks("TASK RUNNING", "flag")
finished_at == Asks("TASK FINISHED", "flag")
failed_at == Asks("TASK FAILED", "flag")
execute_at == Asks("TASK EXECUTE", "flag")
cancel_at == Asks("TASK CANCEL", "flag")
get_results_as_string_at == Asks("TASK GET_RESULTS", "value")
set_type_at == Sets("TASK SET_TYPE", "none")
set_qubits_at == Sets("TASK SET_QUBITS", "none")
set_simulator_type_at == Sets("TASK SET_SIM_TYPE", "none")
set_simulation_method_at == Sets("TASK SET_METHOD", "none")
set_observables_as_string_at == Sets("TASK SET_OBSERVABLES", "text")
set_qasm_at == Sets("TASK SET_QASM", "program")
set_options_json_at == Sets("TASK SET_OPTIONS", "text")

Method ==
  {new_at, session_exists_at, delete_at, task_exists_at, create_task_at, exists_at,
   valid_at, pending_at, running_at, finished_at, failed_at, execute_at, cancel_at,
   get_results_as_string_at, set_type_at, set_qubits_at, set_simulator_type_at,
   set_simulation_method_at, set_observables_as_string_at, set_qasm_at,
   set_options_json_at}

\* Bound: texts of three pieces: a word, a blank, a line's end, in a program also
\* the start of a comment.
Text(m) ==
  LET piece == {"word", " ", "nl"} \cup (IF m.sends = "program" THEN {"//"} ELSE {})
  IN IF m.sends = "none" THEN {<< >>} ELSE [1..3 -> piece]

\* MUTANT of OneLine: the text is only trimmed.
Trimmed(t) == t

\* A text is sent in one line (its ends are also trimmed: blanks make no difference).
OneLine(t) == [i \in DOMAIN t |-> IF t[i] = "nl" THEN " " ELSE t[i]]

-----------------------------------------------------------------------------
(* The daemon. *)

\* In units of 15 seconds.  A cancellation and a deletion wait for the worker of the
\* task, whose cleanup may take 25 seconds.
Cleanup(m) == m \in {cancel_at, delete_at}
CleanupBudget == 2

\* What it may answer, a line being a sequence of pieces.
Answer ==
  {<<"YES", <<"OK">>>>, <<"YES", <<"OK", " ", "YES">>>>, <<"NO", <<"OK", " ", "NO">>>>,
   <<"12", <<"OK", " ", "1", "2">>>>, <<"result", <<"OK", " ", "result">>>>,
   <<"oversized", <<"OK", " ", "oversized">>>>,
   <<"refusal", <<"ERROR", " ", "refusal">>>>, <<"nothing", <<"broken">>>>}

-----------------------------------------------------------------------------
(* The client. *)

\* parse_response, of a line that is complete.
Response(l) ==
  CASE l \in {<<"OK">>, <<"OK", " ", "YES">>} -> "YES"
    [] l = <<"OK", " ", "NO">> -> "NO"
    [] l = <<"OK", " ", "1", "2">> -> "12"
    [] l = <<"OK", " ", "1">> -> "1"
    [] Len(l) = 3 /\ l[1] = "OK" /\ l[3] = "result" -> "result"
    [] OTHER -> "ERROR"

\* What a function takes from a response: the other kinds of responses are unexpected.
Taken(m, r) ==
  CASE m.answer = "flag" /\ r \in {"YES", "NO"} -> r
    [] m.answer = "number" /\ r \in {"1", "12"} -> r
    [] m.answer = "value" /\ r \in {"1", "12", "result"} -> r
    [] OTHER -> "Err"

\* MUTANT of Complete: a line that the daemon cut short counts.
CompleteOrCut(got, closed) == got # << >> /\ (closed \/ got[Len(got)] = "nl")

\* exchange: a reply ends with the end of its line.
Complete(got, closed) == got # << >> /\ got[Len(got)] = "nl"

\* reply_timeout
ReplyTimeout(m) == IF m.command \in {"SESSION DELETE", "TASK CANCEL"} THEN 4 ELSE 1

WireTypeOK ==
  /\ method \in Method
  /\ need \in 0..CleanupBudget
  /\ have \in 0..Len(line)
  /\ quiet \in 0..4
  /\ link \in {"up", "closed", "stalled"}
  /\ outcome \in {"none", "YES", "NO", "1", "12", "result", "Err"}

\* A program that sends no command has one initial state.
WireInit(sends) ==
  /\ CASE ~sends -> method = new_at /\ text = << >>
       [] sends -> method \in Method /\ text \in Text(method)
  /\ wrote = << >>
  /\ need = 0
  /\ meant = "nothing"
  /\ line = << >>
  /\ have = 0
  /\ quiet = 0
  /\ link = "up"
  /\ outcome = "none"

\* send_command_at: the daemon is not there, or has the line and begins to obey it.
Connect ==
  /\ wrote = << >> /\ outcome = "none"
  /\ \/ outcome' = "Err" /\ UNCHANGED <<wrote, need, meant, line>>
     \/ /\ wrote' = <<method.command>> \o OneLine(text) \o <<"nl">>
        /\ need' \in 0..CleanupBudget
        /\ \E a \in Answer : meant' = a[1] /\ line' = a[2] \o <<"nl">>
        /\ UNCHANGED outcome
  /\ UNCHANGED <<method, text, have, quiet, link>>

Waiting == wrote # << >> /\ outcome = "none"
Got == SubSeq(line, 1, have)

\* A piece of the reply arrives; the daemon's connection ends; nothing comes any more.
Piece ==
  /\ Waiting /\ link = "up" /\ need = 0
  /\ have < Len(line)
  /\ have > 0 => line[have] # "oversized"
  /\ have' = have + 1
  /\ quiet' = 0
  /\ UNCHANGED <<method, text, wrote, need, meant, line, link, outcome>>

Breaks ==
  /\ Waiting /\ link = "up" /\ have < Len(line)
  /\ link' \in {"closed", "stalled"}
  /\ UNCHANGED <<method, text, wrote, need, meant, line, have, quiet, outcome>>

\* The timeout is that of one read.
Tick ==
  /\ Waiting /\ quiet < ReplyTimeout(method)
  /\ need > 0 \/ link = "stalled"
  /\ need' = IF need > 0 THEN need - 1 ELSE 0
  /\ quiet' = quiet + 1
  /\ UNCHANGED <<method, text, wrote, meant, line, have, link, outcome>>

Times_out ==
  /\ Waiting /\ quiet = ReplyTimeout(method)
  /\ outcome' = "Err"
  /\ UNCHANGED <<method, text, wrote, need, meant, line, have, quiet, link>>

\* The line is complete, or too long to be read to its end, or the connection ends.
Returns ==
  /\ Waiting
  /\ \/ have = Len(line)
     \/ link = "closed"
     \/ have > 0 /\ line[have] = "oversized"
  /\ outcome' = IF Complete(Got, link = "closed")
                THEN Taken(method, Response(SelectSeq(Got, LAMBDA p : p # "nl"))) ELSE "Err"
  /\ UNCHANGED <<method, text, wrote, need, meant, line, have, quiet, link>>

WireNext == Connect \/ Piece \/ Breaks \/ Tick \/ Times_out \/ Returns

-----------------------------------------------------------------------------
(* Properties. *)

\* What a function returns is what the daemon answered: no reply that was cut short
\* or came to something else passes for an answer.
AnswerIsTheDaemons == outcome \in {"YES", "NO", "1", "12", "result"} => outcome = meant

\* The answer to a cancellation or a deletion is not given up while the daemon
\* still cleans up.
CleanupIsHeard ==
  (Cleanup(method) /\ wrote # << >> /\ link = "up" /\ outcome = "Err")
    => have > 0

\* Where a text has words, those in a comment left out.
Words(t, comments) ==
  LET commented(i) == /\ comments
                      /\ \E j \in 1..i : t[j] = "//" /\ \A k \in j..i : t[k] # "nl"
  IN {i \in DOMAIN t : t[i] \notin {" ", "nl"} /\ ~commented(i)}

\* The daemon reads one line, with every word of the text.  What a program means is
\* the same but where a word follows a comment's line: OneLine runs it into the
\* comment.
TextIsWhole ==
  wrote # << >> =>
    LET sent == SubSeq(wrote, 2, Len(wrote) - 1)
        follows == \E i, j, k \in DOMAIN text :
                     i < j /\ j < k /\ text[i] = "//" /\ text[j] = "nl" /\ text[k] = "word"
    IN /\ \A i \in DOMAIN sent : sent[i] # "nl"
       /\ Words(sent, FALSE) = Words(text, FALSE)
       /\ method.sends = "program" /\ ~follows => Words(sent, TRUE) = Words(text, TRUE)
=============================================================================

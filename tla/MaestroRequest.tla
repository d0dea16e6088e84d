--------------------------- MODULE MaestroRequest ---------------------------
(***************************************************************************)
(* The client of Maestro's request API v2                                  *)
(* (dependencies/maestro_rust_library/src/maestro/request.rs).  Instances  *)
(* hold clones of one client, which share the flag that says that a server *)
(* of version 2 has been found; their calls run at the same time, and the  *)
(* server may be replaced by one of another version.                       *)
(***************************************************************************)
CONSTANT Clones

VARIABLES
  server,       \* the version of the server
  negotiated,   \* the flag
  doing,        \* the call of each clone
  at,           \* its next step
  reply,        \* what its last exchange brought
  made,         \* history: the tasks that its submission created
  code          \* what its last call returned: "Ok", or the code of the error

requestVars == <<server, negotiated, doing, at, reply, made, code>>

\* "later": a server that answers with envelopes of another version.
Server == {"v2", "legacy", "later"}

\* What a reply is to its reader: "bare" says ok and nothing else, "foreign" is
\* an envelope of another version, "error" is no envelope.
Reply == {"none", "accepted", "bare", "refused", "retired", "foreign", "error", "garbled", "lost"}

Doubt == {"transport", "protocol"}
Code == {"none", "Ok", "invalid_input", "unsupported_version", "unsupported_api"} \cup Doubt

RequestTypeOK ==
  /\ server \in Server
  /\ negotiated \in BOOLEAN
  /\ doing \in [Clones -> {"submit", "capabilities"}]
  /\ at \in [Clones -> {"idle", "clear", "ask", "send", "hear", "learn"}]
  /\ reply \in [Clones -> Reply]
  /\ made \in [Clones -> {0, 1}]
  /\ code \in [Clones -> Code]

RequestInit ==
  /\ server = "v2"
  /\ negotiated = FALSE
  /\ doing = [c \in Clones |-> "submit"]
  /\ at = [c \in Clones |-> "idle"]
  /\ reply = [c \in Clones |-> "none"]
  /\ made = [c \in Clones |-> 0]
  /\ code = [c \in Clones |-> "none"]

-----------------------------------------------------------------------------
(* The server. *)

Replaced ==
  /\ server' \in Server \ {server}
  /\ UNCHANGED <<negotiated, doing, at, reply, made, code>>

\* An exchange can fail before or after its effect, and a reply be cut short.
Capable(r) ==
  \/ r \in {"lost", "garbled"}
  \/ server = "v2" /\ r \in {"accepted", "bare", "retired"}
  \/ server = "later" /\ r = "foreign"
  \/ server = "legacy" /\ r = "error"

Creating(r) ==
  /\ server # "legacy"
  /\ r \in {"lost", "garbled"} \cup (IF server = "v2" THEN {"accepted", "bare"} ELSE {"foreign"})

Refusing(r) ==
  \/ r = "lost"
  \/ server = "v2" /\ r \in {"refused", "retired"}
  \/ server = "later" /\ r = "foreign"
  \/ server = "legacy" /\ r = "error"

-----------------------------------------------------------------------------
(* The client. *)

Goto(c, step) == at' = [at EXCEPT ![c] = step]

Returns(c, result) ==
  /\ Goto(c, "idle")
  /\ code' = [code EXCEPT ![c] = result]

\* parse_response
Parsed(r) ==
  CASE r \in {"accepted", "bare"} -> "Ok"
    [] r = "refused" -> "invalid_input"
    [] r = "retired" -> "unsupported_version"
    [] r \in {"foreign", "error"} -> "unsupported_api"
    [] r = "garbled" -> "protocol"
    [] r = "lost" -> "transport"

\* MUTANT of Submitted: the reply to a submission is read as any other.
SubmittedAsAny(r) == Parsed(r)

\* parse_submission_response, and the look at task_id.
Submitted(r) == IF r \in {"foreign", "error", "bare"} THEN "protocol" ELSE Parsed(r)

\* The flag is cleared by what may come from another server.
Clears(result) == result \in Doubt \cup {"unsupported_api", "unsupported_version"}

\* A request that is no object of version 2 is not sent.
Submit(c) ==
  /\ at[c] = "idle"
  /\ doing' = [doing EXCEPT ![c] = "submit"]
  /\ made' = [made EXCEPT ![c] = 0]
  /\ \/ /\ Goto(c, IF negotiated THEN "send" ELSE "clear")
        /\ code' = [code EXCEPT ![c] = "none"]
     \/ Returns(c, "invalid_input")
  /\ UNCHANGED <<server, negotiated, reply>>

Capabilities(c) ==
  /\ at[c] = "idle"
  /\ doing' = [doing EXCEPT ![c] = "capabilities"]
  /\ made' = [made EXCEPT ![c] = 0]
  /\ code' = [code EXCEPT ![c] = "none"]
  /\ Goto(c, "clear")
  /\ UNCHANGED <<server, negotiated, reply>>

Clear(c) ==
  /\ at[c] = "clear"
  /\ negotiated' = FALSE
  /\ Goto(c, "ask")
  /\ UNCHANGED <<server, doing, reply, made, code>>

Ask(c) ==
  /\ at[c] = "ask"
  /\ \E r \in Reply : Capable(r) /\ reply' = [reply EXCEPT ![c] = r]
  /\ Goto(c, "learn")
  /\ UNCHANGED <<server, negotiated, doing, made, code>>

\* The answer of capabilities says whether the server speaks schema 2.
Learn(c) ==
  LET result == IF reply[c] = "bare" THEN "unsupported_api" ELSE Parsed(reply[c])
  IN /\ at[c] = "learn"
     /\ IF result = "Ok" /\ doing[c] = "submit"
        THEN Goto(c, "send") /\ UNCHANGED code
        ELSE Returns(c, result)
     /\ negotiated' = (IF result = "Ok" THEN TRUE
                       ELSE negotiated /\ ~Clears(Parsed(reply[c])))
     /\ UNCHANGED <<server, doing, reply, made>>

Send(c) ==
  /\ at[c] = "send"
  /\ \E r \in Reply :
       /\ reply' = [reply EXCEPT ![c] = r]
       /\ \/ Creating(r) /\ made' = [made EXCEPT ![c] = 1]
          \/ Refusing(r) /\ UNCHANGED made
  /\ Goto(c, "hear")
  /\ UNCHANGED <<server, negotiated, doing, code>>

Hear(c) ==
  /\ at[c] = "hear"
  /\ Returns(c, Submitted(reply[c]))
  /\ negotiated' = (negotiated /\ ~Clears(Submitted(reply[c])))
  /\ UNCHANGED <<server, doing, reply, made>>

RequestNext ==
  \/ Replaced
  \/ \E c \in Clones :
       Submit(c) \/ Capabilities(c) \/ Clear(c) \/ Ask(c) \/ Learn(c) \/ Send(c) \/ Hear(c)

-----------------------------------------------------------------------------
(* Properties. *)

\* Only a failure of the transport or of the protocol leaves a submission in doubt:
\* any other error means that no task was created, even when the flag was set for
\* a server that has been replaced since, or by another clone.  A submission is
\* sent once.
RefusalIsDefinite ==
  \A c \in Clones :
    /\ code[c] \notin Doubt \cup {"none", "Ok"} => made[c] = 0
    /\ doing[c] = "submit" /\ code[c] = "Ok" => made[c] = 1
=============================================================================

----------------------------- MODULE LuaBinding -----------------------------
(***************************************************************************)
(* The Lua interface (lua/lua_qrmi.c).  A handle keeps the token of what it *)
(* acquired, so that free and the garbage collector can release it; detach *)
(* gives the token away.  What is acquired is a session here, and tokens   *)
(* are sessions.  The program keeps the tokens that acquire returned.      *)
(*                                                                         *)
(* Calls of tasks, status, target and metadata go through: they change     *)
(* nothing of this, and have no actions.                                   *)
(***************************************************************************)
CONSTANTS
  Sessions,     \* bound: the sessions that are ever opened
  Handles,      \* bound: the userdata of the Lua program
  NoSession

VARIABLES
  alive,        \* the userdata whose handle is not NULL
  cached,       \* acquisition_token
  open,         \* the server's open sessions
  fresh,        \* the sessions that were never opened
  away,         \* history: the sessions that the program detached and keeps
  excused,      \* history: their release failed, or another token was released
  untold        \* history: an acquire that failed had opened them: nobody has their token

luaVars == <<alive, cached, open, fresh, away, excused, untold>>

TypeOK ==
  /\ alive \subseteq Handles
  /\ cached \in [Handles -> Sessions \cup {NoSession}]
  /\ {open, fresh, away, excused, untold} \subseteq SUBSET Sessions

LuaInit ==
  /\ alive = {}
  /\ cached = [h \in Handles |-> NoSession]
  /\ open = {}
  /\ fresh = Sessions
  /\ away = {}
  /\ excused = {}
  /\ untold = {}

-----------------------------------------------------------------------------
(* The server. *)

\* qrmi_resource_release fails, or the session ends, or both: the reply was lost.
\* One that has ended may be released again.
Released(s) ==
  {[ok |-> TRUE, open |-> open \ {s}],
   [ok |-> FALSE, open |-> open \ {s}], [ok |-> FALSE, open |-> open]}

\* A session ends on its own.
Expire ==
  /\ \E s \in open : open' = open \ {s} /\ away' = away \ {s}
  /\ UNCHANGED <<alive, cached, fresh, excused, untold>>

-----------------------------------------------------------------------------
(* The methods. *)

Live(h) == h \in alive
Forget(h) == cached' = [cached EXCEPT ![h] = NoSession]

l_qrmi_new(h) ==
  /\ ~Live(h)
  /\ alive' = alive \cup {h}
  /\ UNCHANGED <<cached, open, fresh, away, excused, untold>>

l_qrmi_new_from_config(h) == l_qrmi_new(h)

\* What could not be released is forgotten, too.
Excuse(r, h) == IF r.ok THEN {} ELSE {cached[h]} \ {NoSession}

\* The session that the handle holds is released first, and its token is forgotten
\* whether that succeeds or not.  An error of it is that of the call.  Another
\* handle may be given a session that is open: some vendors keep one for all of
\* the job.  An acquire that fails may have opened a session: the server's reply
\* was lost, or its token is no C string and cext.rs drops it.
l_acquire(h) ==
  /\ Live(h)
  /\ \E r \in Released(cached[h]) :
       \/ /\ cached[h] = NoSession \/ r.ok
          /\ \E s \in fresh \cup r.open :
               /\ fresh' = fresh \ {s}
               /\ open' = r.open \cup {s}
               /\ cached' = [cached EXCEPT ![h] = s]
               /\ away' = away \ {s}
               /\ excused' = excused \ {s}
               /\ untold' = untold \ {s}
       \/ /\ cached[h] = NoSession \/ r.ok
          /\ \E s \in fresh :    \* s is opened, and qrmi_resource_acquire fails
               /\ fresh' = fresh \ {s}
               /\ open' = r.open \cup {s}
               /\ untold' = untold \cup {s}
          /\ Forget(h)
          /\ UNCHANGED <<away, excused>>
       \/ /\ Forget(h)           \* nothing is opened, or the release failed
          /\ open' = r.open
          /\ excused' = excused \cup Excuse(r, h)
          /\ UNCHANGED <<fresh, away, untold>>
  /\ UNCHANGED alive

\* Without a token, the cached one.  With one, the cached one is forgotten all
\* the same.  The handle keeps it when the release fails: nothing changes, or the
\* session has ended (Expire).
l_release(h) ==
  /\ Live(h)
  /\ \E s \in {cached[h]} \cup (Sessions \ fresh) :
       /\ s # NoSession
       /\ open' = open \ {s}
       /\ Forget(h)
       /\ away' = away \ {s}
       /\ excused' = excused \cup ({cached[h]} \ {s, NoSession})
  /\ UNCHANGED <<alive, fresh, untold>>

\* MUTANT of l_detach: the handle keeps the token.
DetachKeeps(h) ==
  /\ Live(h) /\ cached[h] # NoSession
  /\ away' = away \cup {cached[h]}
  /\ UNCHANGED <<alive, cached, open, fresh, excused, untold>>

\* The program owns the session, but for what another handle still caches.
l_detach(h) ==
  /\ Live(h) /\ cached[h] # NoSession
  /\ Forget(h)
  /\ away' = away \cup (({cached[h]} \cap open) \ {cached[g] : g \in Handles \ {h}})
  /\ UNCHANGED <<alive, open, fresh, excused, untold>>

\* MUTANT of release_resource: the handle is freed, and what it holds is not.
FreeOnly(h) ==
  /\ Live(h)
  /\ alive' = alive \ {h}
  /\ Forget(h)
  /\ UNCHANGED <<open, fresh, away, excused, untold>>

\* An error of the release is ignored.
release_resource(h) ==
  /\ Live(h)
  /\ \E r \in Released(cached[h]) :
       /\ open' = r.open
       /\ excused' = excused \cup Excuse(r, h)
  /\ Forget(h)
  /\ alive' = alive \ {h}
  /\ UNCHANGED <<fresh, away, untold>>

l_resource_free(h) == release_resource(h)

\* The garbage collector finds the userdata unreachable.
l_resource_gc(h) == release_resource(h)

Next ==
  \/ Expire
  \/ \E h \in Handles :
       \/ l_qrmi_new(h) \/ l_qrmi_new_from_config(h)
       \/ l_acquire(h) \/ l_release(h) \/ l_detach(h)
       \/ l_resource_free(h) \/ l_resource_gc(h)

-----------------------------------------------------------------------------
(* Properties. *)

\* A Lua program that drops its handles leaves no session open by accident: an
\* open session is in the cache of a live handle, or the program has detached it,
\* or its release failed, or the program released another token through the
\* handle, or the acquire that opened it failed: nobody has the token of that one, and
\* it stays open unless a later acquire is given it.  And a detached session stays
\* open until the program releases it.
SessionsAccounted ==
  /\ \A s \in open : \/ \E h \in alive : cached[h] = s
                     \/ s \in away \cup excused \cup untold
  /\ away \subseteq open
=============================================================================

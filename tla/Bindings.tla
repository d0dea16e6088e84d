------------------------------ MODULE Bindings ------------------------------
(***************************************************************************)
(* The interfaces of the library for other languages: the program of a run *)
(* is one of C, Lua or Python, chosen in the initial state.  A Lua program *)
(* is looked at twice: its sessions, and the calls that it makes.          *)
(***************************************************************************)
EXTENDS FiniteSets

CONSTANTS
  Threads,            \* bound: the threads of a C or Python program
  Objects,            \* bound: what a C program has allocated
  NoRuntime,
  Sessions, Handles,  \* bound: of a Lua program
  NoSession,
  Sinks,              \* bound: the log callbacks of the program
  NoSink,
  Nobody

ASSUME BindingsAssumption ==
  /\ NoSink \notin Sinks
  /\ NoRuntime \notin Objects
  /\ NoSession \notin Sessions
  /\ Nobody \notin Threads

\* Memory is finite.  Threads and the runtimes of PyBinding are not of a kind.
ASSUME KindsAssumption ==
  /\ IsFiniteSet(Objects)
  /\ Threads \cap (Threads \X {"object", "service"}) = {}

VARIABLES
  host,                                                       \* the program
  sink, readers, writer,                                      \* LogSink
  crew, room, frames, lastKind, lastMsg, told, crossed, heap, home, refs, mine, list,  \* C
  alive, cached, open, fresh, away, excused, untold,          \* Lua
  method, rest, holds, usable, passed, anchored, slip,        \* Lua's calls
  trace, gil, at, has, work, voice                            \* Python

sinkVars == <<sink, readers, writer>>
cVars == <<crew, room, frames, lastKind, lastMsg, told, crossed, heap, home, refs, mine, list>>
luaVars == <<alive, cached, open, fresh, away, excused, untold>>
callVars == <<method, rest, holds, usable, passed, anchored, slip>>
pyVars == <<trace, gil, at, has, work, voice>>
vars == <<host, sinkVars, cVars, luaVars, callVars, pyVars>>

C == INSTANCE CBinding
L == INSTANCE LuaBinding
F == INSTANCE LuaCall
P == INSTANCE PyBinding

\* A C program of several threads that meet errors, or one that uses memory.  A
\* Python program has imported the module, which forwards records to logging.
Init ==
  /\ host \in {"C", "Lua", "Lua calls", "Python"}
  /\ sink = IF host = "Python" THEN "logging" ELSE NoSink
  /\ P!SinkInit
  /\ IF host = "C" THEN \/ crew = Threads /\ room = {}
                        \/ crew \in {{t} : t \in Threads} /\ room = Objects
                   ELSE crew = {} /\ room = {}
  /\ C!CInit
  /\ L!LuaInit
  /\ F!CallInit
  /\ P!PyInit
  /\ trace \in BOOLEAN
  /\ host # "Python" => ~trace

Next ==
  /\ UNCHANGED host
  /\ \/ /\ host = "C"
        /\ C!Next
        /\ UNCHANGED <<luaVars, callVars, pyVars>>
     \/ /\ host = "Lua"
        /\ L!Next
        /\ UNCHANGED <<sinkVars, cVars, callVars, pyVars>>
     \/ /\ host = "Lua calls"
        /\ F!CallNext
        /\ UNCHANGED <<sinkVars, cVars, luaVars, pyVars>>
     \/ /\ host = "Python"
        /\ P!Next
        /\ UNCHANGED <<cVars, luaVars, callVars>>

Spec == Init /\ [][Next]_vars

-----------------------------------------------------------------------------
(* Properties. *)

\* The variables of the program's interface have their types.
TypeOK ==
  /\ host = "C" => C!TypeOK
  /\ host = "Lua" => L!TypeOK
  /\ F!CallTypeOK
  /\ host = "Python" => P!TypeOK

\* A thread reads the error of its own last call (CBinding).
ErrorIsMine == C!ErrorIsMine

\* What a C program holds is live, whatever it has freed (CBinding).
HandlesLive == C!HandlesLive

\* A function of Lua's frees what C gave it, once, and uses nothing that was freed
\* (LuaCall).
CallsTidy == F!CallsTidy

\* A session that a Lua program opened is remembered by a handle, or the program was
\* told of it (LuaBinding).
SessionsAccounted == L!SessionsAccounted

\* A log callback that replaces the callback does not wait for itself, nor does a
\* destructor in Python, but for those of a replaced callback and of QRMIService().
NobodyStuck == (host = "C" => C!ReplacingNeverWaits) /\ P!NobodyStuck

\* See PyBinding.
ServiceDropReturns == P!ServiceDropReturns
=============================================================================

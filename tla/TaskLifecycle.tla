--------------------------- MODULE TaskLifecycle ---------------------------
(***************************************************************************)
(* What an instance of a resource promises about the tasks of its session, *)
(* whatever exchanges it takes: a task ends once; an instance takes a      *)
(* terminal status for a task only if a task of that name ended so, not    *)
(* earlier than the one the instance started itself; and it never changes  *)
(* its mind: a verdict goes only when the name is given to a new task of   *)
(* the instance, or with everything else the instance knows.               *)
(***************************************************************************)
EXTENDS Naturals

CONSTANTS Clients, Key, MaxGen

VARIABLES
  fate,       \* how each generation of a name ended, if it did
  handle,     \* the generation an instance started last under a name
  verdict     \* the terminal status an instance holds for a name

vars == <<fate, handle, verdict>>

Gens == 1..MaxGen
Terminal == {"Completed", "Failed", "Cancelled"}
Ended == Terminal \cup {"dropped"}

Nothing == [k \in Key |-> "none"]
NoHandles == [k \in Key |-> 0]

Init ==
  /\ fate = [k \in Key |-> [g \in Gens |-> "none"]]
  /\ handle = [c \in Clients |-> NoHandles]
  /\ verdict = [c \in Clients |-> Nothing]

\* A task comes into being once and ends once.
Progress(k, g) ==
  \/ fate'[k][g] = fate[k][g]
  \/ fate[k][g] = "none" /\ fate'[k][g] = "active"
  \/ fate[k][g] = "active" /\ fate'[k][g] \in Ended

Keep(c, k) ==
  /\ verdict'[c][k] = verdict[c][k]
  /\ handle'[c][k] = handle[c][k]

Learn(c, k) ==
  /\ verdict[c][k] = "none"
  /\ verdict'[c][k] \in Terminal
  /\ handle'[c][k] = handle[c][k]
  /\ \E g \in Gens : g >= handle[c][k] /\ fate'[k][g] = verdict'[c][k]

StartAnew(c, k) ==
  /\ verdict'[c][k] = "none"
  /\ handle'[c][k] > handle[c][k]

Reset(c) ==
  /\ verdict'[c] = Nothing
  /\ handle'[c] = NoHandles

Next ==
  /\ \A k \in Key, g \in Gens : Progress(k, g)
  /\ \A c \in Clients :
        \/ Reset(c)
        \/ \A k \in Key : Keep(c, k) \/ Learn(c, k) \/ StartAnew(c, k)

Spec == Init /\ [][Next]_vars

\* Every verdict is the fate of a task of that name, none of them older than
\* the instance's own.
Truthful ==
  \A c \in Clients, k \in Key : verdict[c][k] # "none" =>
    \E g \in Gens : g >= handle[c][k] /\ fate[k][g] = verdict[c][k]
=============================================================================

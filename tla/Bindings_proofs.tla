-------------------------- MODULE Bindings_proofs --------------------------
(***************************************************************************)
(* Proofs about the interfaces of the library for other languages, for     *)
(* every number of threads, objects, sessions and handles.  The state of   *)
(* each language is its own, and so is its invariant; C and Python share   *)
(* the log sink.                                                           *)
(***************************************************************************)
EXTENDS Bindings, Naturals, Sequences, FiniteSetTheorems, SequenceTheorems, TLAPS

(***************************************************************************)
(* The log sink.                                                           *)
(***************************************************************************)

\* A callback runs without the lock; the destructor of one that was replaced has it.
SinkInv == sink \in P!PySinks /\ readers = {} /\ writer \in Threads \cup {Nobody}

\* A C program's has no such destructor.
SinkFree == sink \in Sinks \cup {NoSink} /\ readers = {} /\ writer = Nobody

(***************************************************************************)
(* Lua.                                                                    *)
(***************************************************************************)

\* Only a live handle has a token, and never one that was detached.
Cached ==
  \A h \in Handles : cached[h] # NoSession => h \in alive /\ cached[h] \notin away

LuaInv ==
  /\ alive \subseteq Handles /\ cached \in [Handles -> Sessions \cup {NoSession}]
  /\ open \subseteq Sessions /\ fresh \subseteq Sessions
  /\ excused \subseteq Sessions /\ untold \subseteq Sessions
  /\ \A s \in open : (\E h \in alive : cached[h] = s) \/ s \in away \cup excused \cup untold
  /\ away \subseteq open
  /\ Cached

LEMMA LuaAcquires == ASSUME LuaInv, NEW h \in Handles, L!l_acquire(h) PROVE LuaInv'
<1>1. PICK r \in L!Released(cached[h]) :
        \/ /\ cached[h] = NoSession \/ r.ok
           /\ \E s \in fresh \cup r.open :
                /\ fresh' = fresh \ {s}
                /\ open' = r.open \cup {s}
                /\ cached' = [cached EXCEPT ![h] = s]
                /\ away' = away \ {s}
                /\ excused' = excused \ {s}
                /\ untold' = untold \ {s}
        \/ /\ cached[h] = NoSession \/ r.ok
           /\ \E s \in fresh :
                /\ fresh' = fresh \ {s}
                /\ open' = r.open \cup {s}
                /\ untold' = untold \cup {s}
           /\ L!Forget(h)
           /\ UNCHANGED <<away, excused>>
        \/ /\ L!Forget(h)
           /\ open' = r.open
           /\ excused' = excused \cup L!Excuse(r, h)
           /\ UNCHANGED <<fresh, away, untold>>
  BY DEF L!l_acquire
<1>2. /\ h \in alive /\ UNCHANGED alive
      /\ \/ r.ok = TRUE /\ r.open = open \ {cached[h]}
         \/ r.ok = FALSE /\ r.open \in {open, open \ {cached[h]}}
  <2>1. h \in alive /\ UNCHANGED alive
    BY DEF L!l_acquire, L!Live
  <2>2. \/ r = [ok |-> TRUE, open |-> open \ {cached[h]}]
        \/ r = [ok |-> FALSE, open |-> open \ {cached[h]}]
        \/ r = [ok |-> FALSE, open |-> open]
    BY DEF L!Released
  <2>3. QED
    BY <2>1, <2>2
<1>3. CASE cached[h] = NoSession \/ r.ok
  <2>1. CASE \E s \in fresh \cup r.open :
               /\ fresh' = fresh \ {s}
               /\ open' = r.open \cup {s}
               /\ cached' = [cached EXCEPT ![h] = s]
               /\ away' = away \ {s}
               /\ excused' = excused \ {s}
               /\ untold' = untold \ {s}
    <3>1. PICK s \in fresh \cup r.open :
            /\ fresh' = fresh \ {s}
            /\ open' = r.open \cup {s}
            /\ cached' = [cached EXCEPT ![h] = s]
            /\ away' = away \ {s}
            /\ excused' = excused \ {s}
            /\ untold' = untold \ {s}
      BY <2>1
    <3>2. s \in Sessions /\ cached[h] \notin away /\ r.open = open \ {cached[h]}
      BY <1>2, <1>3, BindingsAssumption DEF LuaInv, Cached
    <3>3. Cached'
      BY <1>2, <3>1, <3>2, BindingsAssumption DEF LuaInv, Cached
    <3>4. \A s2 \in open' : (\E g \in alive' : cached'[g] = s2) \/ s2 \in away' \cup excused' \cup untold'
      BY <1>2, <3>1, <3>2, BindingsAssumption DEF LuaInv
    <3>5. QED
      BY <1>2, <3>1, <3>2, <3>3, <3>4, BindingsAssumption DEF LuaInv
  <2>2. CASE /\ \E s \in fresh : /\ fresh' = fresh \ {s}
                                 /\ open' = r.open \cup {s}
                                 /\ untold' = untold \cup {s}
             /\ L!Forget(h) /\ UNCHANGED <<away, excused>>
    <3>1. PICK s \in fresh : /\ fresh' = fresh \ {s}
                             /\ open' = r.open \cup {s}
                             /\ untold' = untold \cup {s}
      BY <2>2
    <3>2. /\ cached' = [cached EXCEPT ![h] = NoSession] /\ cached[h] \notin away
          /\ r.open = open \ {cached[h]} /\ UNCHANGED <<away, excused>>
      BY <1>2, <1>3, <2>2, BindingsAssumption DEF LuaInv, Cached, L!Forget
    <3>3. Cached'
      BY <1>2, <3>2, BindingsAssumption DEF LuaInv, Cached
    <3>4. QED
      BY <1>2, <3>1, <3>2, <3>3, BindingsAssumption DEF LuaInv
  <2>3. CASE L!Forget(h) /\ open' = r.open /\ excused' = excused \cup L!Excuse(r, h)
             /\ UNCHANGED <<fresh, away, untold>>
    <3>1. /\ cached' = [cached EXCEPT ![h] = NoSession] /\ cached[h] \notin away
          /\ open \ {cached[h]} \subseteq open' /\ open' \subseteq open
          /\ cached[h] \in open' => cached[h] \in excused'
          /\ excused \subseteq excused' /\ excused' \subseteq Sessions
      BY <1>2, <1>3, <2>3, BindingsAssumption DEF LuaInv, Cached, L!Forget, L!Excuse
    <3>2. Cached'
      BY <1>2, <2>3, <3>1, BindingsAssumption DEF LuaInv, Cached
    <3>3. QED
      BY <1>2, <2>3, <3>1, <3>2, BindingsAssumption DEF LuaInv
  <2>4. QED
    BY <1>1, <2>1, <2>2, <2>3
<1>4. CASE cached[h] # NoSession /\ ~r.ok
  BY <1>1, <1>2, <1>4, BindingsAssumption DEF LuaInv, L!Forget, L!Excuse, Cached
<1>5. QED
  BY <1>2, <1>3, <1>4

LEMMA LuaReleases == ASSUME LuaInv, NEW h \in Handles, L!l_release(h) PROVE LuaInv'
<1>1. PICK s \in {cached[h]} \cup (Sessions \ fresh) :
        /\ s # NoSession
        /\ open' = open \ {s}
        /\ cached' = [cached EXCEPT ![h] = NoSession]
        /\ away' = away \ {s}
        /\ excused' = excused \cup ({cached[h]} \ {s, NoSession})
  BY DEF L!l_release, L!Forget
<1>2. UNCHANGED <<alive, fresh, untold>> /\ s \in Sessions /\ h \in alive
  BY <1>1 DEF L!l_release, L!Live, LuaInv
<1>3. Cached'
  BY <1>1, <1>2 DEF LuaInv, Cached
<1>4. \A s2 \in open' : (\E g \in alive' : cached'[g] = s2) \/ s2 \in away' \cup excused' \cup untold'
  BY <1>1, <1>2, BindingsAssumption DEF LuaInv
<1>5. QED
  BY <1>1, <1>2, <1>3, <1>4 DEF LuaInv

LEMMA LuaDetaches == ASSUME LuaInv, NEW h \in Handles, L!l_detach(h) PROVE LuaInv'
<1>1. /\ h \in alive /\ cached[h] # NoSession /\ cached' = [cached EXCEPT ![h] = NoSession]
      /\ away' = away \cup (({cached[h]} \cap open) \ {cached[g] : g \in Handles \ {h}})
      /\ UNCHANGED <<alive, open, fresh, excused, untold>>
  BY DEF L!l_detach, L!Forget, L!Live
<1>2. \A g \in Handles \ {h} : cached'[g] = cached[g]
  BY <1>1 DEF LuaInv
<1>3. cached'[h] = NoSession
  BY <1>1 DEF LuaInv
<1>4. Cached'
  BY <1>1, <1>2, <1>3 DEF LuaInv, Cached
<1>5. \A s \in open' : (\E g \in alive' : cached'[g] = s) \/ s \in away' \cup excused' \cup untold'
  BY <1>1, <1>2, <1>3 DEF LuaInv, Cached
<1>6. QED
  BY <1>1, <1>4, <1>5, BindingsAssumption DEF LuaInv

LEMMA LuaFrees == ASSUME LuaInv, NEW h \in Handles, L!release_resource(h) PROVE LuaInv'
<1>1. PICK r \in L!Released(cached[h]) :
        open' = r.open /\ excused' = excused \cup L!Excuse(r, h)
  BY DEF L!release_resource
<1>2. /\ h \in alive /\ cached' = [cached EXCEPT ![h] = NoSession] /\ alive' = alive \ {h}
      /\ UNCHANGED <<fresh, away, untold>>
  BY DEF L!release_resource, L!Forget, L!Live
<1>3. \/ open' = open \ {cached[h]} /\ excused' = excused
      \/ /\ open' \in {open, open \ {cached[h]}}
         /\ excused' = excused \cup ({cached[h]} \ {NoSession})
  <2>1. CASE r = [ok |-> TRUE, open |-> open \ {cached[h]}]
    BY <1>1, <2>1 DEF L!Excuse
  <2>2. CASE \/ r = [ok |-> FALSE, open |-> open \ {cached[h]}]
             \/ r = [ok |-> FALSE, open |-> open]
    BY <1>1, <2>2 DEF L!Excuse
  <2>3. QED
    BY <2>1, <2>2 DEF L!Released
<1>4. cached[h] \notin away
  BY <1>2, BindingsAssumption DEF LuaInv, Cached
<1>5. Cached'
  BY <1>2 DEF LuaInv, Cached
<1>6. \A s \in open' : (\E g \in alive' : cached'[g] = s) \/ s \in away' \cup excused' \cup untold'
  BY <1>2, <1>3, <1>4, BindingsAssumption DEF LuaInv
<1>7. QED
  BY <1>2, <1>3, <1>4, <1>5, <1>6, BindingsAssumption DEF LuaInv

LEMMA LuaNext == ASSUME LuaInv, [L!Next]_luaVars PROVE LuaInv'
<1>1. CASE L!Expire
  BY <1>1 DEF L!Expire, LuaInv, Cached
<1>2. ASSUME NEW h \in Handles, L!l_qrmi_new(h) \/ L!l_qrmi_new_from_config(h)
      PROVE  LuaInv'
  BY <1>2 DEF L!l_qrmi_new, L!l_qrmi_new_from_config, L!Live, LuaInv, Cached
<1>3. CASE UNCHANGED luaVars
  BY <1>3 DEF luaVars, LuaInv, Cached
<1>4. QED
  BY <1>1, <1>2, <1>3, LuaAcquires, LuaReleases, LuaDetaches, LuaFrees
  DEF L!Next, L!l_resource_free, L!l_resource_gc

LEMMA LuaStarts == L!LuaInit => LuaInv
  BY DEF L!LuaInit, LuaInv, Cached

LEMMA LuaPromises == LuaInv => L!TypeOK /\ L!SessionsAccounted
  BY DEF LuaInv, L!TypeOK, L!SessionsAccounted

(***************************************************************************)
(* Python.                                                                 *)
(***************************************************************************)

\* A thread that holds the GIL runs Python code, or waits for the runtime of the
\* service to end, or for the lock of the log sink.
PyInv ==
  /\ P!TypeOK
  /\ \A t \in Threads :
       gil = t => at[t] \in {"code", "built", "drop", "reads", "writes", "callback"}

LEMMA RuntimesAreNoThreads == \A r \in P!Runtimes : r \notin Threads /\ Nobody \notin Threads
  BY BindingsAssumption, KindsAssumption DEF P!Runtimes

LEMMA PyThreadSteps ==
  ASSUME PyInv, SinkInv, NEW t \in Threads,
         \/ P!LetGo(t) \/ P!Attach(t)
         \/ P!PyQuantumResource_new(t) \/ P!PyQuantumResource_from_config(t)
         \/ P!PyResourceProvider_new(t)
         \/ P!PyQuantumResource_methods(t) \/ P!PyResourceProvider_methods(t) \/ P!Returns(t)
         \/ P!PyQuantumResource_drop(t)
         \/ P!PyQRMIService_new(t) \/ P!DropServiceRuntime(t) \/ P!Dropped(t)
         \/ P!Records(t) \/ P!CallbackReturns(t)
         \/ P!set_log_callback(t) \/ P!ReplaceSink(t) \/ P!DestructorReturns(t)
  PROVE  PyInv' /\ SinkInv'
<1>1. P!Object(t) \in P!Runtimes /\ P!Service(t) \in P!Runtimes /\ Nobody \notin Threads
  BY BindingsAssumption DEF P!Object, P!Service, P!Runtimes
<1>2. CASE P!LetGo(t) \/ P!Attach(t) \/ P!Dropped(t) \/ P!Returns(t) \/ P!DropServiceRuntime(t)
  BY <1>1, <1>2 DEF P!LetGo, P!Attach, P!Dropped, P!Returns, P!DropServiceRuntime, P!Runs, P!Goes,
     P!Turns, P!sinkVars, PyInv, P!TypeOK, SinkInv, P!At, P!Work
<1>3. CASE \/ P!PyQuantumResource_new(t) \/ P!PyQuantumResource_from_config(t)
           \/ P!PyResourceProvider_new(t)
  BY <1>1, <1>3 DEF P!PyQuantumResource_new, P!PyQuantumResource_from_config,
     P!PyResourceProvider_new, P!Makes, P!Goes, P!sinkVars, PyInv, P!TypeOK, SinkInv, P!At
<1>4. CASE P!PyQuantumResource_methods(t) \/ P!PyResourceProvider_methods(t) \/ P!PyQRMIService_new(t)
  BY <1>1, <1>4 DEF P!PyQuantumResource_methods, P!PyResourceProvider_methods, P!PyQRMIService_new,
     P!Blocks, P!Runs, P!Goes, P!Turns, P!sinkVars, PyInv, P!TypeOK, SinkInv, P!At, P!Work
<1>5. CASE P!PyQuantumResource_drop(t)
  BY <1>1, <1>5 DEF P!PyQuantumResource_drop, P!ShutDown, P!Runs, P!Turns, P!sinkVars, PyInv,
     P!TypeOK, SinkInv, P!Work
<1>6. CASE P!Records(t) \/ P!CallbackReturns(t)
  BY <1>6 DEF P!Records, P!CallbackReturns, P!DispatchToSink, P!SinkReturned, P!Goes, P!sinkVars,
     PyInv, P!TypeOK, SinkInv, P!At
<1>7. CASE P!set_log_callback(t) \/ P!DestructorReturns(t)
  BY <1>7 DEF P!set_log_callback, P!DestructorReturns, P!SinkDropped, P!Runs, P!Goes, P!sinkVars,
     P!pyVars, PyInv, P!TypeOK, SinkInv, P!At
<1>8. CASE P!ReplaceSink(t)
  BY <1>8 DEF P!ReplaceSink, P!SetLogSink, P!Goes, P!PySinks, PyInv, P!TypeOK, SinkInv, P!At
<1>9. QED
  BY <1>2, <1>3, <1>4, <1>5, <1>6, <1>7, <1>8

LEMMA PyWorkerSteps ==
  ASSUME PyInv, SinkInv, NEW r \in P!Runtimes,
         \/ P!WantsToLog(r) \/ P!FindsSink(r)
         \/ P!python_log_sink(r) \/ P!Logged(r) \/ P!WorkDone(r)
  PROVE  PyInv' /\ SinkInv'
<1>1. CASE P!WantsToLog(r) \/ P!FindsSink(r)
  BY <1>1 DEF P!WantsToLog, P!FindsSink, P!DispatchToSink, P!sinkVars, PyInv, P!TypeOK, SinkInv
<1>2. CASE P!python_log_sink(r)
  BY <1>2, RuntimesAreNoThreads DEF P!python_log_sink, P!sinkVars, PyInv, P!TypeOK, SinkInv
<1>3. CASE P!Logged(r)
  BY <1>3, RuntimesAreNoThreads DEF P!Logged, P!SinkReturned, PyInv, P!TypeOK, SinkInv
<1>4. CASE P!WorkDone(r)
  BY <1>4 DEF P!WorkDone, P!Turns, P!sinkVars, PyInv, P!TypeOK, SinkInv, P!Work
<1>5. QED
  BY <1>1, <1>2, <1>3, <1>4

LEMMA PyNext == ASSUME PyInv, SinkInv, P!Next PROVE PyInv' /\ SinkInv'
  BY PyThreadSteps, PyWorkerSteps DEF P!Next

\* Without a writer, who waits for a worker holds the GIL only at the end of QRMIService().
LEMMA PyPromises == PyInv /\ SinkInv => P!TypeOK /\ P!NobodyStuck
  BY BindingsAssumption DEF PyInv, SinkInv, P!NobodyStuck, P!Stuck, P!Waits

(***************************************************************************)
(* C: the errors of threads.                                               *)
(***************************************************************************)

\* What a thread was told of its last error is what it reads.
Mine(to, over, kind, msg) ==
  to # "none" => msg = to /\ (to \in C!Kinds /\ ~over => kind = to)

\* The calls of a thread that have met an error: none, one, or one of the log
\* callback in one of the program.  The outermost one has recorded its kind.
Recording(f) == f \in C!Frame /\ f.step # "write"

Stacked(fs, to, over, kind, msg) ==
  \/ fs = << >> /\ Mine(to, over, kind, msg)
  \/ \E f \in C!Frame : f.step = "write" /\ fs = <<f>> /\ Mine(to, over, kind, msg)
  \/ \E f \in C!Frame : /\ Recording(f) /\ fs = <<f>> /\ to = "none"
                        /\ f.err \in C!Kinds /\ ~over => kind = f.err
  \/ \E f, g \in C!Frame : /\ Recording(g) /\ g.step = "callback" /\ fs = <<f, g>> /\ to = "none"
                           /\ g.err \in C!Kinds /\ ~over => kind = g.err

ErrorInv ==
  /\ \A t \in Threads : Stacked(frames[t], told[t], crossed[t], lastKind[t], lastMsg[t])
  /\ frames = [t \in Threads |-> frames[t]]
  /\ lastKind \in [Threads -> C!Kinds] /\ lastMsg \in [Threads -> C!Errors \cup {"none"}]
  /\ told \in [Threads -> C!Errors \cup {"none"}] /\ crossed \in [Threads -> BOOLEAN]

\* One or two frames, innermost first.
LEMMA Tuples ==
  \A f, g : /\ Head(<<f>>) = f /\ Head(<<f, g>>) = f
            /\ Tail(<<f>>) = << >> /\ Tail(<<f, g>>) = <<g>>
            /\ <<f>> \o << >> = <<f>> /\ <<f>> \o <<g>> = <<f, g>>
            /\ Len(<< >>) = 0 /\ Len(<<f>>) = 1 /\ Len(<<f, g>>) = 2
            /\ <<f>> # << >> /\ <<f, g>> # << >>
<1>1. TAKE f, g
<1>2. <<f>> \o <<g>> = <<f, g>>
  <2>1. <<f>> \in Seq({f, g}) /\ <<g>> \in Seq({f, g}) /\ <<f, g>> \in Seq({f, g})
    OBVIOUS
  <2>2. <<f>> \o <<g>> \in Seq({f, g}) /\ Len(<<f>> \o <<g>>) = 2 /\ Len(<<f, g>>) = 2
    BY <2>1
  <2>3. (<<f>> \o <<g>>)[1] = f /\ (<<f>> \o <<g>>)[2] = g
    BY <2>1
  <2>4. \A i \in 1..2 : (<<f>> \o <<g>>)[i] = <<f, g>>[i]
    BY <2>3
  <2>5. QED
    BY <2>1, <2>2, <2>4, SeqEqual
<1>3. QED
  BY <1>2

\* The frames of C.
LEMMA FrameIs ==
  /\ \A f \in C!Frame : /\ f.step \in {"log", "callback", "store", "write"}
                        /\ f.step # "write" => f.err \in C!Errors
                        /\ f.step = "write" => f.sets \in Sinks \cup {NoSink}
  /\ \A step \in {"log", "callback", "store"}, err \in C!Errors :
       LET f == [step |-> step, err |-> err]
       IN f \in C!Frame /\ Recording(f) /\ f.step = step /\ f.err = err
  /\ \A f \in C!Frame, step \in {"log", "callback", "store"} : Recording(f) =>
       LET g == [f EXCEPT !.step = step]
       IN g \in C!Frame /\ Recording(g) /\ g.step = step /\ g.err = f.err
  /\ \A s \in Sinks \cup {NoSink} :
       LET f == [step |-> "write", sets |-> s]
       IN f \in C!Frame /\ f.step = "write" /\ f.sets = s
  BY DEF C!Frame, Recording

\* A call of one thread leaves the errors of the others alone.
LEMMA OneThread ==
  ASSUME ErrorInv, NEW t \in Threads, NEW fs, NEW to \in C!Errors \cup {"none"},
         NEW over \in BOOLEAN, NEW kind \in C!Kinds, NEW msg \in C!Errors \cup {"none"},
         Stacked(fs, to, over, kind, msg),
         frames' = [frames EXCEPT ![t] = fs], told' = [told EXCEPT ![t] = to],
         crossed' = [crossed EXCEPT ![t] = over], lastKind' = [lastKind EXCEPT ![t] = kind],
         lastMsg' = [lastMsg EXCEPT ![t] = msg]
  PROVE  ErrorInv'
<1>1. /\ frames' = [u \in Threads |-> frames'[u]]
      /\ lastKind' \in [Threads -> C!Kinds] /\ lastMsg' \in [Threads -> C!Errors \cup {"none"}]
      /\ told' \in [Threads -> C!Errors \cup {"none"}] /\ crossed' \in [Threads -> BOOLEAN]
  BY DEF ErrorInv
<1>2. ASSUME NEW u \in Threads
      PROVE  Stacked(frames'[u], told'[u], crossed'[u], lastKind'[u], lastMsg'[u])
  <2>1. CASE u = t
    <3>1. /\ frames'[u] = fs /\ told'[u] = to /\ crossed'[u] = over /\ lastKind'[u] = kind
          /\ lastMsg'[u] = msg
      BY <2>1 DEF ErrorInv
    <3>2. QED
      BY <3>1
  <2>2. CASE u # t
    <3>1. /\ frames'[u] = frames[u] /\ told'[u] = told[u] /\ crossed'[u] = crossed[u]
          /\ lastKind'[u] = lastKind[u] /\ lastMsg'[u] = lastMsg[u]
      BY <2>2 DEF ErrorInv
    <3>2. QED
      BY <3>1 DEF ErrorInv
  <2>3. QED
    BY <2>1, <2>2
<1>3. QED
  BY <1>1, <1>2 DEF ErrorInv

\* What holds of a thread's errors, before its next step.
LEMMA ErrorFacts ==
  ASSUME ErrorInv, NEW t \in Threads
  PROVE  /\ Stacked(frames[t], told[t], crossed[t], lastKind[t], lastMsg[t])
         /\ lastKind[t] \in C!Kinds /\ lastMsg[t] \in C!Errors \cup {"none"}
         /\ told[t] \in C!Errors \cup {"none"} /\ crossed[t] \in BOOLEAN
         /\ frames = [frames EXCEPT ![t] = frames[t]] /\ told = [told EXCEPT ![t] = told[t]]
         /\ crossed = [crossed EXCEPT ![t] = crossed[t]]
         /\ lastKind = [lastKind EXCEPT ![t] = lastKind[t]]
         /\ lastMsg = [lastMsg EXCEPT ![t] = lastMsg[t]]
  BY DEF ErrorInv

\* Nothing but the calls of one thread changes.
LEMMA FramesOnly ==
  ASSUME ErrorInv, NEW t \in Threads, NEW fs,
         Stacked(fs, told[t], crossed[t], lastKind[t], lastMsg[t]),
         frames' = [frames EXCEPT ![t] = fs], UNCHANGED <<lastKind, lastMsg, told, crossed>>
  PROVE  ErrorInv'
<1>1. ASSUME NEW u \in Threads
      PROVE  Stacked(frames'[u], told'[u], crossed'[u], lastKind'[u], lastMsg'[u])
  <2>1. CASE u = t
    <3>1. frames'[u] = fs
      BY <2>1 DEF ErrorInv
    <3>2. QED
      BY <2>1, <3>1
  <2>2. CASE u # t
    <3>1. frames'[u] = frames[u]
      BY <2>2 DEF ErrorInv
    <3>2. QED
      BY <3>1 DEF ErrorInv
  <2>3. QED
    BY <2>1, <2>2
<1>2. QED
  BY <1>1 DEF ErrorInv

\* Who may call has no call that has met an error, or a callback that runs.
LEMMA Callers ==
  ASSUME ErrorInv, NEW t \in Threads, C!MayCall(t)
  PROVE  \/ frames[t] = << >>
         \/ \E g \in C!Frame : /\ Recording(g) /\ g.step = "callback" /\ frames[t] = <<g>>
                               /\ told[t] = "none"
                               /\ g.err \in C!Kinds /\ ~crossed[t] => lastKind[t] = g.err
<1>1. CASE frames[t] = << >>
  BY <1>1
<1>2. CASE frames[t] # << >>
  <2>1. frames[t] # << >> /\ Head(frames[t]).step = "callback" /\ Len(frames[t]) < 2
    BY <1>2 DEF C!MayCall, C!Outermost, C!Inside, C!MaxDepth
  <2>2. Stacked(frames[t], told[t], crossed[t], lastKind[t], lastMsg[t])
    BY ErrorFacts
  <2>3. QED
    BY <2>1, <2>2, Tuples DEF Stacked, Recording
<1>3. QED
  BY <1>1, <1>2

\* A call meets an error: its kind, if it has one, is recorded at once.
LEMMA ErrorMet ==
  ASSUME ErrorInv, NEW t \in Threads, C!MayCall(t), NEW err \in C!Errors,
         NEW kind \in C!Kinds, err \in C!Kinds => kind = err,
         lastKind' = [lastKind EXCEPT ![t] = kind], C!SetLastError(t, err)
  PROVE  ErrorInv'
<1> DEFINE f == [step |-> "log", err |-> err]
           to == IF C!Outermost(t) THEN "none" ELSE told[t]
           over == ~C!Outermost(t)
<1>1. f \in C!Frame /\ Recording(f) /\ f.step = "log" /\ f.err = err
  BY FrameIs
<1>2. Stacked(<<f>> \o frames[t], to, over, kind, lastMsg[t])
  <2>1. CASE frames[t] = << >>
    BY <1>1, <2>1, Tuples DEF Stacked, C!Outermost
  <2>2. CASE frames[t] # << >>
    <3>1. PICK g \in C!Frame : /\ Recording(g) /\ g.step = "callback" /\ frames[t] = <<g>>
                               /\ told[t] = "none"
      BY <2>2, Callers
    <3>2. <<f>> \o frames[t] = <<f, g>> /\ to = "none" /\ over
      BY <2>2, <3>1, Tuples DEF C!Outermost
    <3>3. QED
      BY <1>1, <3>1, <3>2 DEF Stacked
  <2>3. QED
    BY <2>1, <2>2
<1>3. /\ frames' = [frames EXCEPT ![t] = <<f>> \o frames[t]] /\ told' = [told EXCEPT ![t] = to]
      /\ crossed' = [crossed EXCEPT ![t] = over] /\ lastMsg' = [lastMsg EXCEPT ![t] = lastMsg[t]]
  BY ErrorFacts DEF C!SetLastError, C!Push, ErrorInv
<1>4. to \in C!Errors \cup {"none"} /\ over \in BOOLEAN /\ lastMsg[t] \in C!Errors \cup {"none"}
  BY ErrorFacts
<1>5. QED
  BY <1>2, <1>3, <1>4, OneThread

LEMMA Failures ==
  ASSUME ErrorInv, SinkFree, NEW t \in Threads, C!MayCall(t),
         (\E kind \in C!Kinds : C!Fail(t, kind)) \/ C!FailWithText(t)
  PROVE  ErrorInv' /\ SinkFree' /\ UNCHANGED <<C!heapVars, crew, room>>
<1>1. ASSUME NEW kind \in C!Kinds, C!Fail(t, kind)
      PROVE  ErrorInv' /\ SinkFree' /\ UNCHANGED <<C!heapVars, crew, room>>
  <2>1. kind \in C!Errors /\ lastKind' = [lastKind EXCEPT ![t] = kind]
    BY <1>1 DEF C!Fail, C!RecordKind, C!Errors
  <2>2. C!SetLastError(t, kind) /\ UNCHANGED C!heapVars
    BY <1>1 DEF C!Fail
  <2>3. ErrorInv'
    BY <2>1, <2>2, ErrorMet
  <2>4. QED
    BY <2>2, <2>3 DEF C!SetLastError, C!sinkVars, SinkFree
<1>2. CASE C!FailWithText(t)
  <2>1. "text" \in C!Errors /\ "text" \notin C!Kinds
    BY DEF C!Errors, C!Kinds
  <2>2. lastKind[t] \in C!Kinds /\ lastKind' = [lastKind EXCEPT ![t] = lastKind[t]]
    BY <1>2, ErrorFacts DEF C!FailWithText
  <2>3. C!SetLastError(t, "text") /\ UNCHANGED C!heapVars
    BY <1>2 DEF C!FailWithText
  <2>4. ErrorInv'
    BY <2>1, <2>2, <2>3, ErrorMet
  <2>5. QED
    BY <2>3, <2>4 DEF C!SetLastError, C!sinkVars, SinkFree
<1>3. QED
  BY <1>1, <1>2

\* The innermost frame goes from one step of its recording to the next.
LEMMA StepTaken ==
  ASSUME ErrorInv, NEW t \in Threads, NEW from \in {"log", "callback"},
         NEW step \in {"callback", "store"}, C!Inside(t, from), C!Step(t, step),
         UNCHANGED <<lastKind, lastMsg, told, crossed>>
  PROVE  ErrorInv'
<1> DEFINE h == Head(frames[t])
           f == [h EXCEPT !.step = step]
           fs == <<f>> \o Tail(frames[t])
<1>1. frames[t] # << >> /\ h.step = from /\ from # "write"
  BY DEF C!Inside
<1>2. Stacked(frames[t], told[t], crossed[t], lastKind[t], lastMsg[t])
  BY ErrorFacts
<1>3. Stacked(fs, told[t], crossed[t], lastKind[t], lastMsg[t])
  <2>1. CASE \E g \in C!Frame : /\ Recording(g) /\ frames[t] = <<g>> /\ told[t] = "none"
                                /\ g.err \in C!Kinds /\ ~crossed[t] => lastKind[t] = g.err
    <3>1. PICK g \in C!Frame : /\ Recording(g) /\ frames[t] = <<g>> /\ told[t] = "none"
                               /\ g.err \in C!Kinds /\ ~crossed[t] => lastKind[t] = g.err
      BY <2>1
    <3>2. h = g /\ Tail(frames[t]) = << >> /\ fs = <<f>>
      BY <3>1, Tuples
    <3>3. f \in C!Frame /\ Recording(f) /\ f.err = g.err
      <4>1. f = [g EXCEPT !.step = step] /\ step \in {"log", "callback", "store"}
        BY <3>2
      <4>2. g \in [step : {"log", "callback", "store"}, err : C!Errors]
        BY <3>1 DEF C!Frame, Recording
      <4>3. QED
        BY <4>1, <4>2 DEF C!Frame, Recording
    <3>4. QED
      BY <3>1, <3>2, <3>3 DEF Stacked
  <2>2. CASE \E f2, g \in C!Frame :
               /\ Recording(g) /\ g.step = "callback" /\ frames[t] = <<f2, g>> /\ told[t] = "none"
               /\ g.err \in C!Kinds /\ ~crossed[t] => lastKind[t] = g.err
    <3>1. PICK f2, g \in C!Frame :
               /\ Recording(g) /\ g.step = "callback" /\ frames[t] = <<f2, g>> /\ told[t] = "none"
               /\ g.err \in C!Kinds /\ ~crossed[t] => lastKind[t] = g.err
      BY <2>2
    <3>2. h = f2 /\ Tail(frames[t]) = <<g>> /\ fs = <<f, g>>
      BY <3>1, Tuples
    <3>3. f \in C!Frame
      BY <1>1, <3>1, <3>2, FrameIs DEF Recording
    <3>4. QED
      BY <3>1, <3>2, <3>3 DEF Stacked
  <2>3. QED
    BY <1>1, <1>2, <2>1, <2>2, Tuples DEF Stacked
<1>4. frames' = [frames EXCEPT ![t] = fs]
  BY DEF C!Step, ErrorInv
<1>5. QED
  BY <1>3, <1>4, FramesOnly

LEMMA Logs ==
  ASSUME ErrorInv, SinkFree, NEW t \in Threads, C!Log(t) \/ C!CallbackReturns(t)
  PROVE  ErrorInv' /\ SinkFree' /\ UNCHANGED <<C!heapVars, crew, room>>
<1>1. CASE C!Log(t)
  <2>1. ErrorInv'
    BY <1>1, StepTaken DEF C!Log
  <2>2. QED
    BY <1>1, <2>1 DEF C!Log, C!DispatchToSink, C!sinkVars, SinkFree
<1>2. CASE C!CallbackReturns(t)
  <2>1. ErrorInv'
    BY <1>2, StepTaken DEF C!CallbackReturns
  <2>2. QED
    BY <1>2, <2>1 DEF C!CallbackReturns, C!SinkReturned, SinkFree
<1>3. QED
  BY <1>1, <1>2

\* The call that has recorded its error returns: to the program, which is told, or to
\* the log callback.
LEMMA Stores ==
  ASSUME ErrorInv, SinkFree, NEW t \in Threads, C!StoreMessage(t)
  PROVE  ErrorInv' /\ SinkFree' /\ UNCHANGED <<C!heapVars, crew, room>>
<1> DEFINE h == Head(frames[t])
           to == IF Len(frames[t]) = 1 THEN h.err ELSE told[t]
<1>1. /\ frames[t] # << >> /\ h.step = "store"
      /\ frames' = [frames EXCEPT ![t] = Tail(frames[t])]
      /\ lastMsg' = [lastMsg EXCEPT ![t] = h.err] /\ told' = [told EXCEPT ![t] = to]
      /\ UNCHANGED <<lastKind, crossed, crew, room, sink, readers, writer>> /\ UNCHANGED C!heapVars
  BY DEF C!StoreMessage, C!Inside, C!Pop, C!sinkVars, ErrorInv
<1>2. Stacked(frames[t], told[t], crossed[t], lastKind[t], lastMsg[t])
  BY ErrorFacts
<1>3. h.err \in C!Errors /\ Stacked(Tail(frames[t]), to, crossed[t], lastKind[t], h.err)
  <2>1. CASE \E g \in C!Frame : /\ Recording(g) /\ frames[t] = <<g>> /\ told[t] = "none"
                                /\ g.err \in C!Kinds /\ ~crossed[t] => lastKind[t] = g.err
    <3>1. PICK g \in C!Frame : /\ Recording(g) /\ frames[t] = <<g>>
                               /\ g.err \in C!Kinds /\ ~crossed[t] => lastKind[t] = g.err
      BY <2>1
    <3>2. h = g /\ Tail(frames[t]) = << >> /\ to = g.err /\ g.err \in C!Errors
      BY <3>1, Tuples, FrameIs DEF Recording
    <3>3. QED
      BY <3>1, <3>2 DEF Stacked, Mine
  <2>2. CASE \E f2, g \in C!Frame :
               /\ Recording(g) /\ g.step = "callback" /\ frames[t] = <<f2, g>> /\ told[t] = "none"
               /\ g.err \in C!Kinds /\ ~crossed[t] => lastKind[t] = g.err
    <3>1. PICK f2, g \in C!Frame :
               /\ Recording(g) /\ g.step = "callback" /\ frames[t] = <<f2, g>> /\ told[t] = "none"
               /\ g.err \in C!Kinds /\ ~crossed[t] => lastKind[t] = g.err
      BY <2>2
    <3>2. h = f2 /\ Tail(frames[t]) = <<g>> /\ to = "none" /\ f2.err \in C!Errors
      BY <1>1, <3>1, Tuples, FrameIs
    <3>3. QED
      BY <3>1, <3>2 DEF Stacked
  <2>3. QED
    BY <1>1, <1>2, <2>1, <2>2, Tuples DEF Stacked
<1>4. to \in C!Errors \cup {"none"} /\ h.err \in C!Errors \cup {"none"}
  BY <1>3, ErrorFacts
<1>5. /\ lastKind' = [lastKind EXCEPT ![t] = lastKind[t]]
      /\ crossed' = [crossed EXCEPT ![t] = crossed[t]]
      /\ lastKind[t] \in C!Kinds /\ crossed[t] \in BOOLEAN
  BY <1>1, ErrorFacts
<1> DEFINE tail == Tail(frames[t])
           err == h.err
<1>6. ErrorInv'
  <2>1. /\ Stacked(tail, to, crossed[t], lastKind[t], err)
        /\ to \in C!Errors \cup {"none"} /\ err \in C!Errors \cup {"none"}
        /\ crossed[t] \in BOOLEAN /\ lastKind[t] \in C!Kinds
    BY <1>3, <1>4, <1>5
  <2>2. /\ frames' = [frames EXCEPT ![t] = tail] /\ told' = [told EXCEPT ![t] = to]
        /\ crossed' = [crossed EXCEPT ![t] = crossed[t]]
        /\ lastKind' = [lastKind EXCEPT ![t] = lastKind[t]]
        /\ lastMsg' = [lastMsg EXCEPT ![t] = err]
    BY <1>1, <1>5
  <2> HIDE DEF h, to, tail, err
  <2>3. QED
    BY <2>1, <2>2, OneThread
<1>7. QED
  BY <1>1, <1>6 DEF SinkFree

\* The program, or a log callback, replaces the log callback.
LEMMA Replaces ==
  ASSUME ErrorInv, SinkFree, NEW t \in Threads, C!qrmi_log_callback_set(t) \/ C!ReplaceSink(t)
  PROVE  ErrorInv' /\ SinkFree' /\ UNCHANGED <<C!heapVars, crew, room>>
<1>1. CASE C!qrmi_log_callback_set(t)
  <2>1. /\ C!MayCall(t)
        /\ UNCHANGED <<lastKind, lastMsg, told, crossed, crew, room, sink, readers, writer>>
        /\ UNCHANGED C!heapVars
    BY <1>1 DEF C!qrmi_log_callback_set, C!sinkVars
  <2>2. PICK s \in Sinks \cup {NoSink} : C!Push(t, [step |-> "write", sets |-> s])
    BY <1>1 DEF C!qrmi_log_callback_set
  <2> DEFINE f == [step |-> "write", sets |-> s]
  <2>3. f \in C!Frame /\ f.step = "write"
    BY FrameIs
  <2>4. frames' = [frames EXCEPT ![t] = <<f>> \o frames[t]]
    BY <2>2 DEF C!Push, ErrorInv
  <2>5. Stacked(<<f>> \o frames[t], told[t], crossed[t], lastKind[t], lastMsg[t])
    <3>1. CASE frames[t] = << >>
      <4>1. Mine(told[t], crossed[t], lastKind[t], lastMsg[t])
        BY <3>1, ErrorFacts, Tuples DEF Stacked
      <4>2. QED
        BY <2>3, <3>1, <4>1, Tuples DEF Stacked
    <3>2. CASE frames[t] # << >>
      <4>1. PICK g \in C!Frame : /\ Recording(g) /\ g.step = "callback" /\ frames[t] = <<g>>
                                 /\ told[t] = "none"
                                 /\ g.err \in C!Kinds /\ ~crossed[t] => lastKind[t] = g.err
        BY <2>1, <3>2, Callers
      <4>2. <<f>> \o frames[t] = <<f, g>>
        BY <4>1, Tuples
      <4>3. QED
        BY <2>3, <4>1, <4>2 DEF Stacked
    <3>3. QED
      BY <3>1, <3>2
  <2>6. ErrorInv'
    BY <2>1, <2>4, <2>5, FramesOnly
  <2>7. QED
    BY <2>1, <2>6 DEF SinkFree
<1>2. CASE C!ReplaceSink(t)
  <2> DEFINE h == Head(frames[t])
  <2>1. /\ frames[t] # << >> /\ h.step = "write"
        /\ frames' = [frames EXCEPT ![t] = Tail(frames[t])]
        /\ sink' = h.sets /\ UNCHANGED <<readers, writer>>
        /\ UNCHANGED <<lastKind, lastMsg, told, crossed, crew, room>> /\ UNCHANGED C!heapVars
    BY <1>2 DEF C!ReplaceSink, C!Inside, C!SetLogSink, C!Pop, ErrorInv
  <2>2. h \in C!Frame /\ Stacked(Tail(frames[t]), told[t], crossed[t], lastKind[t], lastMsg[t])
    <3>1. Stacked(frames[t], told[t], crossed[t], lastKind[t], lastMsg[t])
      BY ErrorFacts
    <3>2. CASE \E f \in C!Frame :
                 /\ frames[t] = <<f>> /\ Mine(told[t], crossed[t], lastKind[t], lastMsg[t])
      <4>1. PICK f \in C!Frame :
                 /\ frames[t] = <<f>> /\ Mine(told[t], crossed[t], lastKind[t], lastMsg[t])
        BY <3>2
      <4>2. h = f /\ Tail(frames[t]) = << >>
        BY <4>1, Tuples
      <4>3. QED
        BY <4>1, <4>2 DEF Stacked
    <3>3. CASE \E f, g \in C!Frame :
                 /\ Recording(g) /\ frames[t] = <<f, g>> /\ told[t] = "none"
                 /\ g.err \in C!Kinds /\ ~crossed[t] => lastKind[t] = g.err
      <4>1. PICK f, g \in C!Frame :
                 /\ Recording(g) /\ frames[t] = <<f, g>> /\ told[t] = "none"
                 /\ g.err \in C!Kinds /\ ~crossed[t] => lastKind[t] = g.err
        BY <3>3
      <4>2. h = f /\ Tail(frames[t]) = <<g>>
        BY <4>1, Tuples
      <4>3. QED
        BY <4>1, <4>2 DEF Stacked
    <3>4. CASE \E f \in C!Frame : Recording(f) /\ frames[t] = <<f>>
      BY <2>1, <3>4, Tuples DEF Recording
    <3>5. QED
      BY <2>1, <3>1, <3>2, <3>3, <3>4 DEF Stacked
  <2>3. ErrorInv'
    BY <2>1, <2>2, FramesOnly
  <2>4. h.sets \in Sinks \cup {NoSink}
    BY <2>1, <2>2, FrameIs
  <2>5. QED
    BY <2>1, <2>3, <2>4 DEF SinkFree
<1>3. QED
  BY <1>1, <1>2

LEMMA ErrorPromises == ErrorInv => C!ErrorIsMine
<1>1. SUFFICES ASSUME ErrorInv, NEW t \in Threads, told[t] # "none", frames[t] = << >>
               PROVE  /\ lastMsg[t] = told[t]
                      /\ told[t] \in C!Kinds /\ ~crossed[t] => lastKind[t] = told[t]
  BY DEF C!ErrorIsMine, C!Outermost, C!qrmi_get_last_error, C!qrmi_get_last_error_kind
<1>2. QED
  BY <1>1, ErrorFacts, Tuples DEF Stacked, Mine

LEMMA ReplacingPromises == SinkFree => C!ReplacingNeverWaits
  BY DEF SinkFree, C!ReplacingNeverWaits

(***************************************************************************)
(* C: the memory of the program.                                           *)
(***************************************************************************)

\* What has a runtime, and what has not.
Handle == {"resource", "provider"}
Plain == C!Type \ Handle

\* Those whose runtime is r, when each has the one that h says.
UsersOf(h, r) == {o \in Objects : h[o] = r}

\* What the program holds is there, and the handles of a list belong to the list.  A
\* runtime is held by those that use it.
HeapInv ==
  /\ heap \in [Objects -> C!Type \cup {"none"}] /\ mine \in [Objects -> C!Type \cup {"none"}]
  /\ home \in [Objects -> Objects \cup {NoRuntime}] /\ refs \in [Objects -> Nat]
  /\ list \subseteq Objects
  /\ \A o \in Objects : mine[o] # "none" => heap[o] = mine[o] /\ o \notin list
  /\ \A o \in list : heap[o] = "resource"
  /\ \A o \in Objects : home[o] # NoRuntime <=> heap[o] \in Handle
  /\ \A r \in Objects : refs[r] = Cardinality(UsersOf(home, r))

LEMMA UsersFinite ==
  \A S \in SUBSET Objects : IsFiniteSet(S) /\ Cardinality(S) \in Nat
                            /\ Cardinality(S) <= Cardinality(Objects)
  BY KindsAssumption, FS_Subset, FS_CardinalityType

\* Those that get a runtime had none: it is held by so many more.
LEMMA RuntimeJoined ==
  ASSUME NEW h \in [Objects -> Objects \cup {NoRuntime}], NEW S \in SUBSET Objects,
         \A o \in S : h[o] = NoRuntime, NEW r \in Objects
  PROVE  /\ Cardinality(UsersOf(C!Fill(h, S, r), r)) = Cardinality(UsersOf(h, r)) + Cardinality(S)
         /\ \A q \in Objects \ {r} : UsersOf(C!Fill(h, S, r), q) = UsersOf(h, q)
<1>1. UsersOf(C!Fill(h, S, r), r) = UsersOf(h, r) \cup S /\ UsersOf(h, r) \cap S = {}
  BY BindingsAssumption DEF UsersOf, C!Fill
<1>2. IsFiniteSet(UsersOf(h, r)) /\ IsFiniteSet(S) /\ Cardinality({}) = 0
  BY UsersFinite, FS_EmptySet DEF UsersOf
<1>3. /\ Cardinality(UsersOf(h, r) \cup S)
           = Cardinality(UsersOf(h, r)) + Cardinality(S) - Cardinality(UsersOf(h, r) \cap S)
      /\ Cardinality(UsersOf(h, r)) \in Nat /\ Cardinality(S) \in Nat
  BY <1>2, FS_Union, FS_CardinalityType
<1>4. \A q \in Objects \ {r} : UsersOf(C!Fill(h, S, r), q) = UsersOf(h, q)
  BY BindingsAssumption DEF UsersOf, C!Fill
<1>5. Cardinality(UsersOf(h, r) \cap S) = 0
  BY <1>1, <1>2
<1>6. Cardinality(UsersOf(h, r) \cup S) = Cardinality(UsersOf(h, r)) + Cardinality(S)
  BY <1>3, <1>5
<1>7. QED
  BY <1>1, <1>4, <1>6

\* Those that are freed give up theirs.
LEMMA RuntimeLeft ==
  ASSUME NEW h \in [Objects -> Objects \cup {NoRuntime}], NEW S \in SUBSET Objects, NEW r \in Objects
  PROVE  Cardinality(UsersOf(C!Fill(h, S, NoRuntime), r))
           = Cardinality(UsersOf(h, r)) - Cardinality({o \in S : h[o] = r})
<1> DEFINE T == {o \in S : h[o] = r}
           U == UsersOf(C!Fill(h, S, NoRuntime), r)
<1>1. UsersOf(h, r) = U \cup T /\ U \cap T = {}
  BY BindingsAssumption DEF UsersOf, C!Fill
<1>2. IsFiniteSet(U) /\ IsFiniteSet(T) /\ Cardinality({}) = 0
  BY UsersFinite, FS_EmptySet DEF UsersOf
<1>3. /\ Cardinality(U \cup T) = Cardinality(U) + Cardinality(T) - Cardinality(U \cap T)
      /\ Cardinality(U) \in Nat /\ Cardinality(T) \in Nat
  BY <1>2, FS_Union, FS_CardinalityType
<1>4. QED
  BY <1>1, <1>2, <1>3

\* Objects without a runtime come and go.
LEMMA PlainSteps ==
  ASSUME HeapInv, room \subseteq Objects, NEW t \in Threads, NEW type \in Plain,
         C!Allocates(t, type) \/ C!Frees(t, type)
  PROVE  HeapInv'
<1>1. type \in C!Type /\ type \notin Handle /\ type # "none" /\ "none" \notin Handle
  BY DEF Plain, C!Type, Handle
<1>2. UNCHANGED <<home, refs, list>>
  BY DEF C!Allocates, C!Frees
<1>3. CASE C!Allocates(t, type)
  <2>1. PICK o \in Objects : heap[o] = "none" /\ C!Gives({o}, type)
    BY <1>3 DEF C!Allocates, C!Vacant
  <2>2. /\ heap' = [p \in Objects |-> IF p \in {o} THEN type ELSE heap[p]]
        /\ mine' = [p \in Objects |-> IF p \in {o} THEN type ELSE mine[p]]
    BY <2>1 DEF C!Gives, C!Fill
  <2>3. o \notin list
    BY <2>1 DEF HeapInv
  <2>4. QED
    BY <1>1, <1>2, <2>1, <2>2, <2>3 DEF HeapInv
<1>4. CASE C!Frees(t, type)
  <2>1. PICK o \in Objects : mine[o] = type /\ C!Gives({o}, "none")
    BY <1>4 DEF C!Frees, C!Holds
  <2>2. /\ heap' = [p \in Objects |-> IF p \in {o} THEN "none" ELSE heap[p]]
        /\ mine' = [p \in Objects |-> IF p \in {o} THEN "none" ELSE mine[p]]
    BY <2>1 DEF C!Gives, C!Fill
  <2>3. heap[o] = type /\ o \notin list
    BY <1>1, <2>1 DEF HeapInv
  <2>4. QED
    BY <1>1, <1>2, <2>1, <2>2, <2>3 DEF HeapInv
<1>5. QED
  BY <1>3, <1>4

\* S becomes handles of the runtime r.
LEMMA HandlesMade ==
  ASSUME HeapInv, NEW S \in SUBSET Objects, \A o \in S : heap[o] = "none",
         NEW type \in Handle, NEW r \in Objects,
         heap' = C!Fill(heap, S, type), home' = C!Fill(home, S, r),
         refs' = [refs EXCEPT ![r] = refs[r] + Cardinality(S)],
         \/ mine' = C!Fill(mine, S, type) /\ UNCHANGED list
         \/ type = "resource" /\ list = {} /\ list' = S /\ UNCHANGED mine
  PROVE  HeapInv'
<1>1. type \in C!Type /\ "none" \notin Handle /\ NoRuntime \notin Objects /\ type # "none"
  BY BindingsAssumption DEF C!Type, Handle
<1>2. \A o \in S : home[o] = NoRuntime /\ o \notin list /\ mine[o] = "none"
  BY <1>1 DEF HeapInv
<1>3. /\ heap' \in [Objects -> C!Type \cup {"none"}] /\ mine' \in [Objects -> C!Type \cup {"none"}]
      /\ home' \in [Objects -> Objects \cup {NoRuntime}]
      /\ refs' \in [Objects -> Nat]
      /\ list' \subseteq Objects
  BY <1>1, UsersFinite DEF HeapInv, C!Fill
<1>4. /\ \A o \in Objects : mine'[o] # "none" => heap'[o] = mine'[o] /\ o \notin list'
      /\ \A o \in list' : heap'[o] = "resource"
      /\ \A o \in Objects : home'[o] # NoRuntime <=> heap'[o] \in Handle
  BY <1>1, <1>2 DEF HeapInv, C!Fill
<1>5. ASSUME NEW q \in Objects PROVE refs'[q] = Cardinality(UsersOf(home', q))
  <2>1. home \in [Objects -> Objects \cup {NoRuntime}] /\ refs[q] = Cardinality(UsersOf(home, q))
    BY DEF HeapInv
  <2>2. CASE q = r
    <3>1. Cardinality(UsersOf(C!Fill(home, S, r), r)) = Cardinality(UsersOf(home, r)) + Cardinality(S)
      BY <1>2, <2>1, RuntimeJoined
    <3>2. refs'[q] = refs[r] + Cardinality(S)
      BY <2>2 DEF HeapInv
    <3>3. QED
      BY <2>1, <2>2, <3>1, <3>2
  <2>3. CASE q # r
    <3>1. UsersOf(C!Fill(home, S, r), q) = UsersOf(home, q)
      <4>1. \A p \in Objects \ {r} : UsersOf(C!Fill(home, S, r), p) = UsersOf(home, p)
        BY <1>2, <2>1, RuntimeJoined
      <4>2. QED
        BY <2>3, <4>1
    <3>2. refs'[q] = refs[q]
      BY <2>3 DEF HeapInv
    <3>3. QED
      BY <2>1, <3>1, <3>2
  <2>4. QED
    BY <2>2, <2>3
<1>6. QED
  BY <1>3, <1>4, <1>5 DEF HeapInv

\* S, the handle of a call or those of the list, is freed.
LEMMA HandlesFreed ==
  ASSUME HeapInv, NEW S \in SUBSET Objects, \A o \in S : heap[o] \in Handle,
         heap' = C!Fill(heap, S, "none"), home' = C!Fill(home, S, NoRuntime),
         refs' = [r \in Objects |-> refs[r] - Cardinality({o \in S : home[o] = r})],
         \/ mine' = C!Fill(mine, S, "none") /\ S \cap list = {} /\ UNCHANGED list
         \/ S = list /\ list' = {} /\ UNCHANGED mine
  PROVE  HeapInv'
<1>1. "none" \notin Handle /\ NoRuntime \notin Objects
  BY BindingsAssumption DEF Handle
<1>2. ASSUME NEW q \in Objects
      PROVE  refs'[q] = Cardinality(UsersOf(home', q)) /\ refs'[q] \in Nat
  <2>1. home \in [Objects -> Objects \cup {NoRuntime}] /\ refs[q] = Cardinality(UsersOf(home, q))
    BY DEF HeapInv
  <2>2. Cardinality(UsersOf(C!Fill(home, S, NoRuntime), q))
          = Cardinality(UsersOf(home, q)) - Cardinality({o \in S : home[o] = q})
    BY <2>1, RuntimeLeft
  <2>3. refs'[q] = Cardinality(UsersOf(home', q))
    BY <2>1, <2>2
  <2>4. UsersOf(C!Fill(home, S, NoRuntime), q) \in SUBSET Objects
    BY DEF UsersOf
  <2>5. QED
    BY <2>3, <2>4, UsersFinite
<1>3. /\ heap' \in [Objects -> C!Type \cup {"none"}] /\ mine' \in [Objects -> C!Type \cup {"none"}]
      /\ home' \in [Objects -> Objects \cup {NoRuntime}]
      /\ list' \subseteq Objects
  BY <1>1 DEF HeapInv, C!Fill
<1>4. refs' \in [Objects -> Nat]
  BY <1>2
<1>5. /\ \A o \in Objects : mine'[o] # "none" => heap'[o] = mine'[o] /\ o \notin list'
      /\ \A o \in list' : heap'[o] = "resource"
      /\ \A o \in Objects : home'[o] # NoRuntime <=> heap'[o] \in Handle
  BY <1>1 DEF HeapInv, C!Fill
<1>6. QED
  BY <1>2, <1>3, <1>4, <1>5 DEF HeapInv

\* A handle is made with a runtime of its own, or freed with its share of one.
LEMMA OpensAndCloses ==
  ASSUME HeapInv, room \subseteq Objects, NEW t \in Threads, NEW type \in Handle,
         C!Opens(t, type) \/ C!Closes(t, type)
  PROVE  HeapInv'
<1>1. CASE C!Opens(t, type)
  <2>1. PICK o \in Objects, r \in Objects :
          /\ heap[o] = "none" /\ refs[r] = 0
          /\ C!Gives({o}, type)
          /\ home' = [home EXCEPT ![o] = r]
          /\ refs' = [refs EXCEPT ![r] = 1]
    BY <1>1 DEF C!Opens, C!Vacant, C!Runtimes
  <2>2. home' = C!Fill(home, {o}, r)
    BY <2>1 DEF C!Fill, HeapInv
  <2>3. refs' = [refs EXCEPT ![r] = refs[r] + Cardinality({o})]
    <3>1. Cardinality({o}) = 1
      BY FS_Singleton
    <3>2. refs[r] + Cardinality({o}) = 1
      BY <2>1, <3>1
    <3>3. QED
      BY <2>1, <3>2
  <2>4. heap' = C!Fill(heap, {o}, type) /\ mine' = C!Fill(mine, {o}, type) /\ UNCHANGED list
    BY <1>1, <2>1 DEF C!Opens, C!Gives
  <2>5. {o} \in SUBSET Objects /\ \A p \in {o} : heap[p] = "none"
    BY <2>1
  <2>6. QED
    BY <2>2, <2>3, <2>4, <2>5, HandlesMade
<1>2. CASE C!Closes(t, type)
  <2>1. PICK o \in Objects :
          /\ mine[o] = type
          /\ C!Gives({o}, "none")
          /\ home' = [home EXCEPT ![o] = NoRuntime]
          /\ refs' = [refs EXCEPT ![home[o]] = @ - 1]
    BY <1>2 DEF C!Closes, C!Holds
  <2>2. heap[o] = type /\ o \notin list /\ home[o] \in Objects
    BY <2>1 DEF HeapInv, Handle
  <2>3. home' = C!Fill(home, {o}, NoRuntime)
    BY <2>1 DEF C!Fill, HeapInv
  <2>4. refs' = [r \in Objects |-> refs[r] - Cardinality({p \in {o} : home[p] = r})]
    <3>1. ASSUME NEW r \in Objects
          PROVE  refs'[r] = refs[r] - Cardinality({p \in {o} : home[p] = r})
      <4>1. CASE r = home[o]
        <5>1. {p \in {o} : home[p] = r} = {o}
          BY <4>1
        <5>2. Cardinality({p \in {o} : home[p] = r}) = 1
          BY <5>1, FS_Singleton
        <5>3. refs'[r] = refs[r] - 1
          BY <2>1, <4>1 DEF HeapInv
        <5>4. QED
          BY <5>2, <5>3
      <4>2. CASE r # home[o]
        <5>1. {p \in {o} : home[p] = r} = {}
          BY <4>2
        <5>2. Cardinality({p \in {o} : home[p] = r}) = 0
          BY <5>1, FS_EmptySet
        <5>3. refs'[r] = refs[r] /\ refs[r] \in Nat
          BY <2>1, <4>2 DEF HeapInv
        <5>4. QED
          BY <5>2, <5>3
      <4>3. QED
        BY <4>1, <4>2
    <3>2. refs' = [r \in Objects |-> refs'[r]]
      BY <2>1 DEF HeapInv
    <3>3. QED
      BY <3>1, <3>2
  <2>5. /\ heap' = C!Fill(heap, {o}, "none") /\ mine' = C!Fill(mine, {o}, "none")
        /\ UNCHANGED list /\ {o} \cap list = {}
    BY <1>2, <2>1, <2>2 DEF C!Closes, C!Gives
  <2>6. {o} \in SUBSET Objects /\ \A p \in {o} : heap[p] \in Handle
    BY <2>2
  <2>7. QED
    BY <2>3, <2>4, <2>5, <2>6, HandlesFreed
<1>3. QED
  BY <1>1, <1>2

\* A list of handles that share a runtime, and one more handle of a provider.
Lists(r) ==
  /\ list = {}
  /\ \E S \in SUBSET C!Vacant :
       /\ heap' = C!Fill(heap, S, "resource")
       /\ home' = C!Fill(home, S, r)
       /\ refs' = C!HolderOf(r, Cardinality(S))
       /\ list' = S
  /\ UNCHANGED mine

Finds(r) ==
  /\ \E o \in C!Vacant :
       /\ C!Gives({o}, "resource")
       /\ home' = [home EXCEPT ![o] = r]
  /\ refs' = C!HolderOf(r, 1)
  /\ UNCHANGED list

LEMMA ListsAndFinds ==
  ASSUME HeapInv, room \subseteq Objects, NEW r \in Objects, Lists(r) \/ Finds(r)
  PROVE  HeapInv'
<1>1. "resource" \in Handle
  BY DEF Handle
<1>2. CASE Lists(r)
  <2>1. PICK S \in SUBSET C!Vacant :
          /\ heap' = C!Fill(heap, S, "resource")
          /\ home' = C!Fill(home, S, r)
          /\ refs' = C!HolderOf(r, Cardinality(S))
          /\ list' = S
    BY <1>2 DEF Lists
  <2>2. S \in SUBSET Objects /\ \A o \in S : heap[o] = "none"
    BY DEF C!Vacant
  <2>3. refs' = [refs EXCEPT ![r] = refs[r] + Cardinality(S)]
    BY <2>1 DEF C!HolderOf, HeapInv
  <2>4. list = {} /\ UNCHANGED mine
    BY <1>2 DEF Lists
  <2>5. QED
    BY <1>1, <2>1, <2>2, <2>3, <2>4, HandlesMade
<1>3. CASE Finds(r)
  <2>1. PICK o \in C!Vacant : C!Gives({o}, "resource") /\ home' = [home EXCEPT ![o] = r]
    BY <1>3 DEF Finds
  <2>2. {o} \in SUBSET Objects /\ \A p \in {o} : heap[p] = "none"
    BY DEF C!Vacant
  <2>3. home' = C!Fill(home, {o}, r)
    BY <2>1, <2>2 DEF C!Fill, HeapInv
  <2>4. refs' = [refs EXCEPT ![r] = refs[r] + Cardinality({o})]
    <3>1. Cardinality({o}) = 1
      BY FS_Singleton
    <3>2. QED
      BY <1>3, <3>1 DEF Finds, C!HolderOf, HeapInv
  <2>5. heap' = C!Fill(heap, {o}, "resource") /\ mine' = C!Fill(mine, {o}, "resource") /\ UNCHANGED list
    BY <1>3, <2>1 DEF Finds, C!Gives
  <2>6. QED
    BY <1>1, <2>2, <2>3, <2>4, <2>5, HandlesMade
<1>4. QED
  BY <1>2, <1>3

LEMMA SameCardinality == \A S : C!Cardinality(S) = Cardinality(S)
  BY DEF C!Cardinality, Cardinality

LEMMA ListFreed ==
  ASSUME HeapInv, NEW t \in Threads, C!qrmi_provider_resources_free(t)
  PROVE  HeapInv'
<1>1. /\ heap' = C!Fill(heap, list, "none") /\ home' = C!Fill(home, list, NoRuntime)
      /\ list' = {} /\ UNCHANGED mine
  BY DEF C!qrmi_provider_resources_free
<1>2. refs' = [r \in Objects |-> refs[r] - Cardinality({o \in list : home[o] = r})]
  BY SameCardinality DEF C!qrmi_provider_resources_free, C!Runtimes
<1>3. list \in SUBSET Objects /\ \A o \in list : heap[o] \in Handle
  BY DEF HeapInv, Handle
<1>4. QED
  BY <1>1, <1>2, <1>3, HandlesFreed

(***************************************************************************)
(* C: the calls.                                                           *)
(***************************************************************************)

CInv == ErrorInv /\ HeapInv /\ crew \subseteq Threads /\ room \subseteq Objects

\* A call meets an error or succeeds: then it changes nothing but memory.
Errs(t) == C!MayCall(t) /\ ((\E kind \in C!Kinds : C!Fail(t, kind)) \/ C!FailWithText(t))

Uses(t) ==
  \/ \E type \in Plain : C!Allocates(t, type) \/ C!Frees(t, type)
  \/ \E type \in Handle : C!Opens(t, type) \/ C!Closes(t, type)
  \/ C!Succeeds(t) /\ \E r \in Objects : Lists(r) \/ Finds(r)
  \/ C!qrmi_provider_resources_free(t)

LEMMA PlainIs ==
  /\ Plain = {"string", "strings", "config", "def", "status", "capacity", "metadata"}
  /\ Handle = {"resource", "provider"}
  BY DEF Plain, Handle, C!Type

\* The provider whose handles a call makes has a runtime.
LEMMA ProviderRuns == HeapInv => \A p \in C!Holds("provider") : home[p] \in Objects
  BY DEF HeapInv, C!Holds, Handle

LEMMA ConfigCalls ==
  ASSUME NEW t \in Threads,
         \/ C!qrmi_string_free(t) \/ C!qrmi_string_array_free(t)
         \/ C!qrmi_config_load(t) \/ C!qrmi_config_free(t)
         \/ C!qrmi_config_resource_def_get(t) \/ C!qrmi_config_resource_def_free(t)
         \/ C!qrmi_config_resource_names_get(t)
         \/ C!qrmi_config_resource_type_to_str(t) \/ C!qrmi_config_resource_type_from_str(t)
  PROVE  Errs(t) \/ Uses(t)
  BY PlainIs DEF Errs, Uses, C!Kinds, C!qrmi_string_free, C!qrmi_string_array_free, C!qrmi_config_load,
     C!qrmi_config_free, C!qrmi_config_resource_def_get, C!qrmi_config_resource_def_free,
     C!qrmi_config_resource_names_get, C!qrmi_config_resource_type_to_str,
     C!qrmi_config_resource_type_from_str

LEMMA ResourceCalls ==
  ASSUME NEW t \in Threads,
         \/ C!qrmi_resource_new(t) \/ C!qrmi_resource_new_from_config(t) \/ C!qrmi_resource_free(t)
         \/ C!qrmi_resource_is_accessible(t) \/ C!qrmi_resource_type(t) \/ C!qrmi_resource_release(t)
         \/ C!qrmi_resource_task_stop(t) \/ C!qrmi_resource_task_status(t)
         \/ C!qrmi_resource_id(t) \/ C!qrmi_resource_acquire(t) \/ C!qrmi_resource_task_start(t)
         \/ C!qrmi_resource_task_result(t) \/ C!qrmi_resource_task_logs(t)
         \/ C!qrmi_resource_target(t)
  PROVE  Errs(t) \/ Uses(t)
  BY PlainIs DEF Errs, Uses, C!Kinds, C!qrmi_resource_new, C!qrmi_resource_new_from_config,
     C!qrmi_resource_free, C!qrmi_resource_is_accessible, C!qrmi_resource_type,
     C!qrmi_resource_release, C!qrmi_resource_task_stop, C!qrmi_resource_task_status,
     C!qrmi_resource_id, C!qrmi_resource_acquire, C!qrmi_resource_task_start,
     C!qrmi_resource_task_result, C!qrmi_resource_task_logs, C!qrmi_resource_target,
     C!GivesOrFails, C!Asks, C!FailAnyhow

LEMMA StatusCalls ==
  ASSUME NEW t \in Threads,
         \/ C!qrmi_resource_status(t) \/ C!qrmi_resource_status_free(t)
         \/ C!qrmi_resource_status_healthy(t) \/ C!qrmi_resource_status_busy(t)
         \/ C!qrmi_resource_status_pending_job_count(t) \/ C!qrmi_resource_status_reason(t)
         \/ C!qrmi_resource_status_capacity(t) \/ C!qrmi_resource_capacity_free(t)
         \/ C!qrmi_resource_metadata(t) \/ C!qrmi_resource_metadata_free(t)
         \/ C!qrmi_resource_metadata_value(t) \/ C!qrmi_resource_metadata_keys(t)
  PROVE  Errs(t) \/ Uses(t)
  BY PlainIs DEF Errs, Uses, C!Kinds, C!qrmi_resource_status, C!qrmi_resource_status_free,
     C!qrmi_resource_status_healthy, C!qrmi_resource_status_busy,
     C!qrmi_resource_status_pending_job_count, C!qrmi_resource_status_reason,
     C!qrmi_resource_status_capacity, C!qrmi_resource_capacity_free, C!qrmi_resource_metadata,
     C!qrmi_resource_metadata_free, C!qrmi_resource_metadata_value, C!qrmi_resource_metadata_keys,
     C!Reported, C!GivesOrFails, C!Asks, C!FailAnyhow

LEMMA ProviderCalls ==
  ASSUME HeapInv, NEW t \in Threads,
         \/ C!qrmi_provider_new(t) \/ C!qrmi_provider_free(t)
         \/ C!qrmi_provider_resources(t) \/ C!qrmi_provider_resources_free(t)
         \/ C!qrmi_provider_least_busy(t)
         \/ C!qrmi_service_resources(t) \/ C!qrmi_service_resources_free(t)
  PROVE  Errs(t) \/ Uses(t)
<1>1. CASE \/ C!qrmi_provider_new(t) \/ C!qrmi_provider_free(t)
           \/ C!qrmi_provider_resources_free(t) \/ C!qrmi_service_resources_free(t)
  BY <1>1, PlainIs DEF Errs, Uses, C!qrmi_provider_new, C!qrmi_provider_free,
     C!qrmi_service_resources_free, C!FailAnyhow
<1>2. CASE C!qrmi_provider_resources(t)
  <2>1. PICK p \in C!Holds("provider") :
          \/ C!FailAnyhow(t) \/ C!FailWithText(t)
          \/ C!Succeeds(t) /\ Lists(home[p])
    BY <1>2, SameCardinality DEF C!qrmi_provider_resources, Lists
  <2>2. C!MayCall(t) /\ home[p] \in Objects
    BY <1>2, ProviderRuns DEF C!qrmi_provider_resources
  <2>3. QED
    BY <2>1, <2>2 DEF Errs, Uses, C!FailAnyhow
<1>3. CASE C!qrmi_provider_least_busy(t)
  <2>1. PICK p \in C!Holds("provider") :
          \/ C!FailAnyhow(t) \/ C!FailWithText(t)
          \/ C!Succeeds(t) /\ Finds(home[p])
    BY <1>3 DEF C!qrmi_provider_least_busy, Finds
  <2>2. C!MayCall(t) /\ home[p] \in Objects
    BY <1>3, ProviderRuns DEF C!qrmi_provider_least_busy
  <2>3. QED
    BY <2>1, <2>2 DEF Errs, Uses, C!FailAnyhow
<1>4. CASE C!qrmi_service_resources(t)
  <2>1. \/ C!FailAnyhow(t)
        \/ C!Succeeds(t) /\ \E r \in Objects : Lists(r)
    BY <1>4, SameCardinality DEF C!qrmi_service_resources, C!Runtimes, Lists
  <2>2. C!MayCall(t)
    BY <1>4 DEF C!qrmi_service_resources
  <2>3. QED
    BY <2>1, <2>2 DEF Errs, Uses, C!FailAnyhow
<1>5. QED
  BY <1>1, <1>2, <1>3, <1>4

LEMMA CNext == ASSUME CInv, SinkFree, C!Next PROVE CInv' /\ SinkFree'
<1>1. PICK t \in Threads : C!Calls(t) \/ C!Proceeds(t) \/ C!CallbackReturns(t)
  BY DEF C!Next
<1>2. ErrorInv /\ HeapInv /\ crew \subseteq Threads /\ room \subseteq Objects
  BY DEF CInv
<1>3. Errs(t) \/ Uses(t) \/ C!qrmi_log_callback_set(t) \/ C!ReplaceSink(t)
      \/ C!Log(t) \/ C!CallbackReturns(t) \/ C!StoreMessage(t)
  <2>1. CASE C!Calls(t)
    BY <1>2, <2>1, ConfigCalls, ResourceCalls, StatusCalls, ProviderCalls DEF C!Calls
  <2>2. QED
    BY <1>1, <2>1 DEF C!Proceeds
<1>4. CASE ErrorInv' /\ SinkFree' /\ UNCHANGED <<C!heapVars, crew, room>>
  BY <1>2, <1>4 DEF CInv, HeapInv, C!heapVars, UsersOf
<1>5. CASE Uses(t)
  <2>1. HeapInv'
    BY <1>2, <1>5, PlainSteps, OpensAndCloses, ListsAndFinds, ListFreed DEF Uses
  <2>2. C!Succeeds(t)
    BY <1>5 DEF Uses, C!Allocates, C!Frees, C!Opens, C!Closes, C!qrmi_provider_resources_free
  <2>3. ErrorInv' /\ SinkFree' /\ UNCHANGED <<crew, room>>
    BY <1>2, <2>2 DEF C!Succeeds, C!errorVars, C!sinkVars, ErrorInv, SinkFree
  <2>4. QED
    BY <1>2, <2>1, <2>3 DEF CInv
<1>6. CASE Errs(t)
  BY <1>2, <1>4, <1>6, Failures DEF Errs
<1>7. QED
  BY <1>2, <1>3, <1>4, <1>5, <1>6, Replaces, Logs, Stores

LEMMA CStarts == C!CInit /\ crew \subseteq Threads /\ room \subseteq Objects => CInv
<1>1. SUFFICES ASSUME C!CInit, crew \subseteq Threads, room \subseteq Objects PROVE CInv
  OBVIOUS
<1>2. ErrorInv
  BY <1>1 DEF C!CInit, ErrorInv, Stacked, Mine, C!Kinds, C!Errors
<1>3. \A r \in Objects : UsersOf(home, r) = {}
  BY <1>1, BindingsAssumption DEF C!CInit, UsersOf
<1>4. \A r \in Objects : refs[r] = Cardinality(UsersOf(home, r))
  BY <1>1, <1>3, FS_EmptySet DEF C!CInit, C!Runtimes
<1>5. HeapInv
  BY <1>1, <1>4 DEF C!CInit, HeapInv, C!Runtimes, C!Type, Handle
<1>6. QED
  BY <1>1, <1>2, <1>5 DEF CInv

LEMMA FramesTyped ==
  ASSUME ErrorInv, NEW t \in Threads
  PROVE  /\ Len(frames[t]) <= C!MaxDepth
         /\ \A i \in 1..Len(frames[t]) : frames[t][i] \in C!Frame
<1>1. Stacked(frames[t], told[t], crossed[t], lastKind[t], lastMsg[t])
  BY ErrorFacts
<1>2. CASE frames[t] = << >>
  BY <1>2 DEF C!MaxDepth
<1>3. CASE \E f \in C!Frame : frames[t] = <<f>>
  BY <1>3 DEF C!MaxDepth
<1>4. CASE \E f, g \in C!Frame : frames[t] = <<f, g>>
  <2>1. PICK f, g \in C!Frame : frames[t] = <<f, g>>
    BY <1>4
  <2>2. Len(frames[t]) = 2 /\ frames[t][1] = f /\ frames[t][2] = g
    BY <2>1
  <2>3. QED
    BY <2>2 DEF C!MaxDepth
<1>5. QED
  BY <1>1, <1>2, <1>3, <1>4 DEF Stacked

LEMMA CPromises == CInv => C!ErrorIsMine /\ C!HandlesLive /\ (SinkFree => C!TypeOK)
<1>1. SUFFICES ASSUME CInv PROVE C!ErrorIsMine /\ C!HandlesLive /\ (SinkFree => C!TypeOK)
  OBVIOUS
<1>2. ErrorInv /\ HeapInv
  BY <1>1 DEF CInv
<1>3. refs \in [Objects -> 0..Cardinality(Objects)]
  <2>1. ASSUME NEW r \in Objects PROVE refs[r] \in 0..Cardinality(Objects)
    <3>1. UsersOf(home, r) \in SUBSET Objects /\ Objects \in SUBSET Objects
      BY DEF UsersOf
    <3>2. refs[r] = Cardinality(UsersOf(home, r))
      BY <1>2 DEF HeapInv
    <3>3. QED
      BY <3>1, <3>2, UsersFinite
  <2>2. QED
    BY <1>2, <2>1 DEF HeapInv
<1>4. SinkFree => C!TypeOK
  BY <1>1, <1>2, <1>3, FramesTyped, SameCardinality DEF C!TypeOK, CInv, SinkFree, ErrorInv, HeapInv,
     C!Runtimes
<1>5. ASSUME NEW o \in Objects, heap[o] \in Handle PROVE refs[home[o]] > 0
  <2>1. home[o] \in Objects /\ refs[home[o]] = Cardinality(UsersOf(home, home[o]))
    BY <1>2, <1>5 DEF HeapInv
  <2>2. UsersOf(home, home[o]) \in SUBSET Objects /\ UsersOf(home, home[o]) # {}
    BY DEF UsersOf
  <2>3. Cardinality(UsersOf(home, home[o])) \in Nat /\ Cardinality(UsersOf(home, home[o])) # 0
    BY <2>2, UsersFinite, FS_EmptySet
  <2>4. QED
    BY <2>1, <2>3
<1>6. C!HandlesLive
  BY <1>2, <1>5 DEF C!HandlesLive, HeapInv, Handle
<1>7. QED
  BY <1>2, <1>4, <1>6, ErrorPromises

(***************************************************************************)
(* The program of a run.                                                   *)
(***************************************************************************)

\* The languages keep to themselves; C and Python use the log sink.
IInv ==
  /\ host \in {"C", "Lua", "Lua calls", "Python"}
  /\ SinkInv /\ CInv /\ LuaInv /\ PyInv /\ F!CallTypeOK
  /\ host # "Python" => SinkFree

LEMMA LuaCallNext == ASSUME F!CallTypeOK, [F!CallNext]_callVars PROVE F!CallTypeOK'
<1>1. CASE F!Begins
  BY <1>1 DEF F!Begins, F!CallTypeOK
<1>2. CASE F!Frees \/ F!Checks \/ F!ReadsArgument \/ F!ReadsField
  BY <1>2 DEF F!Frees, F!Checks, F!ReadsArgument, F!ReadsField, F!CallTypeOK
<1>3. CASE F!Calls
  BY <1>3 DEF F!Calls, F!CallTypeOK
<1>4. CASE F!Asks \/ F!FreesOne \/ F!Builds \/ F!Keeps
  BY <1>4 DEF F!Asks, F!FreesOne, F!Builds, F!Keeps, F!CallTypeOK
<1>5. CASE F!Pushes
  BY <1>5 DEF F!Pushes, F!CallTypeOK
<1>6. CASE F!RefusesOrNot \/ F!Passes \/ F!Settles \/ UNCHANGED callVars
  BY <1>6 DEF F!RefusesOrNot, F!Passes, F!Settles, callVars, F!CallTypeOK
<1>7. QED
  BY <1>1, <1>2, <1>3, <1>4, <1>5, <1>6 DEF F!CallNext

LEMMA InitIInv == Init => IInv
<1>1. SUFFICES ASSUME Init PROVE IInv
  OBVIOUS
<1>2. host \in {"C", "Lua", "Lua calls", "Python"} /\ SinkInv /\ (host # "Python" => SinkFree)
  BY <1>1 DEF Init, SinkInv, SinkFree, P!SinkInit, P!PySinks
<1>3. CInv
  <2>1. crew \subseteq Threads /\ room \subseteq Objects
    BY <1>1 DEF Init
  <2>2. QED
    BY <1>1, <2>1, CStarts DEF Init
<1>4. LuaInv
  BY <1>1, LuaStarts DEF Init
<1>5. PyInv
  BY <1>1, <1>2, BindingsAssumption DEF Init, SinkInv, PyInv, P!PyInit, P!TypeOK, P!At, P!Work
<1>6. F!CallTypeOK
  BY <1>1 DEF Init, F!CallInit, F!CallTypeOK
<1>7. QED
  BY <1>2, <1>3, <1>4, <1>5, <1>6 DEF IInv

LEMMA SinkKept == ASSUME SinkInv, UNCHANGED sinkVars PROVE SinkInv' /\ (SinkFree => SinkFree')
  BY DEF SinkInv, SinkFree, sinkVars

LEMMA CKept == ASSUME CInv, UNCHANGED cVars PROVE CInv'
  BY DEF CInv, ErrorInv, HeapInv, UsersOf, cVars

LEMMA LuaKept == ASSUME LuaInv, UNCHANGED luaVars PROVE LuaInv'
  BY LuaNext

LEMMA PyKept == ASSUME PyInv, UNCHANGED pyVars, SinkInv' PROVE PyInv'
  BY DEF PyInv, P!TypeOK, pyVars, SinkInv

LEMMA CallKept == ASSUME F!CallTypeOK, UNCHANGED callVars PROVE F!CallTypeOK'
  BY LuaCallNext

LEMMA NextIInv == IInv /\ [Next]_vars => IInv'
<1>1. SUFFICES ASSUME IInv, [Next]_vars PROVE IInv'
  OBVIOUS
<1>2. /\ host \in {"C", "Lua", "Lua calls", "Python"}
      /\ SinkInv /\ CInv /\ LuaInv /\ PyInv /\ F!CallTypeOK
      /\ host # "Python" => SinkFree
  BY <1>1 DEF IInv
<1>3. UNCHANGED host
  BY <1>1 DEF Next, vars
<1>4. CASE host = "C" /\ C!Next /\ UNCHANGED <<luaVars, callVars, pyVars>>
  <2>1. CInv' /\ SinkFree' /\ SinkInv'
    <3>1. CInv' /\ SinkFree'
      BY <1>2, <1>4, CNext
    <3>2. QED
      BY <3>1 DEF SinkFree, SinkInv, P!PySinks
  <2>2. QED
    BY <1>2, <1>3, <1>4, <2>1, LuaKept, PyKept, CallKept DEF IInv
<1>5. CASE L!Next /\ UNCHANGED <<sinkVars, cVars, callVars, pyVars>>
  <2>1. LuaInv'
    BY <1>2, <1>5, LuaNext
  <2>2. QED
    BY <1>2, <1>3, <1>5, <2>1, SinkKept, CKept, PyKept, CallKept DEF IInv
<1>6. CASE F!CallNext /\ UNCHANGED <<sinkVars, cVars, luaVars, pyVars>>
  <2>1. F!CallTypeOK'
    BY <1>2, <1>6, LuaCallNext
  <2>2. QED
    BY <1>2, <1>3, <1>6, <2>1, SinkKept, CKept, LuaKept, PyKept DEF IInv
<1>7. CASE host = "Python" /\ P!Next /\ UNCHANGED <<cVars, luaVars, callVars>>
  <2>1. PyInv' /\ SinkInv'
    BY <1>2, <1>7, PyNext
  <2>2. QED
    BY <1>2, <1>3, <1>7, <2>1, CKept, LuaKept, CallKept DEF IInv
<1>8. CASE UNCHANGED vars
  <2>1. UNCHANGED sinkVars /\ UNCHANGED cVars /\ UNCHANGED luaVars /\ UNCHANGED callVars
        /\ UNCHANGED pyVars
    BY <1>8 DEF vars
  <2>2. QED
    BY <1>2, <1>3, <2>1, SinkKept, CKept, LuaKept, PyKept, CallKept DEF IInv
<1>9. QED
  BY <1>1, <1>4, <1>5, <1>6, <1>7, <1>8 DEF Next

LEMMA AlwaysIInv == Spec => []IInv
  BY InitIInv, NextIInv, PTL DEF Spec

\* The variables of every language's interface have their types; no call of a C
\* thread nests deeper than a log callback in a call, and no runtime has more holders
\* than there are objects (src/cext.rs, lua/lua_qrmi.c, src/pyext.rs).
THEOREM TypeCorrect == Spec => []TypeOK
<1>1. IInv => TypeOK
  BY CPromises, LuaPromises, PyPromises DEF IInv, TypeOK
<1>2. QED
  BY <1>1, AlwaysIInv, PTL

\* What a C thread reads with qrmi_get_last_error, and the kind that goes with it, is
\* of its own last failed call, whatever other threads and log callbacks do while
\* _set_last_error runs (src/cext.rs).
THEOREM ErrorIsMineAlways == Spec => []ErrorIsMine
<1>1. IInv => ErrorIsMine
  BY CPromises DEF IInv, ErrorIsMine
<1>2. QED
  BY <1>1, AlwaysIInv, PTL

\* What a C program holds is live and so is the runtime of each handle, in whatever
\* order it frees providers, lists and handles (src/cext.rs).
THEOREM HandlesLiveAlways == Spec => []HandlesLive
<1>1. IInv => HandlesLive
  BY CPromises DEF IInv, HandlesLive
<1>2. QED
  BY <1>1, AlwaysIInv, PTL

\* Every open session of a Lua program is in the cache of a live handle, or the program
\* detached it, or its release failed or was passed over for another token, or the
\* acquire that opened it failed and nobody was told its token (lua/lua_qrmi.c,
\* src/cext.rs).
THEOREM SessionsAccountedAlways == Spec => []SessionsAccounted
<1>1. IInv => SessionsAccounted
  BY LuaPromises DEF IInv, SessionsAccounted
<1>2. QED
  BY <1>1, AlwaysIInv, PTL

\* A C log callback may replace the callback.  No Python thread keeps the GIL while it
\* waits for a worker, or for the lock of the log sink, that waits for the GIL: except
\* at the end of QRMIService(), and while the destructor of a replaced callback has the
\* lock (src/common/logging.rs, src/pyext.rs).
THEOREM NobodyStuckAlways == Spec => []NobodyStuck
<1>1. IInv => NobodyStuck
  BY ReplacingPromises, PyPromises DEF IInv, NobodyStuck
<1>2. QED
  BY <1>1, AlwaysIInv, PTL
=============================================================================

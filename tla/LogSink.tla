------------------------------ MODULE LogSink ------------------------------
(***************************************************************************)
(* The destination of log records (src/common/logging.rs): one optional    *)
(* callback of the process, behind a read-write lock.                      *)
(***************************************************************************)
CONSTANTS
  Sinks,      \* bound: the callbacks that the program registers
  NoSink,
  Nobody

VARIABLES
  sink,       \* LOG_SINK: without a callback, records go to stderr
  readers,    \* the threads that hold the lock for reading
  writer      \* the thread that holds it for writing, or Nobody

sinkVars == <<sink, readers, writer>>

SinkInit == readers = {} /\ writer = Nobody

\* set_log_sink waits for the lock.  The callback that is replaced is dropped
\* under it: when that runs code of the program, t keeps the lock until the code
\* has ended.
SetLogSink(t, s, runsCode) ==
  /\ readers = {} /\ writer = Nobody
  /\ sink' = s
  /\ writer' = IF runsCode THEN t ELSE Nobody
  /\ UNCHANGED readers

\* The replaced callback is gone.
SinkDropped(t) ==
  /\ writer = t
  /\ writer' = Nobody
  /\ UNCHANGED <<sink, readers>>

\* MUTANT of DispatchToSink: the lock is kept while the callback runs.
DispatchLocked(t) ==
  /\ writer = Nobody
  /\ readers' = IF sink = NoSink THEN readers ELSE readers \cup {t}
  /\ UNCHANGED <<sink, writer>>

\* dispatch_to_sink: the callback is cloned, and runs without the lock.
DispatchToSink(t) ==
  /\ writer = Nobody
  /\ UNCHANGED sinkVars

\* The callback has returned.
SinkReturned(t) ==
  /\ readers' = readers \ {t}
  /\ UNCHANGED <<sink, writer>>
=============================================================================

\* The end of QRMIService() may stop a Python program (see BindingsService.cfg), and so may
\* the destructor of a replaced callback.
SPECIFICATION Spec
CONSTANTS
  Threads = {t1, t2}
  Objects = {o1, o2, o3}
  NoRuntime = NoRuntime
  Sessions = {s1, s2}
  Handles = {h1, h2}
  NoSession = NoSession
  Sinks = {k1}
  NoSink = NoSink
  Nobody = Nobody
SYMMETRY Symmetry
INVARIANTS
  TypeOK
  ErrorIsMine
  HandlesLive
  CallsTidy
  SessionsAccounted
  NobodyStuck
CHECK_DEADLOCK FALSE

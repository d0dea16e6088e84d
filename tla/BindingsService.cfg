\* The end of QRMIService() locks a Python program up.
SPECIFICATION Spec
CONSTANTS
  Threads = {t1, t2}
  Objects = {o1, o2, o3}
  NoRuntime = NoRuntime
  Sessions = {s1, s2}
  Handles = {h1, h2}
  NoSession = NoSession
  Sinks = {k1}
  NoSink = NoSink
  Nobody = Nobody
SYMMETRY Symmetry
INVARIANTS
  ServiceDropReturns
CHECK_DEADLOCK FALSE

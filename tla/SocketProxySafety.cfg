SPECIFICATION Spec
CONSTANTS
  c1 = c1
  c2 = c2
  c3 = c3
  Callers = {c1, c2, c3}
  Operations = {"start", "stop", "restart"}
  MaxGenerations = 4
  MaxLosses = 1
  Failures = {"bind", "setup", "exit", "unverified", "local", "panic"}
SYMMETRY Interchangeable
INVARIANTS
  TypeOK
  SocketIsOwned
  StopSticks
PROPERTIES
  UpstreamsAreOwned
  StopRetires
  FailureIsFinal

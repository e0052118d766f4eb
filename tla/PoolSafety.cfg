SPECIFICATION Spec
CONSTANTS
  c1 = c1
  c2 = c2
  c3 = c3
  c4 = c4
  n1 = n1
  n2 = n2
  e1 = e1
  Callers = {c1, c2, c3, c4}
  Operations = {"start", "stop", "restart", "shutdown"}
  Names = {n1, n2}
  Entries = {e1, NoEntry}
  NoEntry = NoEntry
  MaxProxies = 3
  MaxLosses = 1
  Failures = {"unverified"}
  Discovered = {n2}
SYMMETRY Interchangeable
INVARIANTS
  TypeOK
  LiveIsRegistered
  ShutdownIsOrderly
  ResumesAfterFailure

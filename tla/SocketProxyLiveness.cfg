SPECIFICATION FairSpec
CONSTANTS
  c1 = c1
  c2 = c2
  Callers = {c1, c2}
  Operations = {"start", "stop", "restart"}
  MaxGenerations = 3
  MaxLosses = 1
  Failures = {"setup", "exit", "unverified"}
PROPERTIES
  EveryCallReturns
  LostSessionIsReplaced

SPECIFICATION FairSpec
CONSTANTS
  c1 = c1
  c2 = c2
  c3 = c3
  n1 = n1
  e1 = e1
  Callers = {c1, c2, c3}
  Operations = {"start", "stop", "restart", "shutdown"}
  Names = {n1}
  Entries = {e1, NoEntry}
  NoEntry = NoEntry
  MaxProxies = 3
  MaxLosses = 1
  Failures = {"setup", "unverified", "exit", "environment"}
  Discovered = {}
PROPERTIES
  EveryRequestReturns

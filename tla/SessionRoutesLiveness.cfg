SPECIFICATION FairSpec
CONSTANTS
  c1 = c1
  c2 = c2
  Clients = {c1, c2}
  Ids = {1}
  Offered = {"initialize", "server/discover", "tools/list", "tools/call"}
  CallerTimeouts = {0, 2}
  RequestTtl = 1
  SharedTimeout = 1
  Lifetimes = {1}
  AnswerKinds = {"result", "modern", "session_not_found"}
  MaxRoutes = 2
  MaxTime = 1
  Horizon = 3
  MaxVersion = 0
INVARIANTS
  OneEra
  InitializedAtMostOnce
PROPERTIES
  NoEarlyTimeout
  EveryRequestSettles

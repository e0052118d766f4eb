SPECIFICATION Spec
CONSTANTS
  c1 = c1
  c2 = c2
  c3 = c3
  Clients = {c1, c2, c3}
  Ids = {1}
  Offered = {"tools/list"}
  CallerTimeouts = {0}
  RequestTtl = 1
  SharedTimeout = 1
  Lifetimes = {0}
  AnswerKinds = {"result"}
  MaxRoutes = 2
  MaxTime = 1
  Horizon = 2
  MaxVersion = 1
SYMMETRY Interchangeable
INVARIANTS
  FollowersAwaitAnAnswer

SPECIFICATION MCSpec
CONSTANTS
  c1 = c1
  c2 = c2
  StoreCallers = {c1, c2}
  MaxTokens = 4
  MaxCrashes = 1
  Clients = {1, 2}
  MaxDaemons = 3
  MaxKills = 1
  Legacy = {1, 2}
  MaxWorkers = 1
  MaxRuns = 2
  Writers = {1, 2}
  ServerNames = {"a", "b"}
  MaxEdits = 1
  MaxStarts = 1
  MaxRotations = 1
  Sessions = {1}
  MaxAsides = 2
  Inspected = 5
  MaxInspections = 4
  MaxFlows = 2
INVARIANTS
  TypeOK
  StoreSafety
  DaemonSafety
  MigratedMeansGone
  ConfigSafety
  ClientSafety
  ToolSafety
  AuthorizationSafety
PROPERTIES
  NoReplay

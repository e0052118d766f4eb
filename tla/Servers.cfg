SPECIFICATION MCSpec
CONSTANTS
  HttpRequests = {1, 2, 3}
  MaxWorkers = 2
  Processes = {1, 2, 3}
  MaxLines = 1
  c1 = c1
  c2 = c2
  DeliveryClients = {c1, c2}
  QueueLimit = 1
  MaxInput = 1
  Bridged = {"a", "b"}
  Downstream = {1, 2, 3}
  MaxInFlight = 2
  MaxHttpRequests = 2
  Subscriptions = {1, 2}
  Feeds = {"a"}
  MaxQueuedEvents = 2
  MaxListeners = 1
  MaxChanges = 2
  MaxLosses = 1
INVARIANTS
  TypeOK
  HttpSafety
  VerifiedMeansGone
  InServerOrder
  BridgeSafety
PROPERTIES
  UpstreamsKeepContract
  UpstreamsSettle
  StalledClientsDoNotBlockShutdown
  BridgeResponds

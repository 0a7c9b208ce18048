CONSTANTS
  MaxData = 2
  MaxTurns = 2
  MaxCalls = 1
  Setup = {TRUE, FALSE}
  SslClients = {k1, k2, k3}
  SslServers = {s1}
  CacheKeys = {"A"}
  MaxContexts = 3
  SslWorkers = {TRUE, FALSE}
SPECIFICATION MCSpec
INVARIANTS ReleasedOnce DataBeforeEnd CallbacksEnd SslShared
PROPERTY EndCleansUp
\* The connection comes to its end.
CHECK_DEADLOCK FALSE

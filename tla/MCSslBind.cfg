CONSTANTS
  MaxData = 1
  MaxTurns = 1
  MaxCalls = 1
  Setup = {TRUE}
  SslClients = {k1}
  SslServers = {s1}
  CacheKeys = {"A"}
  MaxContexts = 2
  SslWorkers = {FALSE}
SPECIFICATION SslOnly
INVARIANT ListensWhileHeld
CHECK_DEADLOCK FALSE

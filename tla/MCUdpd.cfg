SPECIFICATION FairSpec
CONSTANTS
  c1 = c1
  c2 = c2
  a1 = a1
  Conns <- MCConns
  Asks <- MCAsks
  Tables <- MCTables
  MaxFds = 2
  MaxData = 1
  MaxCalls = 2
INVARIANTS
  UdpdHandles
  
PROPERTY
  UdpdServed
CHECK_DEADLOCK FALSE

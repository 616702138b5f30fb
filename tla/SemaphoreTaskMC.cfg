CONSTANTS
  Clients = {"a", "b", "c"}
  Tokens = {1, 2}
  Worlds <- AllWorlds
SPECIFICATION FairSpec
INVARIANTS Consistent SignalsHeard
PROPERTY EveryCallReturns

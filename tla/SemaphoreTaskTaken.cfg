CONSTANTS
  Clients = {"a", "b", "c"}
  Tokens = {1, 2}
  Worlds <- TakenWorld
SPECIFICATION Spec
INVARIANT SignalsHeard

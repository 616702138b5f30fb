CONSTANTS
  Tasks = {"main", "a", "b"}
  Surrogates = {"g"}
  Parent <- Family
  PortIds = {"p1", "p2", "p3", "p4", "p5"}
  Std <- StdPorts
  Worlds <- AllWorlds
  MaxSent = 3
SPECIFICATION Spec
CHECK_DEADLOCK FALSE
INVARIANT OldestFirst

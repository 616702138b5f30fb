CONSTANTS
  Tasks = {t1, t2, t3}
  Nodes <- AllNodes
  Parent <- Orphans
  MaxMessages = 1
  MaxCount = 1
SPECIFICATION SemFairSpec
CHECK_DEADLOCK FALSE
INVARIANT SemConsistent
PROPERTIES WaitersServed RoundRobin

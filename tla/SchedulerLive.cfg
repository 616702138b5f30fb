CONSTANTS
  Tasks = {t1, t2, t3}
  Nodes <- LiveNodes
  Parent <- Orphans
  MaxMessages = 1
SPECIFICATION FairSpec
CHECK_DEADLOCK FALSE
PROPERTY RoundRobin

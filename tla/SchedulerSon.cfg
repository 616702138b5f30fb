CONSTANTS
  Tasks = {t1, t2}
  Nodes <- SonNodes
  Parent <- Family
  MaxMessages = 1
SPECIFICATION Spec
CHECK_DEADLOCK FALSE
INVARIANT PreemptionKeepsTime

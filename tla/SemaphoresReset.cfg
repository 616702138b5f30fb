CONSTANTS
  Tasks = {t1, t2, t3}
  Nodes <- ResetNodes
  Parent <- Orphans
  MaxMessages = 1
  MaxCount = 2
SPECIFICATION SemSpec
CHECK_DEADLOCK FALSE
INVARIANT NoAbort

CONSTANTS
  Tasks = {t1, t2}
  Nodes <- TimedNodes
  Parent <- Orphans
  MaxMessages = 1
SPECIFICATION Spec
SYMMETRY Symmetry
CHECK_DEADLOCK FALSE
INVARIANT NoAbort

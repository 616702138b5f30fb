CONSTANTS
  Tasks = {t1, t2}
  Nodes <- QuantumNodes
  Parent <- Orphans
  MaxMessages = 1
SPECIFICATION Spec
CHECK_DEADLOCK FALSE
INVARIANT NoAbort

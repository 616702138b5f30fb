CONSTANTS
  Tasks = {t1, t2, t3}
  Nodes <- AllNodes
  Parent <- Orphans
  MaxMessages = 1
SPECIFICATION Spec
SYMMETRY Symmetry
CHECK_DEADLOCK FALSE
INVARIANTS
  Consistent
  CpusWellUsed
  NoAbort
  NoneForgotten
  PreemptionKeepsTime

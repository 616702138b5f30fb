CONSTANTS
  Tasks = {t1, t2, t3}
  Locks = {l1, l2}
  Programs <- NestingPrograms
SPECIFICATION Spec
SYMMETRY Symmetry
INVARIANTS
  StoppedOwnNothing

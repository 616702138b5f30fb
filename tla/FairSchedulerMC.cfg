CONSTANTS
  t1 = t1
  t2 = t2
  t3 = t3
  t4 = t4
  t5 = t5
  t6 = t6
  Tasks = {t1, t2, t3, t4, t5, t6}
  None = None
  Size = 6
  Keys = {0, 1}
  Nodes <- AllNodes
SPECIFICATION Spec
CHECK_DEADLOCK FALSE
INVARIANTS Consistent QueuesAreSorted

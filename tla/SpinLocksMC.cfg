CONSTANTS
  Tasks = {t1, t2, t3}
  Locks = {l1, l2}
  Programs <- SafePrograms
SPECIFICATION Spec
SYMMETRY Symmetry
INVARIANTS
  TypeOK
  NoLockLeaked
  QueuesAgree
  NobodySpinsInVain
  LocksAreKept

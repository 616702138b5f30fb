CONSTANTS
  Clients = {c1, c2, c3}
  Tokens = {t1, t2}
SPECIFICATION FairSpec
INVARIANTS
  TypeOK
  MutualExclusion
  Consistent
PROPERTIES
  ClientsServed
  ImplementsReadWriteLock

CONSTANTS
  Users = {u1, u2, u3}
  Messages = {m1, m2}
  Programs <- Calm
SPECIFICATION FairSpec
CHECK_DEADLOCK FALSE
INVARIANTS
  TypeOK
  CountAgrees
  DispatcherServes
  NothingLost
PROPERTIES
  ServedInOrder

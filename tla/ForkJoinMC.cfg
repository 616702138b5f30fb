CONSTANTS
  Branches = {b1, b2}
  Quorum = 1
  Threads = {h1, h2, h3}
SPECIFICATION FairSpec
INVARIANTS
  Consistent
  JoinIsReachable
  JoinFollowsQuorum
PROPERTIES
  CyclesComplete

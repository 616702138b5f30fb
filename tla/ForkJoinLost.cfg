CONSTANTS
  Branches = {b1, b2, b3}
  Quorum = 3
  Threads = {h1, h2, h3}
SPECIFICATION Spec
SYMMETRY Symmetry
INVARIANTS
  JoinIsReachable

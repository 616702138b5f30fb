CONSTANTS
  Users = {u1, u2}
  Messages = {m1, m2}
  Programs <- Racing
SPECIFICATION Spec
INVARIANT DispatcherServes

CONSTANTS
  Clients = {"a", "b", "c", "d"}
  Tasks = {"m", "s", "j", "h"}
  Multi = {"m", "h"}
  Limit <- Limits
  Entries = {"m1", "m2", "m3", "s1", "s2", "s3", "f1", "j1", "j2", "i1", "i2", "h1", "h2"}
  TaskOf <- EntryTask
  Priority <- EntryPriority
  Calls <- EntryCalls
  Forwards <- EntryForwards
  Joins <- EntryJoins
  Pool = 2
  Worlds <- PriorityWorld
SPECIFICATION Spec
PROPERTY HighestServed

CONSTANTS
  Clients = {"a", "b", "c"}
  Tasks = {"m", "s", "j", "n"}
  Multi = {"m", "n"}
  Limit <- Limits
  Entries = {"m1", "m2", "m3", "s1", "s2", "s3", "f1", "j1", "j2", "i1", "i2", "n1"}
  TaskOf <- EntryTask
  Priority <- EntryPriority
  Calls <- EntryCalls
  Forwards <- EntryForwards
  Joins <- EntryJoins
  Pool = 2
  Worlds <- AllWorlds
SPECIFICATION FairSpec
INVARIANT Consistent
PROPERTIES GrowsWhenBusy StationsServe Answered

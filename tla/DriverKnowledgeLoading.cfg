SPECIFICATION Spec
CONSTANTS
  m1 = m1
  m2 = m2
  here = here
  there = there
  k1 = k1
  k2 = k2
  Models <- MCModels
  Output <- MCOutput
  FirstPage = {m1}
  Dated = {m2}
  Origins <- MCOrigins
  Intervals = {1, 3}
  MaxChanges = 3
  Askers <- MCAskers
  Groups <- MCGroups
  HitTtl = 2
  MissTtl = 1
  MaxRestarts = 1
  Keys = {k1, k2}
  Documents <- MCDocuments
  Requests = {q1, q2}
  Recheck = 1
  KeepAlive = 2
  MaxWrites = 2
  Talks = {t1}
  Entries = 2
  Life = 1
  MaxCalls = 4
  MaxDrops = 1
CHECK_DEADLOCK FALSE
INVARIANT CompletionNoIsTrue

CONSTANTS
  s1 = s1
  c1 = c1  c2 = c2  c3 = c3
  None = None
  Strategies = {s1}
  Calls = {c1, c2, c3}
  LongLived = {c1}
  Amounts = {1, 2}
  PoolSize = 4
  MaxFailures = 1
SPECIFICATION Spec
CHECK_DEADLOCK FALSE
INVARIANTS
  TypeOK
  LedgerAgrees
PROPERTIES
  ClosedForGood
  CallEnds

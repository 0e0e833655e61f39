CONSTANTS
  s1 = s1  s2 = s2  s3 = s3
  Topic = 2
  Strategies = {s1, s2, s3}
  MaxConcurrency = 2
  MaxProcesses = 1
SPECIFICATION Spec
CHECK_DEADLOCK FALSE
INVARIANTS
  TypeOK
  OverlapNeedsTimeout
PROPERTIES
  ActsOnce
  ImplementsConsumer

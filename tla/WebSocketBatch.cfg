CONSTANTS
  Length = 4
  KeyOf <- MCKeyOf
  KindOf <- MCKindOf
  TimeOf <- MCTimeOf
  MaxTime = 2
  BatchSize = 2
  MaxFailures = 1
SPECIFICATION Spec
CHECK_DEADLOCK FALSE
INVARIANTS
  TypeOK
  EachInOnePlace
  NewestSurvives
PROPERTIES
  HandlingEnds
  BufferIsFlushed

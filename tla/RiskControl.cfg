CONSTANTS
  c1 = c1  c2 = c2
  Callers = {c1, c2}
  Pnls <- MCPnls
  MaxDrawdown = 3
  MaxLosses = 2
  MaxWrites = 3
  MaxFailures = 1
SPECIFICATION Spec
CHECK_DEADLOCK FALSE
INVARIANTS
  TypeOK
  StaleGrantIsExplained
  ExceededIsTripped
PROPERTIES
  BreakerHolds
  TripTakesEffect

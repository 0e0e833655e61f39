CONSTANTS
  h1 = h1
  Handlers = {h1}
  MaxUpdates = 5
  MaxSessions = 1
  MaxCrashes = 0
  NoSession = NoSession
SPECIFICATION SpecJobs
CHECK_DEADLOCK FALSE
INVARIANTS
  StrategyIsCreated

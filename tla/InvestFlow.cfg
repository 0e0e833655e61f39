CONSTANTS
  h1 = h1  h2 = h2
  Handlers = {h1, h2}
  MaxUpdates = 5
  MaxSessions = 2
  MaxCrashes = 1
  NoSession = NoSession
SPECIFICATION Spec
SYMMETRY Symmetry
CHECK_DEADLOCK FALSE
INVARIANTS
  TypeOK
  ButtonsWork
  JobsMatchSessions

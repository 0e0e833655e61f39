CONSTANTS
  o1 = o1  o2 = o2
  r1 = r1  r2 = r2
  u1 = u1
  None = None
  Orders = {o1, o2}
  Requests = {r1, r2}
  Trades = {r1}
  Users = {u1}
  UserOf <- MCUserOf
  Reusable = {o1}
  BatchLimit = 1
  MaxFailures = 2
SPECIFICATION Spec
CHECK_DEADLOCK FALSE
INVARIANTS
  TypeOK
  DuplicatesArePaidFor
  RejectedMeansUnknownOnly
PROPERTIES
  FinalOnceReleased
  PendingIsProcessed

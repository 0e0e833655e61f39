CONSTANTS
  o1 = o1  o2 = o2
  r1 = r1  r2 = r2
  u1 = u1
  p1 = p1
  None = None
  Orders = {o1, o2}
  Requests = {r1}
  Trades = {}
  Users = {u1}
  UserOf <- MCUserOf
  Reusable = {o1, o2}
  BatchLimit = 2
  MaxFailures = 1
  Positions = {p1}
  PositionOwner <- MCPositionOwner
  MaxStopFailures = 1
SPECIFICATION StopSpec
SYMMETRY MCSymmetry
CHECK_DEADLOCK FALSE
INVARIANTS
  UndisturbedStopHolds

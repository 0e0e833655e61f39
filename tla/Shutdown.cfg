CONSTANTS
  w1 = w1  w2 = w2
  opportunity = opportunity  systemEvents = systemEvents
  q1 = q1
  Workers = {w1, w2}
  Consumers = {opportunity, systemEvents}
  Unclosed = {systemEvents}
  Requests = {q1}
  Hanging = {w2, opportunity}
SPECIFICATION ProcessSpec
CHECK_DEADLOCK FALSE
INVARIANTS
  ProcessTypeOK
  ClosedUnderUseIsGivenUp
PROPERTIES
  ShutdownEnds
  CancelledLeave

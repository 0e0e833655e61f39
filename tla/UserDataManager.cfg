CONSTANTS
  a1 = a1  a2 = a2
  None = None
  Accounts = {a1}
  MaxToggles = 1
  MaxDrops = 1
  MaxFailures = 1
SPECIFICATION Spec
CHECK_DEADLOCK FALSE
INVARIANTS
  TypeOK
  LeaksNeedReconnect
PROPERTIES
  StaysDeactivated
  ActiveIsConnected
  UnwantedStreamsEnd

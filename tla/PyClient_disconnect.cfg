\* what disconnect() leaves when it has ended
SPECIFICATION Spec
CONSTANTS
  MaxConns = 2
  MaxClosers = 2
  max_reconnect_attempts = 2
  OverlapConnects = FALSE
INVARIANTS DisconnectDisconnects
CHECK_DEADLOCK FALSE

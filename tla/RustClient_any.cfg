\* pings, and read tasks that are overtaken by a new connection
SPECIFICATION Spec
CONSTANTS
  MaxConns = 2
  Capacity = 1
  max_attempts = 1
  PingEnabled = TRUE
  StaleReaders = TRUE
INVARIANTS ToldOnce ConnectedIsWatched
CHECK_DEADLOCK FALSE

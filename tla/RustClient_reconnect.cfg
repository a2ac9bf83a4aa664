\* what follows the announcement of a reconnection
SPECIFICATION FairSpec
CONSTANTS
  MaxConns = 1
  Capacity = 2
  max_attempts = 1
  PingEnabled = FALSE
  StaleReaders = FALSE
PROPERTIES AutoReconnects
CHECK_DEADLOCK FALSE

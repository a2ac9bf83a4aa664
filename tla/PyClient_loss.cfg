\* what follows the end of a connection
SPECIFICATION FairSpec
CONSTANTS
  MaxConns = 2
  MaxClosers = 2
  max_reconnect_attempts = 2
  OverlapConnects = FALSE
PROPERTIES LossIsAnnounced
CHECK_DEADLOCK FALSE

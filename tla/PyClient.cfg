\* with pings and without; the program waits for a reconnection that is under way
SPECIFICATION FairSpec
CONSTANTS
  MaxConns = 3
  MaxClosers = 2
  max_reconnect_attempts = 2
  OverlapConnects = FALSE
INVARIANTS ReturnedMeansStopped NoReconnectAfterDisconnect ToldOnce OneOfEach
PROPERTIES LifeSpec CallsEnd
CHECK_DEADLOCK FALSE

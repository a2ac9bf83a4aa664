\* no pings, a read task ends before the next connection is made, a fair runtime
SPECIFICATION FairSpec
CONSTANTS
  MaxConns = 2
  Capacity = 2
  max_attempts = 1
  PingEnabled = FALSE
  StaleReaders = FALSE
INVARIANTS ReadingIsConnected HelloFirst
PROPERTIES LifeSpec CloseBeforeFin LossIsAnnounced TasksEnd DisconnectReturns
CHECK_DEADLOCK FALSE

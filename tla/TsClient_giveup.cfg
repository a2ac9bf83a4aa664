\* how many attempts are made before the client gives up
SPECIFICATION Spec
CONSTANTS
  Sockets = {s1, s2}
  None = None
  maxReconnectAttempts = 2
  PingEnabled = TRUE
  AttemptCap = 4
  OverlapConnects = FALSE
  LateClose = FALSE
  ServerSendsClose = FALSE
  QuitInReconnecting = FALSE
  ListenerSubscribes = FALSE
INVARIANTS GivesUpAfterMax
CHECK_DEADLOCK FALSE

\* any program, any network: what holds regardless
SPECIFICATION Spec
CONSTANTS
  Sockets = {s1, s2, s3}
  None = None
  maxReconnectAttempts = 2
  PingEnabled = TRUE
  AttemptCap = 4
  OverlapConnects = TRUE
  LateClose = TRUE
  ServerSendsClose = TRUE
  QuitInReconnecting = TRUE
  ListenerSubscribes = TRUE
INVARIANTS AttemptsBounded ConnectedHasSocket NeverStranded GreetedFirst
CHECK_DEADLOCK FALSE

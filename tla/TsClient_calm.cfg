\* connect() is called on a client at rest, old connections end before the delay
\* is over, and the operating system does what it owes
SPECIFICATION FairSpec
CONSTANTS
  Sockets = {s1, s2}
  None = None
  maxReconnectAttempts = 2
  PingEnabled = TRUE
  AttemptCap = 4
  OverlapConnects = FALSE
  LateClose = FALSE
  ServerSendsClose = TRUE
  QuitInReconnecting = FALSE
  ListenerSubscribes = FALSE
INVARIANTS OnePingInterval DisconnectStops
PROPERTIES LifeSpec ReconnectsOrGivesUp ConnectSettles
CHECK_DEADLOCK FALSE

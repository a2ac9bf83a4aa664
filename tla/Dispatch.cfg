\* Two connections, of which one replaces the other while its read task ends
SPECIFICATION FairSpec
CONSTANTS
  MaxConns = 2
  MaxCallbacks = 1
  Registrable = {"message", "reconnecting"}
  max_attempts = 1
INVARIANTS RevokedIsSilent NoLockIsForgotten NobodyWaitsInACircle
PROPERTIES FrameSeesOneRegistration EverybodyMovesOn
CHECK_DEADLOCK FALSE

SPECIFICATION Spec
CONSTANTS
  RetainedAckLimit = 2
  MaxTokens = 1
  MaxSockets = 3
  MaxSessions = 3
  MaxVersions = 1
  Taps = FALSE
  Unsteady = FALSE
INVARIANT MeasuredWhilePainting
CHECK_DEADLOCK FALSE

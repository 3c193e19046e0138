SPECIFICATION Spec
CONSTANTS
  RetainedAckLimit = 2
  MaxTokens = 2
  MaxSockets = 2
  MaxSessions = 2
  MaxVersions = 2
  Taps = TRUE
  Unsteady = TRUE
INVARIANTS CaptureTypeOK HelloIsOfTheActiveSocket ReloadedSessionIsRetargeted FreshOnASteadyWire EvidenceOnASteadyWire MeasuredIsRecorded
PROPERTY NeverYankedBack
CHECK_DEADLOCK FALSE

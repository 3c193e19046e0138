SPECIFICATION Spec
CHECK_DEADLOCK FALSE
CONSTANTS
  Sessions = {"agent"}
  a = a
  b = b
  Looks = {a}
  SoftGates <- Blocking
  Keep = 1
  Stable = 2
  NoLook = "none"
  Steps = {}
  MaxRuns = 3
  MaxVersions = 1
  MaxCalls = 3
  MaxKills = 0
INVARIANT StablePassIsProposed

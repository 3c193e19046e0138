SPECIFICATION Spec
CHECK_DEADLOCK FALSE
CONSTANTS
  Sessions = {"agent"}
  a = a
  b = b
  Looks = {a, b}
  SoftGates <- Demoted
  Keep = 1
  Stable = 2
  NoLook = "none"
  Steps = {"abort", "record", "judge", "clean"}
  MaxRuns = 2
  MaxVersions = 2
  MaxCalls = 3
  MaxKills = 1
SYMMETRY Symmetric
INVARIANTS
  CarryIsEvidence
PROPERTIES
  CompletedStands
  SignOffIsEarned
  OnlyTheJudgeForgets
  NewestIsKept

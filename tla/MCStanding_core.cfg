SPECIFICATION Spec
CONSTANTS
  Criteria = {"h", "s"}
  Contracts <- OneKind
  Looks = {"a", "b"}
  Bulk = TRUE
  MaxCommits = 1
  MaxVersions = 1
  MaxStreak = 2
  Steps = {"uncommitted", "park"}
INVARIANTS
  FreshPassSawTheRender
  GreenMeetsThreshold
  GreenIsUntainted
  FailingIsQueued
  StaleIsQueued
  NoZombieSignals

SPECIFICATION Spec
CONSTANTS
  Criteria = {"h", "s"}
  Contracts <- Departing
  Looks = {"a"}
  Bulk = FALSE
  MaxCommits = 1
  MaxVersions = 2
  MaxStreak = 2
  Steps = {"discard", "unfolded", "refreeze", "sweep", "judge"}
INVARIANTS
  FailingIsQueued
  MechanicalGreenIsProven
  GreenHonoursSeverity

CONSTANTS
  Procs = {p1, p2, p3}
  NoFile = NoFile
  Linkable = FALSE
  MaxCrashes = 2
  MaxRetries = 1
SPECIFICATION FairSpec
INVARIANTS ExclusiveUntilKill
PROPERTIES OnlyThievesBreakOwnership KeepsPromise AttemptEnds StaleLockRemoved

SPECIFICATION FairSpec
CONSTANTS
  Callers = {"c1", "c2"}
  Devices = {"a1", "a2"}
  Runs <- MCRuns
  Requests <- Mixed
  NoDevice = NoDevice
  MaxChanges = 1
  MaxFaults = 1
INVARIANTS TypeOK FactsPostdateMiss PinnedOnItsPlatform SkippedForwardWasMade
PROPERTIES SessionHeals

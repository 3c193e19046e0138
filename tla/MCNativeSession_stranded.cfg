SPECIFICATION FairSpec
CONSTANTS
  Callers = {"c"}
  Devices = {"a1", "a2"}
  Runs <- MCRuns
  Requests <- OneBrowse
  NoDevice = NoDevice
  MaxChanges = 2
  MaxFaults = 0
PROPERTIES ReadyIsNoticed

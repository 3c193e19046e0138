SPECIFICATION Spec
CONSTANTS
  mcp = mcp
  cli = cli
  c1 = c1
  c2 = c2
  ios = ios
  android = android
  Hosts = {mcp, cli}
  LongLived = {mcp}
  Calls = {c1, c2}
  Of <- MCOf
  Platforms = {ios, android}
  Wants <- MCWants
  Unbound = Unbound
  Free = Free
  Stranger = Stranger
  NoDevice = NoDevice
  MaxCrashes = 1
INVARIANTS TypeOK LocalOwnsPort
PROPERTIES CallEnds OrphanIsAdopted
CHECK_DEADLOCK FALSE

CONSTANTS
  Procs = {p1, p2, p3, p4}
  NoFile = NoFile
  Linkable = TRUE
  MaxCrashes = 1
  MaxRetries = 0
SPECIFICATION Spec
SYMMETRY Symmetry
INVARIANTS MutualExclusion

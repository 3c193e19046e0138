CONSTANTS
  Keys = {"a", "b", "c"}
  Looks = {0, 1}
  MaxDiff = 0
  Confidence <- Similar
  Projects <- Renamed
  Old = {"b"}
  Outcomes = {"clean", "red", "blank", "threw", "skipped"}
  Verifiers = {v1, v2}
  MaxVerifies = 2
  MaxEdits = 1
  MaxHuman = 1
  MaxKills = 1
SPECIFICATION Spec
INVARIANTS NoFalseGreen PlanIsMatching PrunesUncovered
PROPERTIES RenderKeepsBaseline GateDoesNotHeal
CHECK_DEADLOCK FALSE
SYMMETRY Symmetry

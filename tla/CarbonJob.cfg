CONSTANTS
  Names <- TwoNames
  Immutable <- OnlySecond
  Plans <- AllPlans
  Scenarios <- AllScenarios
SPECIFICATION Spec
CHECK_DEADLOCK FALSE
INVARIANTS TypeOK KeepsWanted
PROPERTIES ReleasedFirst Converges

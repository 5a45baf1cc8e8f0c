SPECIFICATION SafetySpec
CONSTANTS
  Ids = {1, 2, 3, 4, 5}
  Plans <- Varied
  MaxVersion = 3
  Budgets <- FreshOrLagging
INVARIANTS TypeOK TargetsSane SyncSeesCreated
PROPERTIES MinAvailable SurgeBound GrayBound LeftAlone

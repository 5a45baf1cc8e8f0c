SPECIFICATION SafetySpec
CONSTANTS
  s1 = s1
  s2 = s2
  Shards = {s1, s2}
  Settings <- Safety
  Signs = {1, 2}
  Percents = {50, 100}
  MaxGeneration = 2
INVARIANTS TypeOK CompleteIsTrue
PROPERTIES RowsAvailable DropAfterComplete

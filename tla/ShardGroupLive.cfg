SPECIFICATION Spec
CONSTANTS
  s1 = s1
  s2 = s2
  Shards = {s1, s2}
  Settings <- Live
  Signs = {1, 2}
  Percents = {50, 100}
  MaxGeneration = 2
PROPERTY Converges

SPECIFICATION Spec
CONSTANTS
  l1 = l1
  r1 = r1
  Local = {l1}
  Remote = {r1}
  IncomingSize = 1
  ChanSize = 1
  MaxCommits = 4
  Scenarios <- Watching
INVARIANTS TypeOK NeverSendsOnClosedInput NoHoles
PROPERTIES CallsReturn NoLeaks InformersConverge
CHECK_DEADLOCK FALSE

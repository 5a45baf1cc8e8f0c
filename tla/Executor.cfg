SPECIFICATION Spec
CONSTANTS
  a = a
  b = b
  Max = 1
  Calls = {1, 2, 3}
  Batches = {a, b}
  BatchOf <- Owner
  Deadline = {a}
  Workloads <- Mixed
INVARIANTS TypeOK TicketsConserved NilMeansResults
PROPERTIES AnswersInTime BatchReturns NoLeaks
CHECK_DEADLOCK FALSE

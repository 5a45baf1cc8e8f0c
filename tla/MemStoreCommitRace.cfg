CONSTANTS
    Names = {1}
    Batches = {b1}
    KeyFunc <- OneBatch
    Clients = {c1, c2}
    Creators = {c1}
    FailedWriteLands = FALSE
    MaxUid = 2
    MaxVersion = 4
    MaxCrashes = 0
SPECIFICATION Spec
INVARIANT CommittedMatchesPersisted
CHECK_DEADLOCK FALSE

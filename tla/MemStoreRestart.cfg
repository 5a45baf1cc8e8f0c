CONSTANTS
    Names = {1}
    Batches = {b1}
    KeyFunc <- OneBatch
    Clients = {c1, c2}
    Creators = {c1}
    FailedWriteLands = TRUE
    MaxUid = 2
    MaxVersion = 3
    MaxCrashes = 1
SPECIFICATION Spec
INVARIANTS TypeOK DeletedStaysDeleted
PROPERTIES KeepsPromise EventsInOrder NoLostUpdate
CHECK_DEADLOCK FALSE

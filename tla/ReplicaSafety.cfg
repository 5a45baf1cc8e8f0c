SPECIFICATION SafetySpec
CONSTANTS
 Nil = Nil
 DeleteCount = 1
 W = {wa, wb}
 Signs = {1, 2}
 Subresource = TRUE
 Scenarios <- Disturbed
INVARIANT TypeOK
INVARIANT NeverBothReleased
PROPERTY RecoveredFirst
PROPERTY DeletedUnpublishedNow
PROPERTY RecordKept

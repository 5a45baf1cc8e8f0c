SPECIFICATION Spec
CONSTANTS
 Nil = Nil
 DeleteCount = 1
 W = {wa, wb}
 Signs = {1, 2}
 Subresource = TRUE
 Scenarios <- OneAtATime
PROPERTY Converges

SPECIFICATION Spec
CONSTANTS
    Req = {r1, r2}
    HasText = TRUE
INVARIANT OnlyPublishedRetrieved
CHECK_DEADLOCK FALSE

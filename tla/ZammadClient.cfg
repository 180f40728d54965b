SPECIFICATION FairSpec
CONSTANTS
    Call = {c1}
    MaxRetries = 3
    HonoursKeys = TRUE
INVARIANTS
    TypeOK
    FirstRefusalIsFinal
PROPERTIES
    ImplementsAtMostOnce
    EveryCallEnds
CHECK_DEADLOCK FALSE

SPECIFICATION Spec
CONSTANTS
    Request = {r1}
    KbSettings = {TRUE}
    MaxRecentTurns = 3
    MaxSends = 3
    MaxTickets = 1
INVARIANTS
    CoherentSession
    DeflectionCountedOnce
CHECK_DEADLOCK FALSE

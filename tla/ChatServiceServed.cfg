CHECK_DEADLOCK FALSE
SPECIFICATION Spec
CONSTANTS
    Request = {r1}
    KbSettings = {TRUE}
    MaxRecentTurns = 4
    MaxSends = 3
    MaxTickets = 1
INVARIANT TicketSessionsServed

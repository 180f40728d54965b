SPECIFICATION Spec
CONSTANTS
    Request = {r1, r2}
    KbSettings = {FALSE}
    MaxRecentTurns = 2
    MaxSends = 2
    MaxTickets = 2
SYMMETRY Symmetry
INVARIANTS
    TypeOK
    RedisFollowsPostgres
    QuestionIsNotHistory
PROPERTY ActiveTicketKept
CHECK_DEADLOCK FALSE

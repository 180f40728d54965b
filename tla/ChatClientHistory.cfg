CHECK_DEADLOCK FALSE
SPECIFICATION Spec
CONSTANTS
    Streaming = {}
    ListLimit = 2
    StatusRows = {1}
    Tickets = {TRUE}
    MaxSessions = 1
    MaxSends = 1
    MaxFiles = 0
    MaxLoads = 2
    MaxElsewhere = 0
    Together <- MCTogether
INVARIANT HistoryIsShown

CHECK_DEADLOCK FALSE
SPECIFICATION FairSpec
CONSTANTS
    Streaming = {TRUE}
    ListLimit = 7
    StatusRows = {1}
    Tickets = {TRUE}
    MaxSessions = 2
    MaxSends = 2
    MaxFiles = 2
    MaxLoads = 2
    MaxElsewhere = 1
    Together <- MCTogether
INVARIANTS
    TypeOK
    ScreenAgrees
    SessionIsKnown
    WorkIsVisible
    FilesStayInSession
PROPERTIES
    SentIsShownOrError
    ComesToRest

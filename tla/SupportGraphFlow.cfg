SPECIFICATION FairSpec
CONSTANTS
    Thread = {t1}
    FileCounts = {0}
    Confidences = {60}
    MaxAttachments = 1
    MaxSteps = 1
    MaxTickets = 2
PROPERTIES
    ImplementsTicketGate
    EveryTurnEnds

SPECIFICATION Spec
CONSTANTS
    Thread = {t1}
    FileCounts <- MCFileCounts
    Confidences <- MCConfidences
    MaxAttachments = 1
    MaxSteps = 2
    MaxTickets = 1
INVARIANTS
    TypeOK
    NothingWithoutApproval
    SelfHelpFirst
    EscalationIsEnriched
    DeflectionIsNews
    RepliesTruly
    KeepsTurnContract

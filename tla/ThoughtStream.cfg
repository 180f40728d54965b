CHECK_DEADLOCK FALSE
SPECIFICATION FairSpec
CONSTANTS
    Thought = {t1, t2}
    MaxThoughts = 3
INVARIANTS
    TypeOK
    ReaderIsFaithful
PROPERTIES
    ImplementsExchange
    EverySendSettles

SPECIFICATION Spec
CONSTANTS
    Role = {"admin"}
    Preset = {"30d"}
    PageSize = 1
    MaxDay = 2
    MaxChats = 2
    MaxReads = 2
    Doc = {d1, d2}
    NoDoc = NoDoc
    Op = {o1, o2}
SYMMETRY Symmetry
INVARIANTS TypeOK ScreenIsHonest QuietListIsCurrent SpinnersMeanWork
CHECK_DEADLOCK FALSE

SPECIFICATION Spec
CONSTANTS
    Req = {r1, r2, r3}
    HasText = TRUE
SYMMETRY Symmetry
INVARIANTS TypeOK AloneHeals NobodyWaitsInCircle
PROPERTIES ReindexKeepsStatus
CHECK_DEADLOCK FALSE

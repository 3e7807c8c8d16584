CONSTANTS
    Handles = {h1, h2}
    MaxPid = 2
    Reuse = TRUE
    IoMayFail = TRUE
    CanCrash = TRUE
SPECIFICATION Spec
INVARIANTS
    TypeOK
    EndedIsGone
    StoppedIsReported
CHECK_DEADLOCK FALSE
SYMMETRY Symmetry

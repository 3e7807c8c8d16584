CONSTANTS
    Handles = {h1}
    MaxPid = 1
    Reuse = FALSE
    IoMayFail = FALSE
    CanCrash = FALSE
SPECIFICATION Spec
INVARIANTS
    EndNotForgotten
CHECK_DEADLOCK FALSE

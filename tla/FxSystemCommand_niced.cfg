CONSTANTS
    Cmds = {c1}
    MaxPid = 2
    IoMayFail = FALSE
    CanCrash = FALSE
SPECIFICATION Spec
INVARIANTS
    LaterStartsUsePidFile
CHECK_DEADLOCK FALSE

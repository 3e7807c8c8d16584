CONSTANTS
    Cmds = {c1, c2}
    MaxPid = 2
    IoMayFail = TRUE
    CanCrash = TRUE
SPECIFICATION Spec
INVARIANTS
    TypeOK
    AtMostOneProcess
    Recorded
    ChildIsHeld
    DestroyedIsGone
    WaitsForKilled
PROPERTY LifeCycle
SYMMETRY Symmetry
CHECK_DEADLOCK FALSE

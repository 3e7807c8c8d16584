CONSTANTS
    Cmds = {c1, c2}
    MaxPid = 3
    IoMayFail = TRUE
    CanCrash = TRUE
SPECIFICATION FairBareSpec
INVARIANTS
    NoneForgotten
PROPERTY EngineEnds
CHECK_DEADLOCK FALSE

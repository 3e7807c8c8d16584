CONSTANTS
    Handles = {h1}
    MaxPid = 3
    Reuse = TRUE
    IoMayFail = TRUE
    CanCrash = FALSE
SPECIFICATION FairSpec
INVARIANT AtMostOneWorker
PROPERTIES
    MonitorNotices
    CallsEnd
CHECK_DEADLOCK FALSE

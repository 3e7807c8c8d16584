CONSTANTS
    Configs = {{"network"}, {"network", "image"}}
    MaxCont = 2
    MaxLate = 1
    CliFails = TRUE
    Shared = TRUE
SPECIFICATION FairSpec
INVARIANTS
    TypeOK
    DestroyedIsGone
    StartTellsTruth
PROPERTIES
    CallsAndMonitorsEnd
    MonitorNotices
CHECK_DEADLOCK FALSE

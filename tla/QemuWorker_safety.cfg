CONSTANTS
    Polls = {"Status"}
    Supported = {"Powerdown"}
    Events = {"STOP", "RESUME", "SHUTDOWN", "WAKEUP"}
    MaxEvents = 2
    CmdCap = 1
    QmpCap = 1
    AppCap = 1
    MetaCap = 1
    MetaMayFail = TRUE
SPECIFICATION Spec
INVARIANTS
    TypeOK
    EventsInOrder
    NoEventLost
    WorkerLeavesNothing
    StoppedMeansGone
PROPERTY StuckForever
CHECK_DEADLOCK FALSE

CONSTANTS
    Polls = {"Ping"}
    Supported = {"Ping", "Powerdown"}
    Events = {"STOP", "SHUTDOWN"}
    MaxEvents = 2
    CmdCap = 1
    QmpCap = 1
    AppCap = 1
    MetaCap = 1
    MetaMayFail = FALSE
SPECIFICATION FairSpec
INVARIANT RunningHasPid
PROPERTY CallReturnsOrStuck
CHECK_DEADLOCK FALSE

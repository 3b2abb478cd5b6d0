SPECIFICATION MCConnectedSpec
CONSTANTS
    ItemKey = {k1}
    NonOK = {warning}
    OK = ok
    Absent = absent
    NumCollectors = 1
    NumMessengers = 1
    Loggers = {}
    OldLogs = {}
    Web = 1
    Conns = {c1, c2}
    Healthy = {c1}
    UpdCap = 1
    NotifCap = 1
    QueueCap = 1
    MayFail = FALSE
    Updates <- MCUpdates
    MaxUpdates = 2
    MayClose = FALSE
CHECK_DEADLOCK FALSE
PROPERTIES
    HealthyPeerCatchesUp

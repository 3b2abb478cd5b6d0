SPECIFICATION FairSpec
CONSTANTS
    ItemKey = {k1}
    NonOK = {warning}
    OK = ok
    Absent = absent
    NumCollectors = 1
    NumMessengers = 1
    Loggers = {}
    OldLogs = {}
    Web = 1
    Conns = {c1}
    Healthy = {}
    UpdCap = 1
    NotifCap = 1
    QueueCap = 1
    MayFail = TRUE
    Updates <- MCUpdates
    MaxUpdates = 2
    MayClose = TRUE
INVARIANTS
    NoConnectionEscapesShutdown
    NoMissedUpdate
PROPERTIES
    ConnectionsEnd
    CloseTerminates

SPECIFICATION FairSpec
CONSTANTS
    k1 = k1
    k2 = k2
    warning = warning
    ItemKey = {k1, k2}
    NonOK = {warning, error}
    OK = ok
    Absent = absent
    NumCollectors = 2
    NumMessengers = 2
    Loggers = {1}
    OldLogs <- MCOldLogs
    Web = 2
    Conns = {}
    Healthy = {}
    UpdCap = 1
    NotifCap = 1
    QueueCap = 1
    MayFail = FALSE
    Updates <- MCUpdates
    MaxUpdates = 3
    MayClose = TRUE
INVARIANTS
    LogMatchesBoard
    NoSendOnClosedChannel
PROPERTIES
    LinesAreTransitions
    CloseTerminates

SPECIFICATION FairSpec
CONSTANTS
    srv = srv
    Servers = {srv}
    EventCap = 1
    NoticeCap = 1
    MaxNotices = 2
PROPERTIES
    ShutdownCompletes
CHECK_DEADLOCK FALSE

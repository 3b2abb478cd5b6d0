SPECIFICATION TidySpec
CONSTANTS
    srv = srv
    Servers = {srv}
    EventCap = 1
    NoticeCap = 2
    MaxNotices = 2
INVARIANTS
    NoLeakedProcess
    AcceptedInOrder
PROPERTIES
    LinkRefinement
    ShutdownCompletes
CHECK_DEADLOCK FALSE

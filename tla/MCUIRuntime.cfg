SPECIFICATION FairSpec
CONSTANTS
    srv = srv
    item = item
    Servers = {srv}
    Items = {item}
    Severities = {"error"}
    Errors = {"e1"}
    EventCap = 1
    Absent = absent
    CommandCap = 1
    SnoozeKeys <- MCSnoozeKeys
    Durations = {1}
    MaxTime = 1
INVARIANTS
    LiveIsDurable
    ViewIsCurrent
    RootCauseOnly
    HeartbeatOfThisSocket
    NoSilentAlert
PROPERTIES
    OnlyServerResolves
    SnoozesEnd

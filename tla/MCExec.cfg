SPECIFICATION FairSpec
CONSTANTS
    PollInterval = 5
    PollIntervalWhenUnhealthy = 3
    Timeout = 2
    Conditions <- MCConditions
    ExitCode = {exit0, exit1, exit2}
    Success = exit0
    exit2 = exit2
    AnyCode = any
    Killed = killed
    OK = ok
    Error = error
    Warning = warning
    None = none
    UpdCap = 2
INVARIANTS
    PollsAreTimely
    CommandIsBounded
PROPERTIES
    CloseTerminates

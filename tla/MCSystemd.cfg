SPECIFICATION ServedSpec
CONSTANTS
    u1 = u1
    up = up
    starting = starting
    down = down
    broken = broken
    Warning = warning
    Unit = {u1}
    UnitState = {up, starting, down, broken, notsent}
    NotSent = notsent
    UnitRules <- MCUnitRules
    OK = ok
    Error = error
    None = none
    ProviderCap = 1
    ReadyCap = 1
    UpdCap = 1
    MaxEmits = 4
    MaxAfter = 2
INVARIANTS
    CoreIsUpToDate
    NamedUnitsAreReported
PROPERTIES
    ResolvedOnlyAfterRecovery
    CloseTerminates
    RecoveredUnitResolves

SPECIFICATION Spec
CONSTANTS
    ID = {a, b, c}
    MaxCollectors = 3
    MaxMessengers = 2
    UpdCap = 1
INVARIANTS
    AllOrNothing
PROPERTIES
    NewCoreReturns

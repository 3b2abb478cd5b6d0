SPECIFICATION Spec
CONSTANTS
    tokenA = tokenA
    tokenB = tokenB
    Siblings <- TwoSiblings
    Homes <- MCHomes
    MaxCommands = 2
SYMMETRY Symmetry
INVARIANTS
    MigratedWhole
    LegacyStateKept
PROPERTIES
    AlwaysStartable
    UserFilesSurvive
    ReplacedIsBackedUp
CHECK_DEADLOCK FALSE

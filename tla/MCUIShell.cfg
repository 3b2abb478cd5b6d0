SPECIFICATION Spec
CONSTANTS
    SnoozeKeys = {k1}
    Preferences = {light, dark}
    None = none
    Rects = {"r1", "r2"}
INVARIANTS
    NoLostUpdate
    PlacementComesBack

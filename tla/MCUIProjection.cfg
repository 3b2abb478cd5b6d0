SPECIFICATION TraySpec
CONSTANTS
    Icons = {"ok", "warning", "error"}
    Alerting = {"warning", "error"}
    Lists <- MCLists
    NoPopup = NoPopup
    Generations = 3
    PublishCap = 1
INVARIANTS
    OneCadence
    PopupKeepsItsIncident
PROPERTIES
    AlertKeepsFlashing

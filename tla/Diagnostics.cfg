SPECIFICATION ObserverSpec
CONSTANTS
    Probes <- OneProbe
    SpoolProbe = "none"
    Capacity = 5
    EvidenceWindow = 2
    Horizon = 6
    MaxCrashes = 1
    MaxOutages = 1
    MaxRevokes = 1
INVARIANT ObserverInvariant
PROPERTY NothingPendingLost
PROPERTY RecoveredStaysRecovered
PROPERTY PendingDrains
CHECK_DEADLOCK FALSE

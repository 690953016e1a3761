\* Liveness of the row, without symmetry.
SPECIFICATION RecoveryFairSpec
CONSTANTS
    Tabs = {t1}
    Tasks = {x1}
    Threads = {h1, h2}
    Keys = {k1, k2}
    None = None
    BodyTimeouts = FALSE
    MaxLosses = 2
PROPERTIES
    RowIsReleased
CHECK_DEADLOCK FALSE

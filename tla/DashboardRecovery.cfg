\* Two tabs, two keys, one loss.
SPECIFICATION RecoverySpec
CONSTANTS
    Tabs = {t1, t2}
    Tasks = {x1, x2}
    Threads = {h1, h2}
    Keys = {k1, k2}
    None = None
    BodyTimeouts = FALSE
    MaxLosses = 1
SYMMETRY Interchangeable
INVARIANTS
    OpenAttemptIsFenced
    AcknowledgedWasTold
PROPERTIES
    ToldStaysOver
CHECK_DEADLOCK FALSE

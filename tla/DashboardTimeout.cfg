\* One tab; the read of a body may time out.
SPECIFICATION RecoverySpec
CONSTANTS
    Tabs = {t1}
    Tasks = {x1, x2}
    Threads = {h1, h2}
    Keys = {k1, k2}
    None = None
    BodyTimeouts = TRUE
    MaxLosses = 0
SYMMETRY Interchangeable
INVARIANTS
    OneOpenAttempt
CHECK_DEADLOCK FALSE

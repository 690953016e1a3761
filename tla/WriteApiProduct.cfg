\* The private-Web product: one shared execution lock, lease retained.
SPECIFICATION Spec
CONSTANTS
    Keys = {k1, k2}
    Requests = {create, pause}
    Creates = {create}
    Answers = {receipt, error}
    ExecutionError = error
    Servers = {s1, s2}
    Handlers = {h1, h2}
    SharedLock = TRUE
    None = None
SYMMETRY Interchangeable
INVARIANTS
    AtMostOnce
    ServiceCallsAreSerial
PROPERTIES
    PromiseKept
CHECK_DEADLOCK FALSE

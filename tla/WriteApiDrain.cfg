\* The API on its own, without the shared lock: the lease follows the socket.  Liveness
\* of shutdown and lease, so without symmetry; two keys: one create queues behind another.
SPECIFICATION FairSpec
CONSTANTS
    Keys = {k1, k2}
    Requests = {create, pause}
    Creates = {create}
    Answers = {receipt, error}
    ExecutionError = error
    Servers = {s1}
    Handlers = {h1, h2}
    SharedLock = FALSE
    None = None
INVARIANTS
    LeaseCoversHandlers
PROPERTIES
    StoppedServerDrains
    ClosedServerFreesLease
CHECK_DEADLOCK FALSE

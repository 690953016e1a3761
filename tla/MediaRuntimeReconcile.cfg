\* A submit that is left UNKNOWN, and the reads that follow it.
SPECIFICATION MediaSpec
CONSTANTS
    Handlers = {h1}
    Pages = {p1}
    None = None
INVARIANTS
    PendingIsReconcilable
CHECK_DEADLOCK FALSE

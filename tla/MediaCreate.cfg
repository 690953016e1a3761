\* Two handlers, two media submits, and a verification with two looks; without
\* symmetry, for the sake of CloseReturns.
SPECIFICATION CreateFairSpec
CONSTANTS
    Handlers = {h1, h2}
    Pages = {p1, p2}
    None = None
    Budget = 4
    Grace = 1
    Reserve = 1
    Delay = 1
    MaxAttempts = 2
    NoLook = NoLook
INVARIANTS
    NoWriteBesideUnsettled
    LeaseIsReleasedLast
    VerdictIsSound
PROPERTIES
    NoRetryAfterUnknown
    CloseReturns
CHECK_DEADLOCK FALSE

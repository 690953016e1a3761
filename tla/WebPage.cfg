\* Operations on an ad of the first list page and on one that no page shows,
\* another ad on the second page, two operations, one change by others.
SPECIFICATION PageFairSpec
CONSTANTS
    a1 = a1
    a2 = a2
    a3 = a3
    Ads = {a1, a2, a3}
    Targets = {a1, a3}
    OnPage <- Placement
    LastPage = 2
    MaxPages = 3
    None = None
    MaxOps = 2
    MaxMoves = 1
INVARIANTS
    SubmitsWhatItChecked
    SavesNoStaleText
    DoneWasTrue
PROPERTIES
    MakesOneAttempt
    OperationEnds
CHECK_DEADLOCK FALSE
